-------------------------- MODULE UnattendedRunProofs --------------------------
(***************************************************************************)
(* Facts about every run of every plan: its state is well formed, only one *)
(* process of it is past its claim, and, as long as its processes come one *)
(* after the other, work that is durably done is never done again, no task *)
(* is driven past its resume budget, and a recorded completion is proved.  *)
(***************************************************************************)
EXTENDS UnattendedRun, WellFoundedInduction, TLAPS

-----------------------------------------------------------------------------
(* What the operations of the work queue preserve, for every plan.  The     *)
(* fact behind all of it is that propagateHolds reaches a state in which    *)
(* no pending task needs a lost one.                                        *)

StateMaps == [Tasks -> TaskStates]

\* No pending task needs work that was lost.
NoneStranded(st) ==
    \A t \in Tasks : st[t] = "pending" => \A d \in Needs[t] : st[d] \notin {"failed", "held"}

\* propagateHolds touches pending tasks only, holds some of them, and strands none.
LEMMA PropagateSweeps ==
    ASSUME NEW st \in StateMaps
    PROVE  /\ PropagateHolds(st) \in StateMaps
           /\ NoneStranded(PropagateHolds(st))
           /\ \A t \in Tasks : st[t] # "pending" => PropagateHolds(st)[t] = st[t]
           /\ \A t \in Tasks : PropagateHolds(st)[t] \in {st[t], "held"}
<1> DEFINE P == PropagateHolds(st)
<1>1. P \in StateMaps /\ \A t \in Tasks : P[t] = IF t \in Doomed(st) THEN "held" ELSE st[t]
  BY DEF StateMaps, TaskStates, PropagateHolds
<1>2. \A t \in Doomed(st) : st[t] = "pending"
  BY DEF Doomed
<1>3. NoneStranded(P)
  <2> SUFFICES ASSUME NEW t \in Tasks, P[t] = "pending", NEW d \in Needs[t], P[d] \in {"failed", "held"}
               PROVE  FALSE
    BY DEF NoneStranded
  <2>1. st[t] = "pending" /\ t \notin Doomed(st) /\ d \in Tasks
    BY <1>1, PlanAssumption
  <2>2. PICK H \in SUBSET Tasks : Swept(st, H) /\ t \notin H
    BY <2>1 DEF Doomed
  <2>3. d \in Lost(st, H)
    <3>1. CASE d \in Doomed(st)
      BY <3>1, <2>2 DEF Doomed, Lost
    <3>2. CASE d \notin Doomed(st)
      BY <3>2, <1>1, <2>1 DEF Lost
    <3> QED BY <3>1, <3>2
  <2> QED BY <2>1, <2>2, <2>3 DEF Swept
<1> QED BY <1>1, <1>2, <1>3

Sound(p) == p \in Queues /\ NoneStranded(p.state)

\* A new queue is sound, whatever boundaries preflight found.
LEMMA NewQueueSound ==
    ASSUME NEW B
    PROVE  /\ Sound(NewQueue(B))
           /\ \A t \in Tasks : NewQueue(B).state[t] \in {"pending", "held"}
           /\ \A t \in Tasks : NewQueue(B).resumes[t] = 0 /\ NewQueue(B).attempts[t] = 0
<1> DEFINE st == [t \in Tasks |-> IF t \in B THEN "held" ELSE "pending"]
<1>1. st \in StateMaps
  BY DEF StateMaps, TaskStates
<1> HIDE DEF st
<1>2. PropagateHolds(st) \in StateMaps /\ NoneStranded(PropagateHolds(st))
      /\ \A t \in Tasks : PropagateHolds(st)[t] \in {st[t], "held"}
  BY <1>1, PropagateSweeps
<1>3. NewQueue(B) = [state |-> PropagateHolds(st), attempts |-> [t \in Tasks |-> 0],
                     resumes |-> [t \in Tasks |-> 0]]
  BY DEF NewQueue, st
<1>4. \A t \in Tasks : st[t] \in {"pending", "held"}
  BY DEF st
<1> QED BY <1>2, <1>3, <1>4 DEF Sound, Queues, StateMaps

\* Giving a task a state and sweeping keeps the queue sound and leaves alone every
\* other task that was not pending.
LEMMA SetStateSound ==
    ASSUME NEW p \in Queues, NEW t \in Tasks, NEW s \in TaskStates
    PROVE  LET r == SetState(p, t, s)
           IN  /\ Sound(r)
               /\ r.attempts = p.attempts /\ r.resumes = p.resumes
               /\ s # "pending" => r.state[t] = s
               /\ \A u \in Tasks \ {t} : r.state[u] \in {p.state[u], "held"}
               /\ \A u \in Tasks \ {t} : p.state[u] # "pending" => r.state[u] = p.state[u]
<1> DEFINE st == [p.state EXCEPT ![t] = s]
<1>1. st \in StateMaps /\ st[t] = s /\ \A u \in Tasks \ {t} : st[u] = p.state[u]
  BY DEF StateMaps, Queues
<1> HIDE DEF st
<1>2. /\ PropagateHolds(st) \in StateMaps
      /\ NoneStranded(PropagateHolds(st))
      /\ \A u \in Tasks : st[u] # "pending" => PropagateHolds(st)[u] = st[u]
      /\ \A u \in Tasks : PropagateHolds(st)[u] \in {st[u], "held"}
  BY <1>1, PropagateSweeps
<1>3. SetState(p, t, s) = [p EXCEPT !.state = PropagateHolds(st)]
  BY DEF SetState, st
<1>4. /\ SetState(p, t, s).state = PropagateHolds(st)
      /\ SetState(p, t, s).attempts = p.attempts
      /\ SetState(p, t, s).resumes = p.resumes
      /\ SetState(p, t, s) \in Queues
  BY <1>2, <1>3 DEF Queues, StateMaps
<1> QED BY <1>1, <1>2, <1>4 DEF Sound

\* What Restore takes from the journal.
Restorable(rs) ==
    /\ rs.succeeded \subseteq Tasks
    /\ rs.attempts \in [Tasks -> Nat]
    /\ rs.resumes \in [Tasks -> Nat]

\* The states Restore gives the tasks before it sweeps.
RestoredState(p, rs) ==
    [t \in Tasks |-> IF t \in rs.succeeded THEN "succeeded"
                     ELSE IF Overdriven(rs, t) THEN "held" ELSE p.state[t]]

\* Restore, field by field.
LEMMA RestoreIs ==
    ASSUME NEW p \in Queues, NEW rs, Restorable(rs)
    PROVE  Restore(p, rs) =
             [state    |-> PropagateHolds(RestoredState(p, rs)),
              attempts |-> [t \in Tasks |-> IF t \in rs.succeeded THEN p.attempts[t] ELSE rs.attempts[t]],
              resumes  |-> [t \in Tasks |-> IF t \in rs.succeeded THEN p.resumes[t] ELSE rs.resumes[t]]]
<1> DEFINE a == [t \in Tasks |-> IF t \in rs.succeeded THEN p.attempts[t] ELSE rs.attempts[t]]
           m == [t \in Tasks |-> IF t \in rs.succeeded THEN p.resumes[t] ELSE rs.resumes[t]]
           c == RestoreCounts(p, rs)
           z == [t \in Tasks |-> IF t \in rs.succeeded THEN "succeeded"
                                 ELSE IF Overdriven(rs, t) THEN "held" ELSE c.state[t]]
<1>1. a \in [Tasks -> Nat] /\ m \in [Tasks -> Nat]
  BY DEF Queues, Restorable
<1>2. c \in Queues /\ c.state = p.state /\ c.attempts = a /\ c.resumes = m
  BY <1>1 DEF RestoreCounts, Queues
<1>3. z = RestoredState(p, rs)
  BY <1>2 DEF RestoredState
<1>4. Restore(p, rs) = [c EXCEPT !.state = PropagateHolds(z)]
  BY DEF Restore
<1> HIDE DEF c, z, a, m
<1>5. Restore(p, rs) = [state |-> PropagateHolds(RestoredState(p, rs)), attempts |-> a, resumes |-> m]
  BY <1>2, <1>3, <1>4 DEF Queues
<1> QED BY <1>5 DEF a, m

\* A pending task outside some swept set stays pending.
LEMMA OutsideSwept ==
    ASSUME NEW st \in StateMaps, NEW H \in SUBSET Tasks, Swept(st, H), NEW t \in Tasks \ H
    PROVE  PropagateHolds(st)[t] = st[t]
  BY DEF PropagateHolds, Doomed

\* Restore gives a sound queue in which exactly the tasks that had succeeded, or
\* that the journal says succeeded, have succeeded.
LEMMA RestoreSound ==
    ASSUME NEW p \in Queues, NEW rs, Restorable(rs)
    PROVE  /\ Sound(Restore(p, rs))
           /\ \A t \in Tasks : t \in rs.succeeded => Restore(p, rs).state[t] = "succeeded"
           /\ \A t \in Tasks \ rs.succeeded : Restore(p, rs).state[t] \in {p.state[t], "held"}
           /\ \A t \in Tasks \ rs.succeeded : Restore(p, rs).attempts[t] = rs.attempts[t]
           /\ \A t \in Tasks \ rs.succeeded : Restore(p, rs).resumes[t] = rs.resumes[t]
           /\ \A t \in Tasks : Restore(p, rs).state[t] = "pending" => rs.resumes[t] <= MaxResumes[t]
<1> DEFINE st == RestoredState(p, rs)
           a == [t \in Tasks |-> IF t \in rs.succeeded THEN p.attempts[t] ELSE rs.attempts[t]]
           m == [t \in Tasks |-> IF t \in rs.succeeded THEN p.resumes[t] ELSE rs.resumes[t]]
<1>1. st \in StateMaps /\ a \in [Tasks -> Nat] /\ m \in [Tasks -> Nat]
  BY DEF Queues, TaskStates, StateMaps, Restorable, RestoredState
<1>2. /\ PropagateHolds(st) \in StateMaps
      /\ NoneStranded(PropagateHolds(st))
      /\ \A t \in Tasks : st[t] # "pending" => PropagateHolds(st)[t] = st[t]
      /\ \A t \in Tasks : PropagateHolds(st)[t] \in {st[t], "held"}
  <2> HIDE DEF st
  <2> QED BY <1>1, PropagateSweeps
<1>3. /\ Restore(p, rs).state = PropagateHolds(st)
      /\ Restore(p, rs).attempts = a
      /\ Restore(p, rs).resumes = m
      /\ Restore(p, rs) \in Queues
  <2>1. Restore(p, rs) = [state |-> PropagateHolds(st), attempts |-> a, resumes |-> m]
    BY RestoreIs
  <2> HIDE DEF st, a, m
  <2> QED BY <1>1, <1>2, <2>1 DEF Queues, StateMaps
<1>4. \A t \in Tasks : /\ t \in rs.succeeded => st[t] = "succeeded"
                       /\ t \notin rs.succeeded => st[t] \in {p.state[t], "held"}
                       /\ st[t] = "pending" => ~Overdriven(rs, t) /\ t \notin rs.succeeded
  BY DEF RestoredState
<1>5. \A t \in Tasks \ rs.succeeded : a[t] = rs.attempts[t] /\ m[t] = rs.resumes[t]
  OBVIOUS
<1> HIDE DEF st, a, m
<1>6. \A t \in Tasks : PropagateHolds(st)[t] = "pending" => rs.resumes[t] <= MaxResumes[t]
  BY <1>2, <1>4, PlanAssumption DEF Overdriven, Restorable
<1> QED BY <1>1, <1>2, <1>3, <1>4, <1>5, <1>6 DEF Sound, Queues, StateMaps

-----------------------------------------------------------------------------
(* Next: as long as a task is pending, there is one to offer.               *)

\* Every nonempty set of naturals has a least element: bands and plan positions.
LEMMA LeastNatural ==
    ASSUME NEW T \in SUBSET Nat, T # {}
    PROVE  \E x \in T : \A y \in T : x <= y
<1> DEFINE R == {ss \in Nat \X Nat : ss[1] < ss[2]}
<1>1. IsWellFoundedOn(R, Nat)
  BY NatLessThanWellFounded DEF OpToRel
<1>2. PICK x \in T : \A y \in T : ~(<<y, x>> \in R)
  <2>1. T \subseteq Nat
    OBVIOUS
  <2> HIDE DEF R
  <2>2. \E x \in T : \A y \in T : ~(<<y, x>> \in R)
    BY <1>1, <2>1, WFMin, Zenon
  <2> QED BY <2>2
<1>3. ASSUME NEW y \in T PROVE ~(y < x)
  <2>1. <<y, x>> \in Nat \X Nat
    OBVIOUS
  <2> QED BY <2>1, <1>2
<1>4. \A y \in T : x <= y
  BY <1>3
<1> QED BY <1>4

\* In a sound queue a pending task that needs no other pending task is ready, so
\* any pending task at all means a ready one.
LEMMA PendingMeansReady ==
    ASSUME NEW p, Sound(p), NEW u \in Tasks, p.state[u] = "pending"
    PROVE  \E t \in Tasks : Ready(p, t)
<1> DEFINE S == {t \in Tasks : p.state[t] = "pending"}
<1>1. S \in SUBSET Tasks /\ S # {}
  OBVIOUS
<1>2. PICK t \in S : Needs[t] \cap S = {}
  BY <1>1, PlanAssumption
<1>3. \A d \in Needs[t] : d \in Tasks /\ p.state[d] \in TaskStates \ {"failed", "held", "pending"}
  BY <1>2, PlanAssumption DEF Sound, NoneStranded, Queues
<1> QED BY <1>2, <1>3 DEF Ready, TaskStates

\* Of the ready tasks one is first in band order and then in plan order, so Next
\* has an answer whenever a task is pending.
LEMMA PendingMeansOffered ==
    ASSUME NEW p, Sound(p), NEW u \in Tasks, p.state[u] = "pending"
    PROVE  Offered(p) # {}
<1> DEFINE R == {t \in Tasks : Ready(p, t)}
           Bands == {Band[t] : t \in R}
<1>1. R # {}
  BY PendingMeansReady
<1>2. Bands \in SUBSET Nat /\ Bands # {}
  BY <1>1, PlanAssumption
<1>3. PICK b \in Bands : \A c \in Bands : b <= c
  BY <1>2, LeastNatural
<1> DEFINE F == {t \in R : Band[t] = b}
<1>4. F \in SUBSET Nat /\ F # {}
  BY <1>3 DEF Tasks
<1>5. PICK t \in F : \A v \in F : t <= v
  BY <1>4, LeastNatural
<1>6. ASSUME NEW v \in Tasks, Ready(p, v)
      PROVE  Band[t] < Band[v] \/ (Band[t] = Band[v] /\ t <= v)
  <2>1. Band[v] \in Bands /\ Band[t] = b /\ Band[v] \in Nat /\ b \in Nat /\ b <= Band[v]
    BY <1>2, <1>3, <1>5, <1>6, PlanAssumption
  <2>2. CASE Band[v] = b
    BY <2>2, <2>1, <1>5, <1>6
  <2>3. CASE Band[v] # b
    BY <2>3, <2>1
  <2> QED BY <2>2, <2>3
<1> QED BY <1>5, <1>6 DEF Offered

-----------------------------------------------------------------------------
(* What the pieces of a step yield                                          *)

\* Folding a record into a resume state gives a resume state.
LEMMA ApplyType ==
    ASSUME NEW st \in ResumeStates, NEW r \in Records
    PROVE  Apply(st, r) \in ResumeStates
<1> USE DEF ResumeStates
<1>1. CASE r \in [kind : {"started", "succeeded", "resumed", "failed", "held"}, task : LedgerTasks]
  <2>1. r.task \in LedgerTasks
    BY <1>1
  <2>2. \A n \in Nat : AttemptsAfterResume(n) \in Nat
    BY DEF AttemptsAfterResume
  <2>3. CASE r.kind = "started"
    <3> DEFINE x == [st EXCEPT !.interrupted = @ \cup {r.task}, !.attempted = @ \cup {r.task}]
    <3>1. x \in ResumeStates
      BY <2>1
    <3>2. Apply(st, r) = [x EXCEPT !.attempts[r.task] = @ + 1]
      BY <2>3 DEF Apply
    <3> HIDE DEF x
    <3> QED BY <2>1, <3>1, <3>2
  <2>4. CASE r.kind = "succeeded"
    BY <2>1, <2>4 DEF Apply
  <2>5. CASE r.kind = "resumed"
    <3> DEFINE x == [st EXCEPT !.resumes[r.task] = @ + 1]
    <3>1. x \in ResumeStates
      BY <2>1
    <3>2. Apply(st, r) = [x EXCEPT !.attempts[r.task] = AttemptsAfterResume(@)]
      BY <2>5 DEF Apply
    <3> HIDE DEF x
    <3> QED BY <2>1, <2>2, <3>1, <3>2
  <2>6. CASE r.kind \in {"failed", "held"}
    BY <2>1, <2>6 DEF Apply
  <2> QED BY <1>1, <2>3, <2>4, <2>5, <2>6
<1>2. CASE r \in [kind : {"gate"}, gate : Gates, ev : Evidence]
  <2>1. st.gates[r.gate] \in Evidence \cup {NoEvidence} /\ r.ev \in Evidence
    BY <1>2 DEF Ledgers
  <2>2. MergeEvidence(st.gates[r.gate], r.ev) \in Evidence \cup {NoEvidence}
    BY <2>1 DEF MergeEvidence
  <2> QED BY <1>2, <2>2 DEF Apply, Ledgers
<1>3. CASE r \in [kind : {"finished"}, outcome : RunOutcomes]
  BY <1>3 DEF Apply
<1> QED BY <1>1, <1>2, <1>3 DEF Records

\* What the records say to the facts the journal keeps for ever: which tasks
\* succeeded, how often each was resumed, and whether any was started.
LEMMA ApplyKeeps ==
    ASSUME NEW st \in ResumeStates, NEW r \in Records
    PROVE  /\ r.kind # "succeeded" => Apply(st, r).succeeded = st.succeeded
           /\ r.kind = "succeeded" => Apply(st, r).succeeded = st.succeeded \cup {r.task}
           /\ r.kind # "resumed" => Apply(st, r).resumes = st.resumes
           /\ r.kind = "resumed" => Apply(st, r).resumes = [st.resumes EXCEPT ![r.task] = @ + 1]
           /\ r.kind # "started" => Apply(st, r).attempted = st.attempted
           /\ r.kind = "started" => Apply(st, r).attempted = st.attempted \cup {r.task}
<1>1. r.kind \in {"started", "succeeded", "resumed", "failed", "held", "gate", "finished"}
  BY DEF Records
<1>2. CASE r.kind = "started" BY <1>2 DEF Apply, ResumeStates
<1>3. CASE r.kind = "succeeded" BY <1>3 DEF Apply, ResumeStates
<1>4. CASE r.kind = "resumed" BY <1>4 DEF Apply, ResumeStates
<1>5. CASE r.kind \in {"failed", "held"} BY <1>5 DEF Apply, ResumeStates
<1>6. CASE r.kind = "gate" BY <1>6 DEF Apply, ResumeStates
<1>7. CASE r.kind = "finished" BY <1>7 DEF Apply, ResumeStates
<1> QED BY <1>1, <1>2, <1>3, <1>4, <1>5, <1>6, <1>7

\* A record that settles no task, written or lost, leaves the tasks that are done
\* and the resumes as they were.
LEMMA QuietRecord ==
    ASSUME NEW st \in ResumeStates, NEW r \in Records, NEW k \in {"started", "gate", "finished"},
           r.kind = k, NEW new, new = st \/ new = Apply(st, r)
    PROVE  new.succeeded = st.succeeded /\ new.resumes = st.resumes /\ st.attempted \subseteq new.attempted
<1>1. CASE new = st
  BY <1>1
<1>2. CASE new = Apply(st, r)
  <2>1. /\ Apply(st, r).succeeded = st.succeeded
        /\ Apply(st, r).resumes = st.resumes
        /\ st.attempted \subseteq Apply(st, r).attempted
    BY ApplyKeeps
  <2> QED BY <1>2, <2>1
<1> QED BY <1>1, <1>2

\* An interpreted execution gives a gate a result or no verdict at all.
LEMMA OutcomeGate ==
    ASSUME NEW b \in BOOLEAN, NEW o \in Outcomes[b]
    PROVE  o.verdict.gate \in Results \cup {"none"}
<1>1. PICK e \in Executions(b) : o = Outcome(e)
  BY DEF Outcomes
<1>2. e.doc \in Documents \cup {Unreadable} /\ e.declared \in BOOLEAN
  BY <1>1 DEF Executions
<1>3. Usable(e.doc) => InterpretStructured(e.doc, e.signature).gate \in Results \cup {"none"}
  BY <1>2 DEF InterpretStructured, Verdict, Usable, States, Results
<1>4. InterpretExecution(e).gate \in Results \cup {"none"}
  BY <1>2, <1>3 DEF InterpretExecution, Verdict, Results
<1> QED BY <1>1, <1>4 DEF Outcome

\* What settling task t may do to a queue: the other tasks keep their counts, none
\* of them becomes pending again and none loses its success.
Follows(q, r, t) ==
    /\ r \in Queues
    /\ \A u \in Tasks \ {t} :
          /\ r.state[u] = "pending" => q.state[u] = "pending"
          /\ q.state[u] = "succeeded" => r.state[u] = "succeeded"
          /\ r.resumes[u] = q.resumes[u]

\* The operations the runner calls on its queue, as it settles task t.
LEMMA QueueSteps ==
    ASSUME NEW q \in Queues, NEW t \in Tasks, NEW c
    PROVE  /\ Follows(q, RecordSuccess(q, t), t) /\ RecordSuccess(q, t).state[t] = "succeeded"
           /\ Follows(q, Hold(q, t), t) /\ Hold(q, t).state[t] = "held"
           /\ Follows(q, RecordFailure(q, t, c), t)
           /\ RecordFailure(q, t, c).state[t] \in {q.state[t], "failed"}
           /\ RecordFailure(q, t, c).resumes[t] = q.resumes[t]
           /\ Follows(q, RecordResume(q, t), t)
           /\ RecordResume(q, t).state = q.state
           /\ RecordResume(q, t).resumes[t] = q.resumes[t] + 1
           /\ RecordSuccess(q, t) \in Queues /\ Hold(q, t) \in Queues
           /\ RecordFailure(q, t, c) \in Queues /\ RecordResume(q, t) \in Queues
<1> DEFINE a == [q EXCEPT !.attempts[t] = @ + 1]
<1>1. a \in Queues /\ a.state = q.state /\ a.resumes = q.resumes
  BY DEF Queues
<1> HIDE DEF a
<1>2. ASSUME NEW b \in Queues, b.state = q.state, b.resumes = q.resumes, NEW s \in TaskStates \ {"pending"}
      PROVE  /\ Follows(q, SetState(b, t, s), t)
             /\ SetState(b, t, s).state[t] = s
             /\ SetState(b, t, s).resumes[t] = q.resumes[t]
  BY <1>2, SetStateSound DEF Sound, Follows
<1>3. Follows(q, RecordSuccess(q, t), t) /\ RecordSuccess(q, t).state[t] = "succeeded"
  BY <1>1, <1>2 DEF RecordSuccess, TaskStates, a
<1>4. Follows(q, Hold(q, t), t) /\ Hold(q, t).state[t] = "held"
  BY <1>2 DEF Hold, TaskStates
<1>5. /\ Follows(q, RecordFailure(q, t, c), t)
      /\ RecordFailure(q, t, c).state[t] \in {q.state[t], "failed"}
      /\ RecordFailure(q, t, c).resumes[t] = q.resumes[t]
  <2>1. Follows(q, a, t)
    BY <1>1 DEF Follows
  <2>2. RecordFailure(q, t, c) \in {a, SetState(a, t, "failed")}
    BY DEF RecordFailure, a
  <2> QED BY <1>1, <1>2, <2>1, <2>2 DEF TaskStates
<1>6. /\ Follows(q, RecordResume(q, t), t)
      /\ RecordResume(q, t).state = q.state
      /\ RecordResume(q, t).resumes[t] = q.resumes[t] + 1
  BY DEF RecordResume, Follows, Queues
<1>7. /\ RecordSuccess(q, t) \in Queues /\ Hold(q, t) \in Queues
      /\ RecordFailure(q, t, c) \in Queues /\ RecordResume(q, t) \in Queues
  BY <1>3, <1>4, <1>5, <1>6 DEF Follows
<1> QED BY <1>3, <1>4, <1>5, <1>6, <1>7

-----------------------------------------------------------------------------
(* The state is well formed, and one process has the run                    *)

\* A process with a task in hand knows which, and one about to record a verdict
\* has a gate and a result to record.
InHand ==
    \A p \in Procs :
        /\ pc[p] \in {"checked", "executing", "overrun", "gate"} => cur[p].task \in Tasks
        /\ pc[p] = "gate" => QAGate[cur[p].task] \in Gates /\ cur[p].due \in Results

\* A process past its claim is the one that has the lock.
ClaimsAreHeld ==
    \A p \in Procs : pc[p] \in Running \cup {"claimed", "reporting", "closing"} => holder = p

RunInv == TypeOK /\ InHand /\ ClaimsAreHeld

Disks == [tail : Tails, faults : 0 .. MaxFaults]

\* Writing to the journal keeps the account of the file well formed.
LEMMA DiskKept ==
    \A d \in Disks : /\ Written(d) \in Disks
                     /\ Failures(d) \subseteq Disks
                     /\ Appends(d) \subseteq Disks
                     /\ d.faults < MaxFaults => [d EXCEPT !.faults = @ + 1] \in Disks
<1> SUFFICES ASSUME NEW d \in Disks
             PROVE  /\ Written(d) \in Disks /\ Failures(d) \subseteq Disks
                    /\ d.faults < MaxFaults => [d EXCEPT !.faults = @ + 1] \in Disks
  BY DEF Appends
<1>1. d.tail \in Tails /\ d.faults \in 0 .. MaxFaults /\ MaxFaults \in Nat
  BY RunAssumption DEF Disks
<1>2. Ended(d.tail) \in Tails /\ Broken(d.tail) \subseteq Tails
  BY <1>1 DEF Ended, Broken, Tails
<1>3. d.faults < MaxFaults => d.faults + 1 \in 0 .. MaxFaults
  BY <1>1
<1> QED BY <1>1, <1>2, <1>3 DEF Written, Failures, Disks

\* What an append whose error is ignored does to what the journal says.
Noted(r) == led' = Apply(led, r) \/ (DiskFaults /\ led' = led)

LEMMA LogNotes ==
    ASSUME NEW r, Log(r) \/ LogAndRemark(r)
    PROVE  Noted(r)
  BY DEF Log, LogAndRemark, Recorded, Noted

\* What settling a task does to the journal, the queue and nothing else.
LEMMA SettleNotes ==
    ASSUME NEW p, NEW k, NEW q, Settle(p, k, q)
    PROVE  /\ Noted([kind |-> k, task |-> cur[p].task])
           /\ queue' = [queue EXCEPT ![p] = q]
           /\ UNCHANGED <<completion, owner, holder, repo, revs, seen, bounds, fence, verdicts, begins, outside>>
<1>1. \/ Log([kind |-> k, task |-> cur[p].task])
      \/ LogAndRemark([kind |-> k, task |-> cur[p].task])
  BY DEF Settle
<1>2. Noted([kind |-> k, task |-> cur[p].task])
  BY <1>1, LogNotes
<1> QED BY <1>2 DEF Settle

\* How a run's end is recorded: the run goes on to report it only if the record was
\* written, and it was read back if the file ended with a whole line.
LEMMA FinishNotes ==
    ASSUME RunInv, NEW p, Finish(p)
    PROVE  /\ pc[p] = "finishing"
           /\ Noted([kind |-> "finished", outcome |-> OutcomeOf(p)])
           /\ \/ pc' = [pc EXCEPT ![p] = "reporting"]
              \/ pc' = [pc EXCEPT ![p] = "closing"]
           /\ UNCHANGED <<completion, owner, holder, repo, revs, seen, bounds, queue, evid, fence, cur,
                          stop, verdicts, begins, outside>>
<1> DEFINE r == [kind |-> "finished", outcome |-> OutcomeOf(p)]
<1>1. Recorded(r, Written(disk)) \/ (led' = led /\ disk' \in Failures(disk))
  BY DEF Finish
<1>2. disk' \in Failures(disk) => DiskFaults
  <2> SUFFICES ASSUME disk' \in Failures(disk) PROVE DiskFaults
    OBVIOUS
  <2>1. disk.faults < MaxFaults
    BY DEF Failures
  <2> QED BY <2>1, RunAssumption DEF DiskFaults, RunInv, TypeOK
<1>3. Noted(r)
  BY <1>1, <1>2 DEF Recorded, Noted
<1> QED BY <1>3 DEF Finish, Goto, At

\* What a process that is down knows.
LEMMA BlankType ==
    /\ NoSight \in [led : ResumeStates, repo : Repos]
    /\ NewQueue({}) \in Queues
    /\ Blank.queue \in Queues
    /\ EmptyLedger \in Ledgers
    /\ EmptyResume \in ResumeStates
    /\ Idle \in [task : Tasks \cup {0}, due : Results \cup {"none"}]
    /\ Blank.fence \in [run : Procs \cup {Nobody}, branch : Branches, head : Nat]
<1>1. EmptyLedger \in Ledgers
  BY DEF EmptyLedger, Ledgers
<1>2. EmptyResume \in ResumeStates
  BY <1>1 DEF EmptyResume, ResumeStates
<1>3. NoSight \in [led : ResumeStates, repo : Repos] /\ NoSight.repo = [branch |-> "main", head |-> 0, readable |-> TRUE]
  BY <1>2 DEF NoSight, Repos, Branches
<1>4. NewQueue({}) \in Queues
  BY NewQueueSound DEF Sound
<1>5. Blank.queue \in Queues
  BY <1>4 DEF Blank
<1>6. Idle \in [task : Tasks \cup {0}, due : Results \cup {"none"}]
  BY DEF Idle
<1>7. Blank.fence \in [run : Procs \cup {Nobody}, branch : Branches, head : Nat]
  BY <1>3 DEF Blank, TakeFence, Branches
<1> QED BY <1>1, <1>2, <1>3, <1>4, <1>5, <1>6, <1>7

\* The records the runner writes about its task, and those it writes elsewhere.
LEMMA RecordsWritten ==
    /\ \A t \in Tasks : \A k \in {"started", "succeeded", "resumed", "failed", "held"} :
          [kind |-> k, task |-> t] \in Records
    /\ \A g \in Gates, ev \in Evidence : [kind |-> "gate", gate |-> g, ev |-> ev] \in Records
    /\ \A o \in RunOutcomes : [kind |-> "finished", outcome |-> o] \in Records
  BY RunAssumption DEF Records, LedgerTasks

\* A run starts well formed, with nobody past a claim.
LEMMA RunInvInit == Init => RunInv
<1> SUFFICES ASSUME Init PROVE RunInv
  OBVIOUS
<1>1. TypeOK
  BY BlankType, RunAssumption DEF Init, TypeOK, Repos, Branches, Locations, Stops, Origins, Tails
<1>2. InHand /\ ClaimsAreHeld
  BY DEF Init, InHand, ClaimsAreHeld, Running
<1> QED BY <1>1, <1>2 DEF RunInv

\* A process that forgets leaves the state well formed and the lock to the others.
LEMMA ForgetKeeps ==
    ASSUME RunInv, NEW p \in Procs, Forget(p),
           UNCHANGED <<led, completion, repo, revs, verdicts, begins, outside>>,
           owner' \in Procs \cup {Nobody}, disk' \in Disks
    PROVE  RunInv'
<1>1. TypeOK'
  BY BlankType DEF RunInv, TypeOK, Forget, Goto, Locations, Stops, Disks
<1>2. InHand'
  BY DEF RunInv, InHand, TypeOK, Forget, Goto
<1>3. ClaimsAreHeld'
  BY DEF RunInv, ClaimsAreHeld, TypeOK, Forget, Goto, Running
<1> QED BY <1>1, <1>2, <1>3 DEF RunInv

\* Begin: reading, probing, claiming and opening keep the invariant.
LEMMA BeginKeeps ==
    ASSUME RunInv, NEW p \in Procs,
           BeginRead(p) \/ Preflight(p) \/ Acquire(p) \/ Open(p)
    PROVE  RunInv'
<1> USE DEF RunInv, Goto, At, shared, Locations, Running
<1>1. CASE BeginRead(p)
  <2>1. [seen EXCEPT ![p].led = led] \in [Procs -> [led : ResumeStates, repo : Repos]]
    BY DEF TypeOK
  <2>2. TypeOK'
    BY <1>1, <2>1 DEF BeginRead, TypeOK
  <2>3. InHand' /\ ClaimsAreHeld'
    BY <1>1 DEF BeginRead, TypeOK, InHand, ClaimsAreHeld
  <2> QED BY <2>2, <2>3
<1>2. CASE Preflight(p)
  <2>1. [seen EXCEPT ![p].repo = repo] \in [Procs -> [led : ResumeStates, repo : Repos]]
    BY DEF TypeOK
  <2>2. TypeOK'
    BY <1>2, <2>1 DEF Preflight, TypeOK
  <2>3. InHand' /\ ClaimsAreHeld'
    BY <1>2 DEF Preflight, TypeOK, InHand, ClaimsAreHeld
  <2> QED BY <2>2, <2>3
<1>3. CASE Acquire(p)
  <2>1. TypeOK' /\ InHand'
    BY <1>3 DEF Acquire, TypeOK, InHand
  <2>2. ClaimsAreHeld'
    BY <1>3, RunAssumption DEF Acquire, TypeOK, ClaimsAreHeld
  <2> QED BY <2>1, <2>2
<1>4. CASE Open(p)
  <2>1. Restorable(seen[p].led)
    BY RunAssumption DEF TypeOK, ResumeStates, Restorable, LedgerTasks
  <2>2. Opened(bounds[p], seen[p].led) \in Queues
    BY <2>1, NewQueueSound, RestoreSound DEF Sound, Opened
  <2>3. TakeFence(seen[p].repo, p) \in [run : Procs \cup {Nobody}, branch : Branches, head : Nat]
    BY DEF TypeOK, TakeFence, Repos
  <2>4. seen[p].led.gates \in Ledgers
    BY DEF TypeOK, ResumeStates
  <2>7. disk' \in Disks
    BY <1>4, DiskKept DEF Open, TypeOK, Disks
  <2>5. TypeOK'
    BY <1>4, <2>2, <2>3, <2>4, <2>7, BlankType DEF Open, TypeOK, Disks
  <2>6. InHand' /\ ClaimsAreHeld'
    BY <1>4 DEF Open, TypeOK, InHand, ClaimsAreHeld
  <2> QED BY <2>5, <2>6
<1> QED BY <1>1, <1>2, <1>3, <1>4

\* An append leaves a resume state and a file, whether or not it can be read back.
LEMMA LogType ==
    ASSUME TypeOK, NEW r \in Records, Log(r) \/ LogAndRemark(r)
    PROVE  led' \in ResumeStates /\ disk' \in Disks
<1>1. led' \in ResumeStates
  BY ApplyType, LogNotes DEF TypeOK, Noted
<1>2. disk \in Disks
  BY DEF TypeOK, Disks
<1>3. disk' \in Disks
  BY <1>2, DiskKept DEF Log, LogAndRemark
<1> QED BY <1>1, <1>3

LEMMA RemarkType ==
    ASSUME TypeOK, Remark
    PROVE  disk' \in Disks
<1>1. disk \in Disks
  BY DEF TypeOK, Disks
<1> QED BY <1>1, DiskKept DEF Remark

\* The loop, the fence and the start of a task keep the invariant.
LEMMA LoopKeeps ==
    ASSUME RunInv, NEW p \in Procs,
           \/ Cancel(p) \/ Drained(p) \/ StartTask(p) \/ StageCommits(p) \/ RecordAdvance(p)
           \/ \E t \in Tasks : FenceViolated(p, t) \/ FenceVerified(p, t)
    PROVE  RunInv'
<1> USE DEF RunInv, Goto, At, shared, Locations, Running, Halt, Stops
<1>1. CASE Cancel(p)
  BY <1>1 DEF Cancel, TypeOK, InHand, ClaimsAreHeld
<1>2. CASE Drained(p)
  BY <1>2 DEF Drained, TypeOK, InHand, ClaimsAreHeld
<1>3. CASE StartTask(p)
  <2>1. cur[p].task \in Tasks
    BY <1>3 DEF StartTask, InHand
  <2>2. led' \in ResumeStates /\ disk' \in Disks
    BY <1>3, <2>1, RecordsWritten, LogType DEF StartTask
  <2>3. cur' \in [Procs -> [task : Tasks \cup {0}, due : Results \cup {"none"}]]
        /\ cur'[p].task \in Tasks
    BY <1>3, <2>1 DEF StartTask, TypeOK
  <2>4. TypeOK'
    BY <1>3, <2>2, <2>3 DEF StartTask, TypeOK, Disks
  <2>5. InHand' /\ ClaimsAreHeld'
    BY <1>3, <2>3 DEF StartTask, TypeOK, InHand, ClaimsAreHeld
  <2> QED BY <2>4, <2>5
<1>4. CASE StageCommits(p)
  <2>1. revs' \in Seq(Origins) /\ repo' \in Repos
    <3>1. revs \in Seq(Origins) /\ "stage" \in Origins /\ repo \in Repos
      BY DEF TypeOK, Origins
    <3>2. revs' = revs \o <<"stage">> /\ repo' = [repo EXCEPT !.head = Len(revs) + 1]
      BY <1>4 DEF StageCommits, Top
    <3> QED BY <3>1, <3>2 DEF Repos
  <2>2. TypeOK'
    BY <1>4, <2>1 DEF StageCommits, TypeOK, local
  <2>3. InHand' /\ ClaimsAreHeld'
    BY <1>4, <2>1 DEF StageCommits, TypeOK, InHand, ClaimsAreHeld, local
  <2> QED BY <2>2, <2>3
<1>5. CASE RecordAdvance(p)
  <2>1. Advance(fence[p], owner, repo) \in [run : Procs \cup {Nobody}, branch : Branches, head : Nat]
    <3>1. fence[p] \in [run : Procs \cup {Nobody}, branch : Branches, head : Nat] /\ repo.head \in Nat
      BY DEF TypeOK, Repos
    <3>2. Advance(fence[p], owner, repo) \in {fence[p], [fence[p] EXCEPT !.head = repo.head]}
      BY DEF Advance
    <3> QED BY <3>1, <3>2
  <2>2. TypeOK'
    BY <1>5, <2>1, RemarkType DEF RecordAdvance, TypeOK, Disks
  <2>3. InHand' /\ ClaimsAreHeld'
    BY <1>5, <2>1 DEF RecordAdvance, TypeOK, InHand, ClaimsAreHeld
  <2> QED BY <2>2, <2>3
<1>6. ASSUME NEW t \in Tasks, FenceViolated(p, t) PROVE RunInv'
  <2>1. Hold(queue[p], t) \in Queues
    <3>1. queue[p] \in Queues
      BY DEF TypeOK
    <3>2. Follows(queue[p], Hold(queue[p], t), t)
      BY <3>1, QueueSteps
    <3> QED BY <3>2 DEF Follows
  <2>2. TypeOK'
    BY <1>6, <2>1, RemarkType DEF FenceViolated, TypeOK, Disks
  <2>3. InHand' /\ ClaimsAreHeld'
    BY <1>6, <2>1 DEF FenceViolated, TypeOK, InHand, ClaimsAreHeld
  <2> QED BY <2>2, <2>3
<1>7. ASSUME NEW t \in Tasks, FenceVerified(p, t) PROVE RunInv'
  <2>1. LET c == [Idle EXCEPT !.task = t]
        IN  c \in [task : Tasks \cup {0}, due : Results \cup {"none"}] /\ c.task = t
    BY DEF Idle
  <2>2. TypeOK'
    BY <1>7, <2>1, RemarkType DEF FenceVerified, TypeOK, Disks
  <2>3. InHand' /\ ClaimsAreHeld'
    BY <1>7, <2>1 DEF FenceVerified, TypeOK, InHand, ClaimsAreHeld
  <2> QED BY <2>2, <2>3
<1> QED BY <1>1, <1>2, <1>3, <1>4, <1>5, <1>6, <1>7

\* Settling the task in hand, whatever its execution meant.
LEMMA SettleKeeps ==
    ASSUME RunInv, NEW p \in Procs, NEW r \in {"succeeded", "resumed", "failed", "held"},
           NEW q \in Queues, NEW why \in Stops, NEW result \in Results \cup {"none"},
           At(p, "executing") \/ At(p, "overrun"), Settle(p, r, q),
           stop' = [stop EXCEPT ![p] = why],
           \/ NoteGate(p, result, q, why)
           \/ Goto(p, "loop") /\ cur' = [cur EXCEPT ![p] = Idle] /\ UNCHANGED evid
           \/ Goto(p, "overrun") /\ UNCHANGED <<cur, evid>>
    PROVE  RunInv'
<1> USE DEF RunInv, Goto, At, Locations, Running, Stops
<1>1. cur[p].task \in Tasks
  BY DEF InHand
<1>2. led' \in ResumeStates /\ disk' \in Disks
  BY <1>1, RecordsWritten, LogType DEF Settle
<1>9. /\ queue' = [queue EXCEPT ![p] = q]
      /\ UNCHANGED <<completion, owner, holder, repo, revs, seen, bounds, fence, verdicts, begins, outside>>
  BY DEF Settle
<1>3. QAGate[cur[p].task] \in Gates \cup {NoGate}
  BY <1>1, RunAssumption, PacketAssumption
<1>4. \A t : Onward(t, q, why) \in {"advance", "finishing", "loop"}
  BY DEF Onward
<1>5. CASE NoteGate(p, result, q, why) /\ (QAGate[cur[p].task] = NoGate \/ result = "none")
  <2> DEFINE l == Onward(cur[p].task, q, why)
  <2>1. l \in {"advance", "finishing", "loop"}
    BY <1>4
  <2>2. pc' = [pc EXCEPT ![p] = l] /\ cur' = [cur EXCEPT ![p] = Idle] /\ evid' = evid
    BY <1>5 DEF NoteGate
  <2> HIDE DEF l
  <2>3. TypeOK'
    BY <1>9, <1>2, <2>1, <2>2, BlankType DEF TypeOK, Disks
  <2>4. InHand' /\ ClaimsAreHeld'
    BY <1>9, <2>1, <2>2 DEF TypeOK, Disks, InHand, ClaimsAreHeld
  <2> QED BY <2>3, <2>4
<1>6. CASE NoteGate(p, result, q, why) /\ QAGate[cur[p].task] # NoGate /\ result # "none"
  <2>1. QAGate[cur[p].task] \in Gates /\ result \in Results
    BY <1>3, <1>6
  <2>2. Observed(p, result) \in Evidence
    BY <2>1 DEF Observed, Evidence, TypeOK
  <2>3. \A x \in Evidence \cup {NoEvidence} :
           MergeEvidence(x, Observed(p, result)) \in Evidence \cup {NoEvidence}
    BY <2>2 DEF MergeEvidence
  <2>4. evid' \in [Procs -> Ledgers]
    <3> DEFINE g == QAGate[cur[p].task]
               x == MergeEvidence(evid[p][g], Observed(p, result))
    <3>1. x \in Evidence \cup {NoEvidence}
      BY <2>1, <2>3 DEF TypeOK, Ledgers
    <3>2. evid' = [evid EXCEPT ![p] = [evid[p] EXCEPT ![g] = x]]
      BY <1>6 DEF NoteGate
    <3> HIDE DEF x, g
    <3> QED BY <3>1, <3>2 DEF TypeOK, Ledgers
  <2>5. /\ cur' \in [Procs -> [task : Tasks \cup {0}, due : Results \cup {"none"}]]
        /\ cur'[p].task = cur[p].task /\ cur'[p].due = result
        /\ \A o \in Procs \ {p} : cur'[o] = cur[o]
        /\ pc' = [pc EXCEPT ![p] = "gate"]
    <3>1. cur' = [cur EXCEPT ![p].due = result] /\ pc' = [pc EXCEPT ![p] = "gate"]
      BY <1>6 DEF NoteGate
    <3> QED BY <2>1, <3>1 DEF TypeOK
  <2>6. TypeOK'
    BY <1>9, <1>2, <2>4, <2>5 DEF TypeOK, Disks
  <2>7. InHand' /\ ClaimsAreHeld'
    BY <1>9, <1>1, <2>1, <2>5 DEF TypeOK, Disks, InHand, ClaimsAreHeld
  <2> QED BY <2>6, <2>7
<1>7. CASE Goto(p, "loop") /\ cur' = [cur EXCEPT ![p] = Idle] /\ UNCHANGED evid
  BY <1>9, <1>2, <1>7, BlankType DEF TypeOK, Disks, InHand, ClaimsAreHeld
<1>8. CASE Goto(p, "overrun") /\ UNCHANGED <<cur, evid>>
  BY <1>9, <1>1, <1>2, <1>8 DEF TypeOK, Disks, InHand, ClaimsAreHeld
<1> QED BY <1>5, <1>6, <1>7, <1>8

\* Every way an attempt can conclude, and the overrun of a resume budget.
LEMMA ConcludeKeeps ==
    ASSUME RunInv, NEW p \in Procs, Conclude(p) \/ Overrun(p)
    PROVE  RunInv'
<1> DEFINE t == cur[p].task
<1>1. At(p, "executing") \/ At(p, "overrun")
  BY DEF Conclude, Overrun
<1>2. t \in Tasks /\ queue[p] \in Queues /\ stop[p] \in Stops /\ stop \in [Procs -> Stops]
  BY <1>1 DEF RunInv, InHand, TypeOK, At
<1>3. \A c : /\ RecordSuccess(queue[p], t) \in Queues
             /\ RecordResume(queue[p], t) \in Queues
             /\ Hold(queue[p], t) \in Queues
             /\ RecordFailure(queue[p], t, c) \in Queues
  BY <1>2, QueueSteps DEF Follows
<1>4. stop = [stop EXCEPT ![p] = stop[p]]
  BY <1>2
<1> HIDE DEF t
<1>5. CASE Overrun(p)
  BY <1>1, <1>2, <1>3, <1>4, <1>5, SettleKeeps DEF Overrun, Results, t
<1>6. CASE Conclude(p)
  <2>1. PICK o \in Outcomes[(cur[p].task \in Supervised)] :
           \/ Succeed(p, o.verdict) \/ Resume(p, o.verdict)
           \/ StopOnHumanBoundary(p, o.verdict) \/ Fail(p, o.verdict)
    BY <1>6 DEF Conclude
  <2>2. o.verdict.gate \in Results \cup {"none"}
    <3>1. (cur[p].task \in Supervised) \in BOOLEAN
      OBVIOUS
    <3> QED BY <3>1, OutcomeGate
  <2> DEFINE v == o.verdict
  <2> HIDE DEF v
  <2>3. CASE Succeed(p, v)
    BY <1>1, <1>2, <1>3, <1>4, <2>2, <2>3, SettleKeeps DEF Succeed, t, v
  <2>4. CASE Resume(p, v)
    BY <1>1, <1>2, <1>3, <1>4, <2>4, SettleKeeps DEF Resume, t
  <2>5. CASE StopOnHumanBoundary(p, v)
    <3> DEFINE why == IF v.class = "auth" THEN "auth" ELSE "human"
    <3>1. why \in Stops
      BY DEF Stops
    <3>2. Settle(p, "held", Hold(queue[p], t)) /\ stop' = [stop EXCEPT ![p] = why]
          /\ NoteGate(p, v.gate, Hold(queue[p], t), why)
      BY <2>5 DEF StopOnHumanBoundary, Halt, t
    <3> HIDE DEF why
    <3> QED BY <1>1, <1>3, <2>2, <3>1, <3>2, SettleKeeps DEF v
  <2>6. CASE Fail(p, v)
    <3> DEFINE q == RecordFailure(queue[p], t, v.class)
               why == IF PolicyFor(v.class).stopsRun THEN "class" ELSE "none"
               result == IF q.state[t] = "failed" THEN v.gate ELSE "none"
    <3>1. why \in Stops /\ result \in Results \cup {"none"} /\ q \in Queues
      BY <1>3, <2>2 DEF Stops, v
    <3>2. Settle(p, "failed", q) /\ stop' = [stop EXCEPT ![p] = why] /\ NoteGate(p, result, q, why)
      BY <2>6 DEF Fail, Halt, t
    <3> HIDE DEF why, result, q
    <3> QED BY <1>1, <3>1, <3>2, SettleKeeps
  <2> QED BY <2>1, <2>3, <2>4, <2>5, <2>6 DEF v
<1> QED BY <1>5, <1>6

\* Recording a verdict, the end of a run and what outsiders do.
LEMMA EndKeeps ==
    ASSUME RunInv
    PROVE  /\ \A p \in Procs : RecordGate(p) \/ Finish(p) \/ Report(p) => RunInv'
           /\ Outsider => RunInv'
<1> USE DEF RunInv, Goto, At, Locations, Running
<1>1. ASSUME NEW p \in Procs PROVE OutcomeOf(p) \in RunOutcomes
  BY DEF OutcomeOf, RunOutcomes, TypeOK, Stops
<1>2. ASSUME NEW p \in Procs, RecordGate(p) PROVE RunInv'
  <2> DEFINE g == QAGate[cur[p].task]
             ev == Observed(p, cur[p].due)
             l == Onward(cur[p].task, queue[p], stop[p])
  <2>1. g \in Gates /\ ev \in Evidence
    BY <1>2 DEF RecordGate, InHand, Observed, Evidence, TypeOK
  <2>2. l \in {"advance", "finishing", "loop"}
    BY DEF Onward
  <2>3. /\ Log([kind |-> "gate", gate |-> g, ev |-> ev])
        /\ verdicts' = verdicts \cup {[gate |-> g, ev |-> ev]}
        /\ cur' = [cur EXCEPT ![p] = Idle] /\ pc' = [pc EXCEPT ![p] = l]
        /\ UNCHANGED <<completion, owner, holder, repo, revs, seen, bounds, queue, evid, fence, stop,
                       begins, outside>>
    BY <1>2 DEF RecordGate
  <2> HIDE DEF g, ev, l
  <2>4. led' \in ResumeStates /\ disk' \in Disks
    BY <2>1, <2>3, RecordsWritten, LogType
  <2>5. TypeOK'
    BY <2>1, <2>2, <2>3, <2>4, BlankType DEF TypeOK, Disks
  <2>6. InHand' /\ ClaimsAreHeld'
    BY <1>2, <2>2, <2>3 DEF TypeOK, InHand, ClaimsAreHeld, RecordGate
  <2> QED BY <2>5, <2>6
<1>3. ASSUME NEW p \in Procs, Finish(p) PROVE RunInv'
  <2>1. led' \in ResumeStates
    <3>1. [kind |-> "finished", outcome |-> OutcomeOf(p)] \in Records
      BY <1>1, RecordsWritten
    <3> QED BY <1>3, <3>1, ApplyType, FinishNotes DEF Noted, TypeOK
  <2>2. disk' \in Disks
    <3>1. disk \in Disks
      BY DEF TypeOK, Disks
    <3>2. Written(disk) \in Disks /\ Written(disk).faults = disk.faults
      BY <3>1, DiskKept DEF Written, Disks
    <3> QED BY <1>3, <3>1, <3>2, DiskKept DEF Finish
  <2>3. TypeOK'
    BY <1>3, <2>1, <2>2 DEF Finish, TypeOK, Disks
  <2>4. InHand' /\ ClaimsAreHeld'
    BY <1>3 DEF Finish, TypeOK, InHand, ClaimsAreHeld
  <2> QED BY <2>3, <2>4
<1>4. ASSUME NEW p \in Procs, Report(p) PROVE RunInv'
  <2>1. TypeOK'
    <3>1. disk' \in Disks
      BY <1>4, DiskKept DEF Report, TypeOK, Disks
    <3> QED BY <1>1, <1>4, <3>1 DEF Report, TypeOK, Disks
  <2>2. InHand' /\ ClaimsAreHeld'
    BY <1>4 DEF Report, TypeOK, InHand, ClaimsAreHeld
  <2> QED BY <2>1, <2>2
<1>5. ASSUME Outsider PROVE RunInv'
  <2>1. revs \in Seq(Origins) /\ repo \in Repos /\ Len(revs) \in Nat
    BY DEF TypeOK
  <2>2. revs' \in Seq(Origins)
    BY <1>5, <2>1 DEF Outsider, Origins
  <2>3. repo' \in Repos
    <3>1. \/ repo' = [repo EXCEPT !.head = Top + 1]
          \/ \E h \in 1 .. Top : repo' = [repo EXCEPT !.head = h]
          \/ \E b \in Branches : repo' = [repo EXCEPT !.branch = b]
          \/ repo' = [repo EXCEPT !.readable = ~repo.readable]
          \/ repo' = repo
      BY <1>5 DEF Outsider
    <3>2. Top \in Nat
      BY <2>1 DEF Top
    <3>3. \A h \in Nat : [repo EXCEPT !.head = h] \in Repos
      BY <2>1 DEF Repos
    <3>4. \A b \in Branches : [repo EXCEPT !.branch = b] \in Repos
      BY <2>1 DEF Repos
    <3>5. [repo EXCEPT !.readable = ~repo.readable] \in Repos
      BY <2>1, Zenon DEF Repos
    <3>6. Top + 1 \in Nat /\ 1 .. Top \subseteq Nat
      BY <3>2
    <3> QED BY <2>1, <3>1, <3>3, <3>4, <3>5, <3>6
  <2>4. owner' \in Procs \cup {Nobody} /\ outside' \in Nat
    BY <1>5 DEF Outsider, TypeOK
  <2>5. UNCHANGED <<led, disk, completion, holder, local, verdicts, begins>>
    BY <1>5 DEF Outsider
  <2>6. TypeOK'
    BY <2>2, <2>3, <2>4, <2>5 DEF TypeOK, local
  <2>7. InHand' /\ ClaimsAreHeld'
    BY <2>5 DEF TypeOK, InHand, ClaimsAreHeld, local
  <2> QED BY <2>6, <2>7
<1> QED BY <1>2, <1>3, <1>4, <1>5

\* Every step keeps the invariant.
LEMMA RunInvNext == RunInv /\ [Next]_vars => RunInv'
<1> SUFFICES ASSUME RunInv, [Next]_vars PROVE RunInv'
  OBVIOUS
<1>1. ASSUME NEW p \in Procs, Refuse(p) \/ OpenFails(p) \/ Close(p) \/ Die(p) \/ DieWriting(p) PROVE RunInv'
  <2>1. Forget(p) /\ UNCHANGED <<led, completion, repo, revs, verdicts, begins, outside>>
    BY <1>1 DEF Refuse, OpenFails, Close, Die, DieWriting, Release
  <2>2. owner' \in Procs \cup {Nobody}
    BY <1>1 DEF Refuse, OpenFails, Close, Die, DieWriting, Release, RunInv, TypeOK
  <2>3. disk' \in Disks
    <3>1. disk \in Disks
      BY DEF RunInv, TypeOK, Disks
    <3>2. Failures(disk) \subseteq Disks /\ Failures(Written(disk)) \subseteq Disks
          /\ Failures(Written(Written(disk))) \subseteq Disks
      BY <3>1, DiskKept
    <3> QED BY <1>1, <3>1, <3>2 DEF Refuse, OpenFails, Close, Die, DieWriting
  <2> QED BY <2>1, <2>2, <2>3, ForgetKeeps
<1>2. CASE UNCHANGED vars
  BY <1>2 DEF vars, shared, local, RunInv, TypeOK, InHand, ClaimsAreHeld, Top
<1> QED BY <1>1, <1>2, BeginKeeps, LoopKeeps, ConcludeKeeps, EndKeeps DEF Next, Work

\* Every run's state is well formed, whatever its processes, the disk and
\* outsiders do.
THEOREM RunTypeCorrect == Spec => []TypeOK
<1>1. RunInv => TypeOK
  BY DEF RunInv
<1> QED BY RunInvInit, RunInvNext, <1>1, PTL DEF Spec

\* At most one process of a run is past its claim, however many are started and
\* whatever each saw before it claimed.
THEOREM OneRunnerAtATime == Spec => []OneRunner
<1>1. RunInv => OneRunner
  BY DEF RunInv, ClaimsAreHeld, OneRunner, Running
<1> QED BY RunInvInit, RunInvNext, <1>1, PTL DEF Spec

-----------------------------------------------------------------------------
(* Work is not repeated and resumes are bounded, for processes that come    *)
(* one after the other                                                      *)

\* No two processes of the run are alive together; one may still die and be
\* started again as often as it likes.
OneAfterAnother == \A p, r \in Procs : p = r

\* What Begin read of the journal is still what the journal says.
SightIsFresh ==
    \A p \in Procs : pc[p] \in {"read", "probed", "claimed"} => seen[p].led = led

\* The queue knows every durable success, and the task in hand is not one.
DoneIsKnown ==
    \A p \in Procs :
        /\ pc[p] \in Running => \A t \in led.succeeded : queue[p].state[t] = "succeeded"
        /\ pc[p] \in {"checked", "executing", "overrun"} => queue[p].state[cur[p].task] = "pending"

\* With a disk that keeps every record, a pending task has resumes left, and the
\* queue counts at least the durable ones.
ResumesAreCounted ==
    ~DiskFaults => \A p \in Procs : pc[p] \in Running =>
        \A t \in Tasks : queue[p].state[t] = "pending" =>
            /\ led.resumes[t] <= queue[p].resumes[t]
            /\ queue[p].resumes[t] <= MaxResumes[t] \/ (pc[p] = "overrun" /\ t = cur[p].task)

\* Such a journal has a started record before any resume, so a run that was resumed
\* is one that Begin will restore.
StartedFirst ==
    ~DiskFaults =>
        /\ \A p \in Procs : pc[p] \in {"executing", "overrun"} => led.attempted # {}
        /\ \A t \in Tasks : led.resumes[t] # 0 => led.attempted # {}

ResumeBudget == ~DiskFaults => ResumesBounded

SoloInv == SightIsFresh /\ DoneIsKnown /\ ResumesAreCounted /\ StartedFirst /\ ResumeBudget

\* A run starts with nothing done and nobody past a claim.
LEMMA SoloInit == Init => SoloInv
<1> SUFFICES ASSUME Init PROVE SoloInv
  OBVIOUS
<1>1. SightIsFresh /\ DoneIsKnown /\ ResumesAreCounted
  BY DEF Init, SightIsFresh, DoneIsKnown, ResumesAreCounted, Running
<1>2. \A t \in Tasks : led.resumes[t] = 0
  BY RunAssumption DEF Init, EmptyResume, LedgerTasks
<1>3. StartedFirst /\ ResumeBudget
  BY <1>2, PlanAssumption DEF Init, StartedFirst, ResumeBudget, ResumesBounded
<1> QED BY <1>1, <1>3 DEF SoloInv

\* The process that opens the run takes over exactly what the journal says.
LEMMA SoloOpen ==
    ASSUME OneAfterAnother, RunInv, SoloInv, NEW p \in Procs, Open(p)
    PROVE  SoloInv'
<1> USE DEF Goto, At, shared, Running
<1> DEFINE n == NewQueue(bounds[p])
           r == Opened(bounds[p], led)
<1>1. seen[p].led = led /\ led' = led
  BY DEF Open, SoloInv, SightIsFresh
<1>2. Restorable(led) /\ n \in Queues
  BY RunAssumption, NewQueueSound DEF RunInv, TypeOK, ResumeStates, Restorable, LedgerTasks, Sound
<1>3. queue'[p] = r /\ pc' = [pc EXCEPT ![p] = "loop"] /\ \A o \in Procs : o = p
  BY <1>1 DEF Open, OneAfterAnother, RunInv, TypeOK
<1>4. \A t \in Tasks : led.resumes[t] \in Nat /\ MaxResumes[t] \in Nat
  BY <1>2, PlanAssumption DEF Restorable
<1>5. /\ \A t \in led.succeeded : r.state[t] = "succeeded"
      /\ ~DiskFaults => \A t \in Tasks : r.state[t] = "pending" =>
            r.resumes[t] = led.resumes[t] /\ led.resumes[t] <= MaxResumes[t]
  <2>1. CASE Resumed(led)
    <3>1. r = Restore(n, led)
      BY <2>1 DEF Opened
    <3>2. \A t \in Tasks : r.state[t] = "pending" => t \notin led.succeeded
      BY <1>2, <3>1, RestoreSound
    <3> HIDE DEF n
    <3> QED BY <1>2, <3>1, <3>2, RestoreSound DEF Restorable
  <2>2. CASE ~Resumed(led)
    <3>1. r = n /\ led.succeeded = {} /\ led.attempted = {}
      BY <2>2 DEF Opened, Resumed
    <3>2. \A t \in Tasks : n.resumes[t] = 0
      BY NewQueueSound
    <3>3. ~DiskFaults => \A t \in Tasks : led.resumes[t] = 0
      BY <3>1 DEF SoloInv, StartedFirst
    <3> HIDE DEF n, r
    <3> QED BY <1>4, <3>1, <3>2, <3>3
  <2> QED BY <2>1, <2>2
<1>6. pc'[p] = "loop"
  BY <1>3 DEF RunInv, TypeOK
<1> HIDE DEF n, r
<1>7. SightIsFresh' /\ DoneIsKnown'
  BY <1>1, <1>3, <1>5, <1>6 DEF SightIsFresh, DoneIsKnown
<1>8. ResumesAreCounted'
  BY <1>1, <1>3, <1>5, <1>4, <1>6 DEF ResumesAreCounted
<1>9. StartedFirst' /\ ResumeBudget'
  BY <1>1, <1>3, <1>6 DEF SoloInv, StartedFirst, ResumeBudget, ResumesBounded
<1> QED BY <1>7, <1>8, <1>9 DEF SoloInv

\* Steps that neither settle a task nor open a run: the journal's two lasting
\* facts and the queue stay as they are, and the process goes where the three
\* invariants ask nothing new of it.
LEMMA SoloQuiet ==
    ASSUME OneAfterAnother, RunInv, SoloInv, NEW p \in Procs,
           led'.succeeded = led.succeeded, led'.resumes = led.resumes,
           led.attempted \subseteq led'.attempted,
           pc'[p] = "executing" => DiskFaults \/ led'.attempted # {},
           queue'[p] = queue[p],
           pc'[p] \in {"read", "probed", "claimed"} => seen'[p].led = led',
           pc'[p] \in Running => pc[p] \in Running \ {"overrun"},
           pc'[p] # "overrun",
           pc'[p] \in {"checked", "executing"} => queue[p].state[cur'[p].task] = "pending"
    PROVE  SoloInv'
<1>1. \A o \in Procs : o = p
  BY DEF OneAfterAnother
<1>2. SightIsFresh' /\ DoneIsKnown'
  BY <1>1 DEF SoloInv, SightIsFresh, DoneIsKnown
<1>3. ResumesAreCounted'
  BY <1>1 DEF SoloInv, ResumesAreCounted, Running
<1>4. ResumeBudget'
  BY DEF SoloInv, ResumeBudget, ResumesBounded
<1>5. StartedFirst'
  BY <1>1 DEF SoloInv, StartedFirst
<1> QED BY <1>2, <1>3, <1>4, <1>5 DEF SoloInv

\* Nothing the invariant is about changes.
LEMMA SoloStill ==
    ASSUME SoloInv, UNCHANGED <<led, local>>
    PROVE  SoloInv'
  BY DEF SoloInv, SightIsFresh, DoneIsKnown, ResumesAreCounted, StartedFirst, ResumeBudget, ResumesBounded,
         Running, local

\* Task t of process p is settled by the record k and the queue q.
LEMMA SoloSettle ==
    ASSUME OneAfterAnother, RunInv, SoloInv, NEW p \in Procs, NEW t \in Tasks, NEW q \in Queues,
           NEW k \in {"none", "started", "succeeded", "resumed", "failed", "held"},
           pc[p] \in Running, queue[p].state[t] = "pending",
           \/ led' = led
           \/ k # "none" /\ led' = Apply(led, [kind |-> k, task |-> t]),
           queue'[p] = q, Follows(queue[p], q, t),
           k = "succeeded" => q.state[t] = "succeeded",
           k = "resumed" => /\ pc[p] = "executing"
                            /\ q.resumes[t] = queue[p].resumes[t] + 1,
           k # "resumed" => (q.state[t] = "pending" =>
                                pc[p] # "overrun" /\ q.resumes[t] = queue[p].resumes[t]),
           pc[p] = "overrun" => t = cur[p].task,
           pc'[p] \in {"loop", "gate", "advance", "finishing", "overrun"},
           pc'[p] = "overrun" => k = "resumed" /\ cur'[p].task = t /\ q.state[t] = "pending",
           (pc'[p] # "overrun" /\ k = "resumed") => q.resumes[t] <= MaxResumes[t]
    PROVE  SoloInv'
<1>1. \A o \in Procs : o = p
  BY DEF OneAfterAnother
<1>2. k # "none" => [kind |-> k, task |-> t] \in Records
  BY RecordsWritten
<1>3. led \in ResumeStates
  BY DEF RunInv, TypeOK
<1>4. /\ led'.succeeded \subseteq led.succeeded \cup {t}
      /\ t \in led'.succeeded => t \in led.succeeded \/ k = "succeeded"
      /\ \A u \in Tasks \ {t} : led'.resumes[u] = led.resumes[u]
      /\ k # "resumed" => led'.resumes[t] = led.resumes[t]
      /\ k = "resumed" => led'.resumes[t] \in {led.resumes[t], led.resumes[t] + 1}
      /\ led.attempted \subseteq led'.attempted
  <2>1. CASE led' = led
    BY <2>1
  <2>2. CASE k # "none" /\ led' = Apply(led, [kind |-> k, task |-> t])
    <3> DEFINE rec == [kind |-> k, task |-> t]
    <3>1. rec.kind = k /\ rec.task = t /\ rec \in Records
      BY <1>2, <2>2
    <3> HIDE DEF rec
    <3>2. /\ k # "succeeded" => led'.succeeded = led.succeeded
          /\ k = "succeeded" => led'.succeeded = led.succeeded \cup {t}
          /\ k # "resumed" => led'.resumes = led.resumes
          /\ k = "resumed" => led'.resumes = [led.resumes EXCEPT ![t] = @ + 1]
          /\ led.attempted \subseteq led'.attempted
      BY <1>3, <2>2, <3>1, ApplyKeeps DEF rec
    <3>3. led.resumes \in [Tasks -> Nat]
      BY <1>3, RunAssumption DEF ResumeStates, LedgerTasks
    <3> QED BY <3>2, <3>3
  <2> QED BY <2>1, <2>2
<1>5. led.succeeded \subseteq Tasks /\ led.resumes \in [Tasks -> Nat] /\ MaxResumes \in [Tasks -> Nat]
      /\ queue[p].resumes \in [Tasks -> Nat] /\ q.resumes \in [Tasks -> Nat]
  <2>1. led.succeeded \subseteq Tasks /\ led.resumes \in [Tasks -> Nat]
    BY <1>3, RunAssumption DEF ResumeStates, LedgerTasks
  <2>2. MaxResumes \in [Tasks -> Nat]
    BY PlanAssumption
  <2>3. queue[p] \in Queues
    BY DEF RunInv, TypeOK
  <2>4. queue[p].resumes \in [Tasks -> Nat] /\ q.resumes \in [Tasks -> Nat]
    BY <2>3 DEF Queues
  <2> QED BY <2>1, <2>2, <2>4
<1>6. t \notin led.succeeded
  BY DEF SoloInv, DoneIsKnown
<1>7. SightIsFresh'
  BY <1>1 DEF SightIsFresh
<1>8. DoneIsKnown'
  <2>1. \A u \in led'.succeeded : q.state[u] = "succeeded"
    BY <1>4, <1>5, <1>6 DEF SoloInv, DoneIsKnown, Follows
  <2> QED BY <1>1, <2>1 DEF DoneIsKnown
<1>9. ~DiskFaults =>
         /\ led.resumes[t] <= queue[p].resumes[t]
         /\ (queue[p].resumes[t] <= MaxResumes[t] \/ pc[p] = "overrun")
  BY DEF SoloInv, ResumesAreCounted
<1>10. ResumesAreCounted'
  <2> SUFFICES ASSUME ~DiskFaults, NEW u \in Tasks, q.state[u] = "pending"
               PROVE  /\ led'.resumes[u] <= q.resumes[u]
                      /\ q.resumes[u] <= MaxResumes[u] \/ (pc'[p] = "overrun" /\ u = cur'[p].task)
    BY <1>1 DEF ResumesAreCounted
  <2>1. CASE u = t
    BY <1>4, <1>5, <1>9, <2>1
  <2>2. CASE u # t
    <3>1. queue[p].state[u] = "pending" /\ q.resumes[u] = queue[p].resumes[u]
      BY <2>2 DEF Follows
    <3>2. led.resumes[u] <= queue[p].resumes[u] /\ queue[p].resumes[u] <= MaxResumes[u]
      BY <2>2, <3>1 DEF SoloInv, ResumesAreCounted
    <3> QED BY <1>4, <2>2, <3>1, <3>2
  <2> QED BY <2>1, <2>2
<1>11. ResumeBudget'
  <2> SUFFICES ASSUME ~DiskFaults, NEW u \in Tasks PROVE led'.resumes[u] <= MaxResumes[u] + 1
    BY DEF ResumeBudget, ResumesBounded
  <2>1. led.resumes[u] <= MaxResumes[u] + 1
    BY DEF SoloInv, ResumeBudget, ResumesBounded
  <2>2. CASE u = t
    BY <1>4, <1>5, <1>9, <2>1, <2>2
  <2>3. CASE u # t
    BY <1>4, <2>1, <2>3
  <2> QED BY <2>2, <2>3
<1>12. StartedFirst'
  <2> SUFFICES ASSUME ~DiskFaults PROVE StartedFirst'
    BY DEF StartedFirst
  <2>1. k = "resumed" => led.attempted # {}
    BY DEF SoloInv, StartedFirst
  <2>2. \A u \in Tasks : led'.resumes[u] # 0 => led'.attempted # {}
    <3> SUFFICES ASSUME NEW u \in Tasks, led'.resumes[u] # 0 PROVE led'.attempted # {}
      OBVIOUS
    <3>1. led.attempted # {}
      BY <1>4, <2>1 DEF SoloInv, StartedFirst
    <3> QED BY <1>4, <3>1
  <2> QED BY <1>1, <1>4, <2>1, <2>2 DEF StartedFirst
<1> QED BY <1>7, <1>8, <1>10, <1>11, <1>12 DEF SoloInv

\* The steps of Begin before the run is open, and every way a process ends.
LEMMA SoloBegin ==
    ASSUME OneAfterAnother, RunInv, SoloInv, NEW p \in Procs,
           \/ BeginRead(p) \/ Preflight(p) \/ Acquire(p)
           \/ Refuse(p) \/ OpenFails(p) \/ Close(p) \/ Die(p) \/ DieWriting(p)
    PROVE  SoloInv'
<1> USE DEF Goto, At, shared, Running
<1>1. \A o \in Procs : o = p
  BY DEF OneAfterAnother
<1>2. led' = led
  BY DEF BeginRead, Preflight, Acquire, Refuse, OpenFails, Close, Die, DieWriting, Release
<1>3. /\ pc'[p] \in {"down", "read", "probed", "claimed"}
      /\ pc'[p] # "down" => seen'[p].led = led
  <2>1. CASE BeginRead(p)
    BY <2>1 DEF BeginRead, RunInv, TypeOK
  <2>2. CASE Preflight(p) \/ Acquire(p)
    BY <2>2 DEF Preflight, Acquire, RunInv, TypeOK, SoloInv, SightIsFresh
  <2>3. CASE Refuse(p) \/ OpenFails(p) \/ Close(p) \/ Die(p) \/ DieWriting(p)
    BY <2>3 DEF Refuse, OpenFails, Close, Die, DieWriting, Release, Forget, RunInv, TypeOK
  <2> QED BY <2>1, <2>2, <2>3
<1>4. SightIsFresh' /\ DoneIsKnown' /\ ResumesAreCounted'
  BY <1>1, <1>2, <1>3 DEF SightIsFresh, DoneIsKnown, ResumesAreCounted
<1>5. StartedFirst' /\ ResumeBudget'
  BY <1>1, <1>2, <1>3 DEF SoloInv, StartedFirst, ResumeBudget, ResumesBounded
<1> QED BY <1>4, <1>5 DEF SoloInv

\* The loop, the fence, the verdict and the end of the run.
LEMMA SoloLoop ==
    ASSUME OneAfterAnother, RunInv, SoloInv, NEW p \in Procs,
           \/ Cancel(p) \/ Drained(p) \/ StartTask(p) \/ RecordAdvance(p)
           \/ RecordGate(p) \/ Finish(p) \/ Report(p)
           \/ \E t \in Tasks : FenceVerified(p, t)
    PROVE  SoloInv'
<1> USE DEF Goto, At, shared
<1>1. pc \in [Procs -> Locations] /\ led \in ResumeStates
      /\ cur \in [Procs -> [task : Tasks \cup {0}, due : Results \cup {"none"}]]
  BY DEF RunInv, TypeOK
<1>2. CASE Cancel(p) \/ Drained(p) \/ RecordAdvance(p) \/ Report(p)
  BY <1>1, <1>2, SoloQuiet DEF Cancel, Drained, RecordAdvance, Report, Running
<1>3. CASE StartTask(p)
  <2> DEFINE rec == [kind |-> "started", task |-> cur[p].task]
  <2>1. cur[p].task \in Tasks /\ queue[p].state[cur[p].task] = "pending"
    BY <1>3 DEF StartTask, RunInv, InHand, SoloInv, DoneIsKnown
  <2>2. rec \in Records /\ rec.kind = "started"
    BY <2>1, RecordsWritten
  <2>3. (DiskFaults /\ led' = led) \/ led' = Apply(led, rec)
    BY LogNotes, <1>3 DEF StartTask, Noted
  <2> HIDE DEF rec
  <2>4. led'.succeeded = led.succeeded /\ led'.resumes = led.resumes /\ led.attempted \subseteq led'.attempted
    BY <1>1, <2>2, <2>3, QuietRecord
  <2>5. cur'[p].task = cur[p].task
    BY <1>1, <1>3 DEF StartTask
  <2>6. DiskFaults \/ led'.attempted # {}
    <3>1. Apply(led, rec).attempted = led.attempted \cup {rec.task}
      BY <1>1, <2>2, ApplyKeeps
    <3> QED BY <2>3, <3>1
  <2> QED BY <1>1, <1>3, <2>1, <2>4, <2>5, <2>6, SoloQuiet DEF StartTask, Running
<1>4. CASE RecordGate(p)
  <2> DEFINE l == Onward(cur[p].task, queue[p], stop[p])
             rec == [kind |-> "gate", gate |-> QAGate[cur[p].task], ev |-> Observed(p, cur[p].due)]
  <2>1. rec \in Records /\ rec.kind = "gate"
    BY <1>4, RecordsWritten DEF RecordGate, RunInv, InHand, TypeOK, Observed, Evidence
  <2>2. led' = led \/ led' = Apply(led, rec)
    BY LogNotes, <1>4 DEF RecordGate, Noted
  <2>3. l \in {"advance", "finishing", "loop"}
    BY DEF Onward
  <2>4. pc' = [pc EXCEPT ![p] = l] /\ queue' = queue
    BY <1>4 DEF RecordGate
  <2> HIDE DEF rec, l
  <2>5. led'.succeeded = led.succeeded /\ led'.resumes = led.resumes /\ led.attempted \subseteq led'.attempted
    BY <1>1, <2>1, <2>2, QuietRecord
  <2> QED BY <1>1, <1>4, <2>3, <2>4, <2>5, SoloQuiet DEF RecordGate, Running
<1>5. CASE Finish(p)
  <2> DEFINE rec == [kind |-> "finished", outcome |-> OutcomeOf(p)]
  <2>1. OutcomeOf(p) \in RunOutcomes
    BY DEF OutcomeOf, RunOutcomes, RunInv, TypeOK, Stops
  <2>2. rec \in Records /\ rec.kind = "finished"
    BY <2>1, RecordsWritten
  <2>3. led' = led \/ led' = Apply(led, rec)
    BY FinishNotes, <1>5 DEF Noted
  <2> HIDE DEF rec
  <2>4. led'.succeeded = led.succeeded /\ led'.resumes = led.resumes /\ led.attempted \subseteq led'.attempted
    BY <1>1, <2>2, <2>3, QuietRecord
  <2> QED BY <1>1, <1>5, <2>4, SoloQuiet DEF Finish, Running
<1>6. ASSUME NEW t \in Tasks, FenceVerified(p, t) PROVE SoloInv'
  <2>1. queue[p].state[t] = "pending"
    BY <1>6 DEF FenceVerified, Offered, Ready
  <2>2. cur'[p].task = t
    BY <1>1, <1>6 DEF FenceVerified, Idle
  <2> QED BY <1>1, <1>6, <2>1, <2>2, SoloQuiet DEF FenceVerified, Running
<1> QED BY <1>2, <1>3, <1>4, <1>5, <1>6

\* Where NoteGate sends the process.
LEMMA NoteGateGoes ==
    ASSUME RunInv, NEW p \in Procs, NEW result, NEW q, NEW why, NoteGate(p, result, q, why)
    PROVE  pc'[p] \in {"gate", "advance", "finishing", "loop"}
<1>1. \A t : Onward(t, q, why) \in {"advance", "finishing", "loop"}
  BY DEF Onward
<1> QED BY <1>1 DEF NoteGate, Goto, RunInv, TypeOK

\* Every step that settles a task: a fence violation, the four ways an attempt
\* concludes, and the overrun of the resume budget.
LEMMA SoloConclude ==
    ASSUME OneAfterAnother, RunInv, SoloInv, NEW p \in Procs,
           Conclude(p) \/ Overrun(p) \/ \E t \in Tasks : FenceViolated(p, t)
    PROVE  SoloInv'
<1> USE DEF At
<1>1. pc \in [Procs -> Locations] /\ queue[p] \in Queues /\ queue \in [Procs -> Queues]
      /\ cur \in [Procs -> [task : Tasks \cup {0}, due : Results \cup {"none"}]]
  BY DEF RunInv, TypeOK
<1>2. ASSUME NEW t \in Tasks, NEW c
      PROVE  /\ RecordSuccess(queue[p], t) \in Queues /\ Follows(queue[p], RecordSuccess(queue[p], t), t)
             /\ RecordSuccess(queue[p], t).state[t] = "succeeded"
             /\ Hold(queue[p], t) \in Queues /\ Follows(queue[p], Hold(queue[p], t), t)
             /\ Hold(queue[p], t).state[t] = "held"
             /\ RecordFailure(queue[p], t, c) \in Queues
             /\ Follows(queue[p], RecordFailure(queue[p], t, c), t)
             /\ RecordFailure(queue[p], t, c).resumes[t] = queue[p].resumes[t]
             /\ RecordResume(queue[p], t) \in Queues /\ Follows(queue[p], RecordResume(queue[p], t), t)
             /\ RecordResume(queue[p], t).state = queue[p].state
             /\ RecordResume(queue[p], t).resumes[t] = queue[p].resumes[t] + 1
  BY <1>1, QueueSteps
<1>3. ASSUME NEW t \in Tasks, FenceViolated(p, t) PROVE SoloInv'
  <2>1. queue[p].state[t] = "pending" /\ pc[p] = "loop"
    BY <1>3 DEF FenceViolated, Offered, Ready
  <2>2. Hold(queue[p], t) \in Queues /\ Follows(queue[p], Hold(queue[p], t), t)
        /\ Hold(queue[p], t).state[t] = "held"
    BY <1>2
  <2>3. led' = led /\ queue'[p] = Hold(queue[p], t) /\ pc'[p] = "finishing"
    BY <1>1, <1>3 DEF FenceViolated, shared, Goto
  <2> QED BY <2>1, <2>2, <2>3, SoloSettle DEF Running
<1>4. ASSUME Conclude(p) \/ Overrun(p) PROVE SoloInv'
  <2> DEFINE t == cur[p].task
  <2>1. pc[p] \in {"executing", "overrun"}
    BY <1>4 DEF Conclude, Overrun
  <2>2. t \in Tasks /\ queue[p].state[t] = "pending" /\ pc[p] \in Running
    BY <2>1 DEF RunInv, InHand, SoloInv, DoneIsKnown, Running
  <2>3. ASSUME NEW k \in {"succeeded", "resumed", "failed", "held"}, NEW q, Settle(p, k, q)
        PROVE  /\ led' = led \/ led' = Apply(led, [kind |-> k, task |-> t])
               /\ queue'[p] = q
    BY SettleNotes, <1>1, <2>3 DEF Noted
  <2> HIDE DEF t
  <2>4. CASE Overrun(p)
    <3> DEFINE q == Hold(queue[p], t)
    <3>1. q \in Queues /\ Follows(queue[p], q, t) /\ q.state[t] = "held"
      BY <2>2, <1>2
    <3>2. Settle(p, "held", q) /\ pc'[p] \in {"gate", "advance", "finishing", "loop"}
      BY <2>4, NoteGateGoes DEF Overrun, t
    <3> HIDE DEF q
    <3>3. queue'[p] = q /\ (led' = led \/ led' = Apply(led, [kind |-> "held", task |-> t]))
      BY <2>3, <3>2
    <3> QED BY <2>2, <3>1, <3>2, <3>3, SoloSettle DEF t
  <2>5. CASE Conclude(p)
    <3>1. PICK o \in Outcomes[(cur[p].task \in Supervised)] :
             \/ Succeed(p, o.verdict) \/ Resume(p, o.verdict)
             \/ StopOnHumanBoundary(p, o.verdict) \/ Fail(p, o.verdict)
      BY <2>5 DEF Conclude
    <3>2. pc[p] = "executing"
      BY <2>5 DEF Conclude
    <3> DEFINE v == o.verdict
    <3> HIDE DEF v
    <3>3. CASE Succeed(p, v)
      <4> DEFINE q == RecordSuccess(queue[p], t)
      <4>1. q \in Queues /\ Follows(queue[p], q, t) /\ q.state[t] = "succeeded"
        BY <2>2, <1>2
      <4>2. Settle(p, "succeeded", q) /\ pc'[p] \in {"gate", "advance", "finishing", "loop"}
        BY <3>3, NoteGateGoes DEF Succeed, t
      <4> HIDE DEF q
      <4>3. queue'[p] = q /\ (led' = led \/ led' = Apply(led, [kind |-> "succeeded", task |-> t]))
        BY <2>3, <4>2
      <4> QED BY <2>2, <3>2, <4>1, <4>2, <4>3, SoloSettle
    <3>4. CASE Resume(p, v)
      <4> DEFINE q == RecordResume(queue[p], t)
      <4>1. q \in Queues /\ Follows(queue[p], q, t) /\ q.state = queue[p].state
            /\ q.resumes[t] = queue[p].resumes[t] + 1
        BY <2>2, <1>2
      <4>2. Settle(p, "resumed", q)
        BY <3>4 DEF Resume, t
      <4>3. \/ pc'[p] = "loop" /\ q.resumes[t] <= MaxResumes[t]
            \/ pc'[p] = "overrun" /\ cur'[p].task = t
        BY <1>1, <3>4 DEF Resume, MayResume, Goto, t
      <4> HIDE DEF q
      <4>4. queue'[p] = q /\ (led' = led \/ led' = Apply(led, [kind |-> "resumed", task |-> t]))
        BY <2>3, <4>2
      <4> QED BY <2>2, <3>2, <4>1, <4>2, <4>3, <4>4, SoloSettle
    <3>5. CASE StopOnHumanBoundary(p, v)
      <4> DEFINE q == Hold(queue[p], t)
      <4>1. q \in Queues /\ Follows(queue[p], q, t) /\ q.state[t] = "held"
        BY <2>2, <1>2
      <4>2. Settle(p, "held", q) /\ pc'[p] \in {"gate", "advance", "finishing", "loop"}
        BY <3>5, NoteGateGoes DEF StopOnHumanBoundary, t
      <4> HIDE DEF q
      <4>3. queue'[p] = q /\ (led' = led \/ led' = Apply(led, [kind |-> "held", task |-> t]))
        BY <2>3, <4>2
      <4> QED BY <2>2, <3>2, <4>1, <4>2, <4>3, SoloSettle
    <3>6. CASE Fail(p, v)
      <4> DEFINE q == RecordFailure(queue[p], t, v.class)
      <4>1. q \in Queues /\ Follows(queue[p], q, t) /\ q.resumes[t] = queue[p].resumes[t]
        BY <2>2, <1>2
      <4>2. Settle(p, "failed", q) /\ pc'[p] \in {"gate", "advance", "finishing", "loop"}
        BY <3>6, NoteGateGoes DEF Fail, t
      <4> HIDE DEF q
      <4>3. queue'[p] = q /\ (led' = led \/ led' = Apply(led, [kind |-> "failed", task |-> t]))
        BY <2>3, <4>2
      <4> QED BY <2>2, <3>2, <4>1, <4>2, <4>3, SoloSettle
    <3> QED BY <3>1, <3>3, <3>4, <3>5, <3>6 DEF v
  <2> QED BY <1>4, <2>4, <2>5
<1> QED BY <1>3, <1>4

\* Every step of a run whose processes come one after the other.
LEMMA SoloNext == OneAfterAnother /\ RunInv /\ SoloInv /\ [Next]_vars => SoloInv'
<1> SUFFICES ASSUME OneAfterAnother, RunInv, SoloInv, [Next]_vars PROVE SoloInv'
  OBVIOUS
<1>1. ASSUME NEW p \in Procs, StageCommits(p) PROVE SoloInv'
  BY <1>1, SoloStill DEF StageCommits
<1>2. CASE Outsider
  BY <1>2, SoloStill DEF Outsider, local
<1>3. CASE UNCHANGED vars
  BY <1>3, SoloStill DEF vars, shared
<1> QED BY <1>1, <1>2, <1>3, SoloOpen, SoloBegin, SoloLoop, SoloConclude DEF Next, Work

\* Work that is durably done is never started again: across any number of
\* crashes, restarts, resumes and lost appends, for every plan, as long as no two
\* processes of the run are alive together.
THEOREM DoneIsNeverRepeated == OneAfterAnother => (Spec => []NeverRepeated)
<1> SUFFICES ASSUME OneAfterAnother PROVE Spec => []NeverRepeated
  OBVIOUS
<1>1. RunInv /\ SoloInv => NeverRepeated
  BY DEF SoloInv, DoneIsKnown, NeverRepeated, Running
<1>2. Init => RunInv /\ SoloInv
  BY RunInvInit, SoloInit
<1>3. RunInv /\ SoloInv /\ [Next]_vars => RunInv' /\ SoloInv'
  BY RunInvNext, SoloNext
<1> QED BY <1>1, <1>2, <1>3, PTL DEF Spec

\* With a disk that keeps what is appended, no task is driven past its resume
\* budget and one, however often the run is restarted.
THEOREM ResumeBudgetHolds == (OneAfterAnother /\ ~DiskFaults) => (Spec => []ResumesBounded)
<1> SUFFICES ASSUME OneAfterAnother, ~DiskFaults PROVE Spec => []ResumesBounded
  OBVIOUS
<1>1. SoloInv => ResumesBounded
  BY DEF SoloInv, ResumeBudget
<1>2. Init => RunInv /\ SoloInv
  BY RunInvInit, SoloInit
<1>3. RunInv /\ SoloInv /\ [Next]_vars => RunInv' /\ SoloInv'
  BY RunInvNext, SoloNext
<1> QED BY <1>1, <1>2, <1>3, PTL DEF Spec

-----------------------------------------------------------------------------
(* Where stages start and how a run ends                                    *)

\* A record about a task or a gate, written or lost, says nothing of the outcome.
LEMMA OutcomeKept ==
    ASSUME TypeOK, NEW r \in Records, r.kind # "finished", Noted(r)
    PROVE  led'.outcome = led.outcome
<1>1. r.kind \in {"started", "succeeded", "resumed", "failed", "held", "gate"}
  BY DEF Records
<1>2. Apply(led, r).outcome = led.outcome
  BY <1>1 DEF Apply, TypeOK, ResumeStates
<1> QED BY <1>2 DEF Noted

\* What a process has done is in the journal, if the disk keeps what is appended.
Backed(q) == ~DiskFaults => \A t \in Tasks : q.state[t] = "succeeded" => t \in led.succeeded

\* The process goes on in its run: from one place of it to another, the fence
\* check apart, with the outcome, the fence and what Begin saw as they were, and
\* with no success the journal does not get.
Carries(p) ==
    /\ pc[p] \in Running
    /\ \E l \in Running \ {"checked"} : pc' = [pc EXCEPT ![p] = l]
    /\ led'.outcome = led.outcome
    /\ led.succeeded \subseteq led'.succeeded
    /\ Backed(queue[p]) => Backed(queue[p])'
    /\ pc'[p] = "executing" => pc[p] = "checked" /\ cur' = cur
    /\ UNCHANGED <<completion, seen, fence>>

\* No operation on the queue makes a success but the one that records it.
LEMMA SuccessIsRecorded ==
    ASSUME NEW q \in Queues, NEW t \in Tasks, NEW u \in Tasks, NEW c, q.state[u] # "succeeded"
    PROVE  /\ u # t => RecordSuccess(q, t).state[u] # "succeeded"
           /\ Hold(q, t).state[u] # "succeeded"
           /\ RecordFailure(q, t, c).state[u] # "succeeded"
           /\ RecordResume(q, t).state[u] # "succeeded"
<1> DEFINE a == [q EXCEPT !.attempts[t] = @ + 1]
<1>1. a \in Queues /\ a.state = q.state
  BY DEF Queues
<1> HIDE DEF a
<1>2. ASSUME NEW b \in Queues, b.state = q.state, NEW s \in TaskStates \ {"pending"},
             s # "succeeded" \/ u # t
      PROVE  SetState(b, t, s).state[u] # "succeeded"
  BY <1>2, SetStateSound
<1>3. u # t => RecordSuccess(q, t).state[u] # "succeeded"
  BY <1>1, <1>2 DEF RecordSuccess, TaskStates, a
<1>4. Hold(q, t).state[u] # "succeeded"
  BY <1>2 DEF Hold, TaskStates
<1>5. RecordFailure(q, t, c).state[u] # "succeeded"
  BY <1>1, <1>2 DEF RecordFailure, TaskStates, a
<1>6. RecordResume(q, t).state[u] # "succeeded"
  BY DEF RecordResume, Queues
<1> QED BY <1>3, <1>4, <1>5, <1>6

\* Settling a task carries the process on.
LEMMA ConcludeCarries ==
    ASSUME RunInv, NEW p \in Procs, Conclude(p) \/ Overrun(p)
    PROVE  Carries(p)
<1> USE DEF Goto, At, Running
<1>1. pc[p] \in {"executing", "overrun"} /\ cur[p].task \in Tasks
  BY DEF Conclude, Overrun, RunInv, InHand
<1>2. ASSUME NEW k \in {"succeeded", "resumed", "failed", "held"}, NEW q, Settle(p, k, q)
      PROVE  led'.outcome = led.outcome /\ UNCHANGED <<completion, seen, fence>>
  <2>1. [kind |-> k, task |-> cur[p].task] \in Records
    BY <1>1, RecordsWritten
  <2> QED BY <1>2, <2>1, OutcomeKept, SettleNotes DEF RunInv
<1>3. queue \in [Procs -> Queues] /\ queue[p] \in Queues /\ led \in ResumeStates /\ pc \in [Procs -> Locations]
  BY DEF RunInv, TypeOK
<1>4. ASSUME NEW k \in {"succeeded", "resumed", "failed", "held"}, NEW q, Settle(p, k, q),
             \A u \in Tasks : q.state[u] = "succeeded" =>
                 queue[p].state[u] = "succeeded" \/ (k = "succeeded" /\ u = cur[p].task)
      PROVE  led.succeeded \subseteq led'.succeeded /\ (Backed(queue[p]) => Backed(queue[p])')
  <2> DEFINE r == [kind |-> k, task |-> cur[p].task]
  <2>1. r \in Records /\ r.kind = k /\ r.task = cur[p].task
    BY <1>1, RecordsWritten
  <2> HIDE DEF r
  <2>2. /\ led.succeeded \subseteq Apply(led, r).succeeded
        /\ k = "succeeded" => cur[p].task \in Apply(led, r).succeeded
    <3>1. \A st \in ResumeStates, z \in Records :
            /\ z.kind # "succeeded" => Apply(st, z).succeeded = st.succeeded
            /\ z.kind = "succeeded" => Apply(st, z).succeeded = st.succeeded \cup {z.task}
      BY ApplyKeeps
    <3>2. /\ k # "succeeded" => Apply(led, r).succeeded = led.succeeded
          /\ k = "succeeded" => Apply(led, r).succeeded = led.succeeded \cup {cur[p].task}
      BY <1>3, <2>1, <3>1
    <3> QED BY <3>2
  <2>3. (led' = led /\ DiskFaults) \/ led' = Apply(led, r)
    BY SettleNotes, <1>4 DEF Noted, r
  <2>4. queue'[p] = q
    BY <1>3, <1>4 DEF Settle
  <2> QED BY <1>4, <2>2, <2>3, <2>4 DEF Backed
<1>5. \A c : LET t == cur[p].task IN
         /\ \A u \in Tasks : RecordSuccess(queue[p], t).state[u] = "succeeded" =>
               queue[p].state[u] = "succeeded" \/ u = t
         /\ \A u \in Tasks : Hold(queue[p], t).state[u] = "succeeded" => queue[p].state[u] = "succeeded"
         /\ \A u \in Tasks : RecordResume(queue[p], t).state[u] = "succeeded" => queue[p].state[u] = "succeeded"
         /\ \A u \in Tasks : RecordFailure(queue[p], t, c).state[u] = "succeeded" => queue[p].state[u] = "succeeded"
  BY <1>1, <1>3, SuccessIsRecorded
<1>6. ASSUME NEW result, NEW q, NEW why, NoteGate(p, result, q, why)
      PROVE  (\E l \in Running \ {"checked"} : pc' = [pc EXCEPT ![p] = l]) /\ pc'[p] # "executing"
  <2>1. \A t : Onward(t, q, why) \in {"advance", "finishing", "loop"}
    BY DEF Onward
  <2> QED BY <1>6, <1>3, <2>1 DEF NoteGate
<1>7. CASE Overrun(p)
  BY <1>1, <1>2, <1>6, <1>7, <1>4, <1>5 DEF Overrun, Carries
<1>8. CASE Conclude(p)
  <2>1. PICK o \in Outcomes[(cur[p].task \in Supervised)] :
           \/ Succeed(p, o.verdict) \/ Resume(p, o.verdict)
           \/ StopOnHumanBoundary(p, o.verdict) \/ Fail(p, o.verdict)
    BY <1>8 DEF Conclude
  <2>2. CASE Succeed(p, o.verdict)
    BY <1>1, <1>2, <1>6, <1>4, <1>5, <2>2 DEF Succeed, Carries
  <2>3. CASE Resume(p, o.verdict)
    BY <1>1, <1>2, <1>3, <1>4, <1>5, <2>3 DEF Resume, Carries
  <2>4. CASE StopOnHumanBoundary(p, o.verdict)
    BY <1>1, <1>2, <1>6, <1>4, <1>5, <2>4 DEF StopOnHumanBoundary, Carries
  <2>5. CASE Fail(p, o.verdict)
    BY <1>1, <1>2, <1>6, <1>4, <1>5, <2>5 DEF Fail, Carries
  <2> QED BY <2>1, <2>2, <2>3, <2>4, <2>5
<1> QED BY <1>7, <1>8

\* Every step of a run is one of these.
LEMMA StepKinds ==
    ASSUME RunInv, [Next]_vars
    PROVE  \/ UNCHANGED <<led, completion, local>>
           \/ \E p \in Procs :
                 \/ BeginRead(p) \/ Preflight(p) \/ Acquire(p) \/ Open(p)
                 \/ \E t \in Tasks : FenceVerified(p, t)
                 \/ RecordAdvance(p) \/ Finish(p) \/ Report(p)
                 \/ Forget(p) /\ UNCHANGED <<led, completion>>
                 \/ Carries(p)
<1> USE DEF Goto, At, Running
<1>1. ASSUME NEW p \in Procs, Refuse(p) \/ OpenFails(p) \/ Close(p) \/ Die(p) \/ DieWriting(p)
      PROVE  Forget(p) /\ UNCHANGED <<led, completion>>
  BY <1>1 DEF Refuse, OpenFails, Close, Die, DieWriting, Release
<1>2. ASSUME NEW p \in Procs,
             Cancel(p) \/ Drained(p) \/ \E t \in Tasks : FenceViolated(p, t)
      PROVE  Carries(p)
  <2>1. queue \in [Procs -> Queues] /\ queue[p] \in Queues /\ pc \in [Procs -> Locations]
    BY DEF RunInv, TypeOK
  <2>2. \A t, u \in Tasks : Hold(queue[p], t).state[u] = "succeeded" => queue[p].state[u] = "succeeded"
    BY <2>1, SuccessIsRecorded
  <2>3. CASE Cancel(p) \/ Drained(p)
    BY <2>1, <2>3 DEF Cancel, Drained, Carries, Backed, shared
  <2>4. ASSUME NEW t \in Tasks, FenceViolated(p, t) PROVE Carries(p)
    BY <2>1, <2>2, <2>4 DEF FenceViolated, Carries, Backed, shared
  <2> QED BY <1>2, <2>3, <2>4
<1>3. ASSUME NEW p \in Procs, StartTask(p) PROVE Carries(p)
  <2>1. [kind |-> "started", task |-> cur[p].task] \in Records
    BY <1>3, RecordsWritten DEF StartTask, RunInv, InHand
  <2>2. led'.outcome = led.outcome
    BY <1>3, <2>1, OutcomeKept, LogNotes DEF StartTask, RunInv
  <2>3. led.succeeded = led'.succeeded
    BY LogNotes, <1>3, <2>1, QuietRecord DEF StartTask, Noted, RunInv, TypeOK
  <2> QED BY <1>3, <2>2, <2>3 DEF StartTask, Carries, Backed
<1>4. ASSUME NEW p \in Procs, RecordGate(p) PROVE Carries(p)
  <2> DEFINE r == [kind |-> "gate", gate |-> QAGate[cur[p].task], ev |-> Observed(p, cur[p].due)]
  <2>1. QAGate[cur[p].task] \in Gates /\ Observed(p, cur[p].due) \in Evidence
    BY <1>4 DEF RecordGate, RunInv, InHand, Observed, Evidence, TypeOK
  <2>2. r \in Records
    BY <2>1, RecordsWritten
  <2>3. led'.outcome = led.outcome
    BY <1>4, <2>2, OutcomeKept, LogNotes DEF RecordGate, RunInv
  <2>4. Onward(cur[p].task, queue[p], stop[p]) \in {"advance", "finishing", "loop"}
    BY DEF Onward
  <2>5. r.kind = "gate" /\ led' \in {led, Apply(led, r)}
    BY LogNotes, <1>4 DEF RecordGate, Noted
  <2> HIDE DEF r
  <2>6. led.succeeded = led'.succeeded
    BY <2>2, <2>5, QuietRecord DEF RunInv, TypeOK
  <2>7. pc \in [Procs -> Locations]
    BY DEF RunInv, TypeOK
  <2> QED BY <1>4, <2>3, <2>4, <2>6, <2>7 DEF RecordGate, Carries, Backed
<1>5. ASSUME NEW p \in Procs, StageCommits(p) PROVE UNCHANGED <<led, completion, local>>
  BY <1>5 DEF StageCommits
<1>6. Outsider => UNCHANGED <<led, completion, local>>
  BY DEF Outsider
<1>7. UNCHANGED vars => UNCHANGED <<led, completion, local>>
  BY DEF vars, shared
<1> QED BY <1>1, <1>2, <1>3, <1>4, <1>5, <1>6, <1>7, ConcludeCarries DEF Next, Work

\* What Begin saw was the run's own branch, and so is what the fence guards.
FenceInv ==
    \A p \in Procs :
        /\ pc[p] \in {"probed", "claimed"} => seen[p].repo.branch = "main"
        /\ pc[p] \in Running => fence[p].branch = "main" /\ fence[p].run = p

LEMMA FenceNext == RunInv /\ FenceInv /\ [Next]_vars => FenceInv'
<1> SUFFICES ASSUME RunInv, FenceInv, [Next]_vars PROVE FenceInv'
  OBVIOUS
<1> USE DEF Goto, At, Running
<1>0. /\ pc \in [Procs -> Locations] /\ seen \in [Procs -> [led : ResumeStates, repo : Repos]]
      /\ fence \in [Procs -> [run : Procs \cup {Nobody}, branch : Branches, head : Nat]]
  BY DEF RunInv, TypeOK
<1>1. CASE UNCHANGED <<led, completion, local>>
  BY <1>1 DEF local, FenceInv
<1>2. ASSUME NEW p \in Procs, BeginRead(p) \/ Acquire(p) \/ Finish(p) \/ Report(p) PROVE FenceInv'
  BY <1>0, <1>2 DEF BeginRead, Acquire, Finish, Report, FenceInv
<1>3. ASSUME NEW p \in Procs, Preflight(p) PROVE FenceInv'
  BY <1>0, <1>3 DEF Preflight, WorktreeIsOurs, FenceInv
<1>4. ASSUME NEW p \in Procs, Open(p) PROVE FenceInv'
  BY <1>0, <1>4 DEF Open, TakeFence, FenceInv
<1>5. ASSUME NEW p \in Procs, RecordAdvance(p) PROVE FenceInv'
  <2>1. /\ Advance(fence[p], owner, repo).branch = fence[p].branch
        /\ Advance(fence[p], owner, repo).run = fence[p].run
    BY <1>0 DEF Advance
  <2> QED BY <1>0, <1>5, <2>1 DEF RecordAdvance, FenceInv
<1>6. ASSUME NEW p \in Procs, NEW t \in Tasks, FenceVerified(p, t) PROVE FenceInv'
  BY <1>0, <1>6 DEF FenceVerified, FenceInv
<1>7. ASSUME NEW p \in Procs, Forget(p) PROVE FenceInv'
  BY <1>0, <1>7 DEF Forget, FenceInv
<1>8. ASSUME NEW p \in Procs, Carries(p) PROVE FenceInv'
  BY <1>0, <1>8 DEF Carries, FenceInv
<1> QED BY <1>1, <1>2, <1>3, <1>4, <1>5, <1>6, <1>7, <1>8, StepKinds

\* Every mutating stage starts on the declared branch with the worktree recorded
\* as the run's, for any processes, any disk and any outsiders.
THEOREM StagesAreHome == Spec => StagesStartAtHome
<1>1. RunInv /\ FenceInv /\ [Next]_vars => StartsAtHome
  <2> SUFFICES ASSUME RunInv, FenceInv, [Next]_vars, NEW p \in Procs,
                      pc[p] = "loop", pc'[p] = "checked", cur'[p].task \in Mutates
               PROVE  repo.branch = "main" /\ owner = p
    BY DEF StartsAtHome
  <2> USE DEF Goto, At, Running
  <2>1. pc \in [Procs -> Locations]
    BY DEF RunInv, TypeOK
  <2>2. \E t \in Tasks : FenceVerified(p, t)
    BY <2>1, StepKinds, ZenonT(40)
       DEF local, BeginRead, Preflight, Acquire, Open, RecordAdvance, Finish, Report,
           Forget, Carries, FenceVerified
  <2>3. PICK t \in Tasks : FenceVerified(p, t)
    BY <2>2
  <2>4. cur'[p].task = t
    BY <2>3 DEF FenceVerified, Idle, RunInv, TypeOK
  <2>5. Check(fence[p], owner, repo) = "intact"
    BY <2>3, <2>4 DEF FenceVerified, FenceHolds
  <2>6. owner = fence[p].run /\ repo.branch = fence[p].branch
    BY <2>5 DEF Check, RunInv, TypeOK, Repos
  <2> QED BY <2>6 DEF FenceInv
<1>2. Init => RunInv /\ FenceInv
  BY RunInvInit DEF Init, FenceInv, Running
<1>3. RunInv /\ FenceInv /\ [Next]_vars => RunInv' /\ FenceInv'
  BY RunInvNext, FenceNext
<1>4. RunInv /\ FenceInv /\ [Next]_vars => [StartsAtHome]_vars
  BY <1>1
<1> QED BY <1>2, <1>3, <1>4, PTL DEF Spec, StagesStartAtHome

\* No process is in a run that is completed.
EndInv ==
    \A p \in Procs : pc[p] \in {"read", "probed", "claimed"} \cup Running => led.outcome # "completed"

LEMMA EndNext == OneAfterAnother /\ RunInv /\ EndInv /\ [Next]_vars => EndInv'
<1> SUFFICES ASSUME OneAfterAnother, RunInv, EndInv, [Next]_vars PROVE EndInv'
  OBVIOUS
<1> USE DEF Goto, At, Running
<1>0. pc \in [Procs -> Locations] /\ led \in ResumeStates /\ \A p, r \in Procs : p = r
  BY DEF RunInv, TypeOK, OneAfterAnother
<1>1. CASE UNCHANGED <<led, completion, local>>
  BY <1>1 DEF local, EndInv
<1>2. ASSUME NEW p \in Procs, BeginRead(p) \/ Preflight(p) \/ Acquire(p) \/ Open(p) PROVE EndInv'
  BY <1>0, <1>2 DEF BeginRead, Preflight, Acquire, Open, EndInv, shared
<1>3. ASSUME NEW p \in Procs, RecordAdvance(p) \/ \E t \in Tasks : FenceVerified(p, t) PROVE EndInv'
  BY <1>0, <1>3 DEF RecordAdvance, FenceVerified, EndInv, shared
<1>4. ASSUME NEW p \in Procs, Finish(p) PROVE EndInv'
  BY <1>0, <1>4, FinishNotes DEF EndInv
<1>5. ASSUME NEW p \in Procs, Report(p) PROVE EndInv'
  BY <1>0, <1>5 DEF Report, EndInv
<1>6. ASSUME NEW p \in Procs, Forget(p), UNCHANGED <<led, completion>> PROVE EndInv'
  BY <1>0, <1>6 DEF Forget, EndInv
<1>7. ASSUME NEW p \in Procs, Carries(p) PROVE EndInv'
  BY <1>0, <1>7 DEF Carries, EndInv
<1> QED BY <1>1, <1>2, <1>3, <1>4, <1>5, <1>6, <1>7, StepKinds

LEMMA EndInit == Init => RunInv /\ EndInv
  BY RunInvInit DEF Init, EndInv, EmptyResume, Running

\* A process that is about to write completion.json has its outcome in the journal,
\* unless the file has a malformed line.
ReportsAreRead ==
    \A p \in Procs : pc[p] = "reporting" /\ disk.tail = "ended" => led.outcome = OutcomeOf(p)

\* While one process is about to report, nobody else touches the journal or what
\* that process knows.
LEMMA NobodyElseWrites ==
    ASSUME RunInv, NEW r \in Procs, pc[r] = "reporting", pc'[r] = "reporting", [Next]_vars
    PROVE  /\ UNCHANGED <<led, disk>>
           /\ stop'[r] = stop[r] /\ queue'[r] = queue[r] /\ bounds'[r] = bounds[r]
           /\ evid'[r] = evid[r] /\ fence'[r] = fence[r]
<1> DEFINE Still == /\ UNCHANGED <<led, disk>>
                    /\ stop'[r] = stop[r] /\ queue'[r] = queue[r] /\ bounds'[r] = bounds[r]
                    /\ evid'[r] = evid[r] /\ fence'[r] = fence[r]
<1> USE DEF Goto, At, Running
<1>0. /\ pc \in [Procs -> Locations]
      /\ \A p \in Procs \ {r} :
            pc[p] \notin {"claimed", "reporting", "closing", "loop", "checked", "executing", "overrun",
                          "gate", "advance", "finishing"}
  BY DEF RunInv, TypeOK, ClaimsAreHeld
<1>1. ASSUME NEW p \in Procs,
             \/ Acquire(p) \/ Open(p) \/ OpenFails(p) \/ Cancel(p) \/ Drained(p) \/ StartTask(p)
             \/ StageCommits(p) \/ Conclude(p) \/ Overrun(p) \/ RecordGate(p) \/ RecordAdvance(p)
             \/ Finish(p) \/ Report(p) \/ Close(p) \/ DieWriting(p)
             \/ \E t \in Tasks : FenceViolated(p, t) \/ FenceVerified(p, t)
      PROVE  Still
  <2>1. p # r
    <3>1. CASE Report(p)
      BY <1>0, <3>1 DEF Report
    <3>2. CASE Close(p) \/ DieWriting(p)
      BY <1>0, <3>2 DEF Close, DieWriting, Writing
    <3>3. CASE ~(Report(p) \/ Close(p) \/ DieWriting(p))
      BY <1>1, <3>3 DEF Acquire, Open, OpenFails, Cancel, Drained, StartTask, StageCommits, Conclude,
                        Overrun, RecordGate, RecordAdvance, Finish, FenceViolated, FenceVerified
    <3> QED BY <3>1, <3>2, <3>3
  <2>2. CASE Acquire(p)
    BY <2>1, <2>2 DEF Acquire
  <2>3. CASE ~Acquire(p)
    BY <1>0, <1>1, <2>1, <2>3
       DEF Open, OpenFails, Cancel, Drained, StartTask, StageCommits, Conclude, Overrun, RecordGate,
           RecordAdvance, Finish, FenceViolated, FenceVerified, Report, Close, DieWriting, Writing
  <2> QED BY <2>2, <2>3
<1>2. ASSUME NEW p \in Procs, BeginRead(p) \/ Preflight(p) PROVE Still
  BY <1>0, <1>2 DEF BeginRead, Preflight, shared, RunInv, TypeOK
<1>3. ASSUME NEW p \in Procs, Refuse(p) \/ Die(p) PROVE Still
  BY <1>0, <1>3 DEF Refuse, Die, Forget, RunInv, TypeOK
<1>4. ASSUME Outsider PROVE Still
  BY <1>4 DEF Outsider, local
<1>5. ASSUME UNCHANGED vars PROVE Still
  BY <1>5 DEF vars, shared, local
<1> HIDE DEF Still
<1>6. ASSUME NEW p \in Procs,
             BeginRead(p) \/ Work(p) \/ Cancel(p) \/ StageCommits(p) \/ Die(p) \/ DieWriting(p)
      PROVE  Still
  <2>1. CASE Work(p)
    BY <1>1, <1>2, <1>3, <2>1, Zenon DEF Work
  <2>2. CASE ~Work(p)
    BY <1>1, <1>2, <1>3, <1>6, <2>2, Zenon
  <2> QED BY <2>1, <2>2
<1>7. ASSUME Next PROVE Still
  BY <1>4, <1>6, <1>7, Zenon DEF Next
<1> QED BY <1>5, <1>7 DEF Still

LEMMA ReportNext == RunInv /\ ReportsAreRead /\ [Next]_vars => ReportsAreRead'
<1> SUFFICES ASSUME RunInv, ReportsAreRead, [Next]_vars, NEW r \in Procs,
                    pc'[r] = "reporting", disk'.tail = "ended"
             PROVE  led'.outcome = OutcomeOf(r)'
  BY DEF ReportsAreRead
<1> USE DEF Goto, At, Running
<1>0. pc \in [Procs -> Locations] /\ led \in ResumeStates /\ disk.tail \in Tails
  BY DEF RunInv, TypeOK
<1>1. CASE pc[r] = "reporting"
  <2>1. /\ UNCHANGED <<led, disk>>
        /\ stop'[r] = stop[r] /\ queue'[r] = queue[r] /\ bounds'[r] = bounds[r]
        /\ evid'[r] = evid[r] /\ fence'[r] = fence[r]
    BY <1>1, NobodyElseWrites
  <2>2. OutcomeOf(r)' = OutcomeOf(r)
    BY <2>1 DEF OutcomeOf, InState
  <2> QED BY <1>1, <2>1, <2>2 DEF ReportsAreRead
<1>2. CASE pc[r] # "reporting"
  <2>1. Finish(r)
    <3>1. ASSUME NEW p \in Procs, Carries(p) PROVE pc'[r] # "reporting"
      BY <1>0, <1>2, <3>1 DEF Carries
    <3>2. ASSUME NEW p \in Procs, Forget(p) PROVE pc'[r] # "reporting"
      BY <1>0, <1>2, <3>2 DEF Forget
    <3>3. ASSUME NEW p \in Procs,
                 \/ BeginRead(p) \/ Preflight(p) \/ Acquire(p) \/ Open(p) \/ RecordAdvance(p) \/ Report(p)
                 \/ \E t \in Tasks : FenceVerified(p, t)
          PROVE  pc'[r] # "reporting"
      BY <1>0, <1>2, <3>3 DEF BeginRead, Preflight, Acquire, Open, RecordAdvance, Report, FenceVerified
    <3>4. UNCHANGED local => pc'[r] # "reporting"
      BY <1>2 DEF local
    <3>5. \E p \in Procs : Finish(p)
      BY <3>1, <3>2, <3>3, <3>4, StepKinds
    <3> QED BY <1>0, <1>2, <3>5, FinishNotes
  <2> DEFINE rec == [kind |-> "finished", outcome |-> OutcomeOf(r)]
  <2>2. /\ Recorded(rec, Written(disk)) /\ disk' = Written(disk)
        /\ UNCHANGED <<bounds, queue, evid, fence, stop>>
    BY <1>0, <2>1 DEF Finish
  <2>3. OutcomeOf(r)' = OutcomeOf(r)
    BY <2>2 DEF OutcomeOf, InState
  <2>4. disk.tail = "ended" /\ Written(disk) = disk
    <3>1. disk \in Disks
      BY DEF RunInv, TypeOK, Disks
    <3>2. Ended(disk.tail) = "ended"
      BY <2>2, <3>1 DEF Written, Disks
    <3>3. disk.tail = "ended"
      BY <1>0, <3>2 DEF Ended, Tails
    <3> QED BY <3>1, <3>2, <3>3 DEF Written, Disks
  <2>5. led' = Apply(led, rec)
    BY <2>2, <2>4 DEF Recorded, ReadBack
  <2> QED BY <1>0, <2>3, <2>5 DEF Apply, ResumeStates
<1> QED BY <1>1, <1>2

\* completion.json announces a completion only when the journal can be read to hold
\* it or has a malformed line to show for what it lost: for any processes, any failed
\* and half-finished writes, and deaths anywhere.
THEOREM CompletionsAreBacked == Spec => CompletionIsBacked
<1>1. RunInv /\ ReportsAreRead /\ [Next]_vars
        => [Announces => led.outcome = "completed" \/ disk.tail # "ended"]_vars
  <2> SUFFICES ASSUME RunInv, ReportsAreRead, [Next]_vars, Announces, disk.tail = "ended"
               PROVE  led.outcome = "completed"
    OBVIOUS
  <2>1. PICK p \in Procs : Report(p)
    BY StepKinds DEF Announces, BeginRead, Preflight, Acquire, Open, FenceVerified, RecordAdvance,
                     Finish, Carries, shared
  <2>2. completion' = OutcomeOf(p) /\ pc[p] = "reporting"
    BY <2>1 DEF Report, Announces, At
  <2> QED BY <2>2 DEF ReportsAreRead, Announces
<1>2. Init => RunInv /\ ReportsAreRead
  BY RunInvInit DEF Init, ReportsAreRead
<1>3. RunInv /\ ReportsAreRead /\ [Next]_vars => RunInv' /\ ReportsAreRead'
  BY RunInvNext, ReportNext
<1> QED BY <1>1, <1>2, <1>3, PTL DEF Spec, CompletionIsBacked

\* No step of any process adds to the journal of a completed run.
LEMMA CompletedStays == RunInv /\ EndInv /\ [Next]_vars => (led.outcome = "completed" => led' = led)
<1> SUFFICES ASSUME RunInv, EndInv, [Next]_vars, led.outcome = "completed" PROVE led' = led
  OBVIOUS
<1>1. \A p \in Procs : pc[p] \notin {"read", "probed", "claimed"} \cup Running
  BY DEF EndInv
<1> QED BY <1>1, StepKinds
        DEF local, shared, BeginRead, Preflight, Acquire, Open, RecordAdvance, Finish, Report,
            FenceVerified, Carries, At, Running

\* What a completed run has recorded is never added to, by processes one after
\* another.
THEOREM CompletionIsForGood == OneAfterAnother => (Spec => CompletedIsFinal)
<1> SUFFICES ASSUME OneAfterAnother PROVE Spec => CompletedIsFinal
  OBVIOUS
<1>1. RunInv /\ EndInv /\ [Next]_vars => RunInv' /\ EndInv'
  BY RunInvNext, EndNext
<1> QED BY EndInit, <1>1, CompletedStays, PTL DEF Spec, CompletedIsFinal

\* Whatever the queue calls done is done in the journal, and so is what the task
\* in hand needs.
NeedsInv ==
    ~DiskFaults => \A p \in Procs :
        /\ pc[p] \in Running => Backed(queue[p])
        /\ pc[p] \in {"checked", "executing"} => Needs[cur[p].task] \subseteq led.succeeded

LEMMA NeedsNext == OneAfterAnother /\ RunInv /\ SoloInv /\ NeedsInv /\ [Next]_vars => NeedsInv'
<1> SUFFICES ASSUME OneAfterAnother, RunInv, SoloInv, NeedsInv, [Next]_vars, ~DiskFaults PROVE NeedsInv'
  BY DEF NeedsInv
<1> USE DEF Goto, At, Running
<1>0. /\ pc \in [Procs -> Locations] /\ queue \in [Procs -> Queues] /\ led \in ResumeStates
      /\ cur \in [Procs -> [task : Tasks \cup {0}, due : Results \cup {"none"}]]
      /\ \A p, r \in Procs : p = r
  BY DEF RunInv, TypeOK, OneAfterAnother
<1>1. CASE UNCHANGED <<led, completion, local>>
  BY <1>1 DEF local, NeedsInv, Backed
<1>2. ASSUME NEW p \in Procs, BeginRead(p) \/ Preflight(p) \/ Acquire(p) \/ Report(p) PROVE NeedsInv'
  BY <1>0, <1>2 DEF BeginRead, Preflight, Acquire, Report, NeedsInv
<1>3. ASSUME NEW p \in Procs, Open(p) PROVE NeedsInv'
  <2> DEFINE n == NewQueue(bounds[p])
  <2>1. seen[p].led = led /\ led' = led
    BY <1>3 DEF Open, SoloInv, SightIsFresh, shared
  <2>2. Restorable(led) /\ n \in Queues /\ \A t \in Tasks : n.state[t] # "succeeded"
    BY RunAssumption, NewQueueSound DEF RunInv, TypeOK, ResumeStates, Restorable, LedgerTasks, Sound
  <2> HIDE DEF n
  <2>3. \A t \in Tasks : Restore(n, led).state[t] = "succeeded" => t \in led.succeeded
    BY <2>2, RestoreSound
  <2>4. Opened(bounds[p], led) \in {n, Restore(n, led)}
    BY DEF Opened, n
  <2>5. Backed(queue[p])' /\ pc'[p] = "loop"
    BY <1>0, <1>3, <2>1, <2>2, <2>3, <2>4 DEF Open, Backed
  <2> QED BY <1>0, <2>5 DEF NeedsInv
<1>4. ASSUME NEW p \in Procs, NEW t \in Tasks, FenceVerified(p, t) PROVE NeedsInv'
  <2>1. cur'[p].task = t /\ queue' = queue /\ led' = led /\ pc[p] = "loop"
    BY <1>0, <1>4 DEF FenceVerified, Idle, shared
  <2>2. \A d \in Needs[t] : d \in Tasks /\ queue[p].state[d] = "succeeded"
    BY <1>4, PlanAssumption DEF FenceVerified, Offered, Ready
  <2>3. Needs[t] \subseteq led.succeeded /\ Backed(queue[p])
    BY <2>1, <2>2 DEF NeedsInv, Backed
  <2> QED BY <1>0, <2>1, <2>3 DEF NeedsInv, Backed
<1>5. ASSUME NEW p \in Procs, RecordAdvance(p) PROVE NeedsInv'
  BY <1>0, <1>5 DEF RecordAdvance, NeedsInv, Backed, shared
<1>6. ASSUME NEW p \in Procs, Finish(p) PROVE NeedsInv'
  BY <1>0, <1>6 DEF Finish, NeedsInv
<1>7. ASSUME NEW p \in Procs, Forget(p) PROVE NeedsInv'
  BY <1>0, <1>7 DEF Forget, NeedsInv
<1>8. ASSUME NEW p \in Procs, Carries(p) PROVE NeedsInv'
  BY <1>0, <1>8 DEF Carries, NeedsInv
<1> QED BY <1>1, <1>2, <1>3, <1>4, <1>5, <1>6, <1>7, <1>8, StepKinds

\* With processes one after another and a disk that keeps what is appended, a
\* task starts only when everything it needs is durably done, in whichever
\* process that was.
THEOREM StartsAreGrounded == (OneAfterAnother /\ ~DiskFaults) => (Spec => []StartsOnDurableNeeds)
<1> SUFFICES ASSUME OneAfterAnother, ~DiskFaults PROVE Spec => []StartsOnDurableNeeds
  OBVIOUS
<1>1. NeedsInv => StartsOnDurableNeeds
  BY DEF NeedsInv, StartsOnDurableNeeds
<1>2. Init => RunInv /\ SoloInv /\ NeedsInv
  BY RunInvInit, SoloInit DEF Init, NeedsInv, Running
<1>3. RunInv /\ SoloInv /\ NeedsInv /\ [Next]_vars => RunInv' /\ SoloInv' /\ NeedsInv'
  BY RunInvNext, SoloNext, NeedsNext
<1> QED BY <1>1, <1>2, <1>3, PTL DEF Spec

-----------------------------------------------------------------------------
(* What the journal is worth as evidence.  No commit made behind the back  *)
(* of a run becomes part of it.  For processes one after another and a     *)
(* disk that keeps what is appended, memory mirrors the journal between    *)
(* tasks, restarts buy one attempt each, and a recorded completion can be  *)
(* proved from the journal alone.                                          *)

-----------------------------------------------------------------------------
(* The fence never advances over a stray commit                             *)

\* The worktree is at the newest revision, and has one.
HeadIsTop == repo.head = Top /\ Top >= 1

\* A mutating stage of p has passed its fence check and will be followed by an
\* advance if it succeeds.  A task that overran its resumes is held, so its gate
\* record is followed by none.
Advancing(p) ==
    \/ pc[p] = "advance"
    \/ pc[p] \in {"checked", "executing"} /\ cur[p].task \in Mutates
    \/ pc[p] = "gate" /\ cur[p].task \in Mutates /\ queue[p].state[cur[p].task] = "succeeded"

\* No revision past the fence was made astray.
CleanSince(h) == \A r \in h + 1 .. Top : revs[r] # "stray"

StrayInv == \A p \in Procs : Advancing(p) => CleanSince(fence[p].head)

\* The worktree moves only by commits on top of it.
LEMMA HeadNext == RunInv /\ HeadIsTop /\ [Next]_vars => HeadIsTop' /\ Top' >= Top
<1> SUFFICES ASSUME RunInv, HeadIsTop, [Next]_vars PROVE HeadIsTop' /\ Top' >= Top
  OBVIOUS
<1>1. revs \in Seq(Origins) /\ repo \in Repos
  BY DEF RunInv, TypeOK
<1>2. ASSUME NEW x, revs' = revs \o <<x>>, repo' = [repo EXCEPT !.head = Top + 1]
      PROVE  HeadIsTop' /\ Top' >= Top
  BY <1>1, <1>2 DEF HeadIsTop, Top, Repos
<1>3. ASSUME UNCHANGED <<repo, revs>> PROVE HeadIsTop' /\ Top' >= Top
  BY <1>1, <1>3 DEF HeadIsTop, Top
<1>4. CASE Outsider
  <2>1. ASSUME revs' = revs, repo'.head = repo.head PROVE HeadIsTop' /\ Top' >= Top
    BY <1>1, <2>1 DEF HeadIsTop, Top
  <2> QED BY <1>1, <1>2, <1>3, <1>4, <2>1 DEF Outsider, Repos
<1>5. ASSUME NEW p \in Procs, StageCommits(p) PROVE HeadIsTop' /\ Top' >= Top
  BY <1>2, <1>5 DEF StageCommits
<1>6. ASSUME NEW p \in Procs,
             \/ BeginRead(p) \/ Work(p) \/ Cancel(p) \/ Die(p) \/ DieWriting(p)
      PROVE  UNCHANGED <<repo, revs>>
  BY <1>6 DEF BeginRead, Work, Cancel, Die, DieWriting, Preflight, Refuse, Acquire, Open, OpenFails, Release,
              Drained, StartTask, Conclude, Succeed, Resume, StopOnHumanBoundary, Fail, Settle, Overrun,
              RecordGate, FenceViolated, FenceVerified, RecordAdvance, Finish, Report, Close, shared
<1>7. UNCHANGED vars => UNCHANGED <<repo, revs>>
  BY DEF vars, shared
<1> QED BY <1>3, <1>4, <1>5, <1>6, <1>7 DEF Next

\* Nothing of a process changes but where the worktree is.
LEMMA StrayCommit ==
    ASSUME RunInv, HeadIsTop, StrayInv, UNCHANGED local, NEW x,
           revs' = revs \o <<x>>, x = "stray" => ~StageUnderWay
    PROVE  StrayInv'
<1> SUFFICES ASSUME NEW p \in Procs, Advancing(p), NEW r \in fence[p].head + 1 .. Top', x # "stray"
             PROVE  revs'[r] # "stray"
  <2>1. ASSUME NEW p \in Procs, Advancing(p)' PROVE Advancing(p) /\ x # "stray" /\ fence'[p] = fence[p]
    BY <2>1 DEF Advancing, StageUnderWay, local
  <2> QED BY <2>1 DEF StrayInv, CleanSince
<1>1. revs \in Seq(Origins) /\ fence[p].head \in Nat
  BY DEF RunInv, TypeOK
<1>2. Top = Len(revs) /\ Top' = Len(revs) + 1 /\ Len(revs) \in Nat
  BY <1>1 DEF Top
<1>3. CASE r = Top'
  BY <1>1, <1>2, <1>3
<1>4. CASE r # Top'
  <2>1. r \in fence[p].head + 1 .. Top /\ r \in 1 .. Len(revs)
    BY <1>1, <1>2, <1>4
  <2>2. revs'[r] = revs[r]
    BY <1>1, <2>1
  <2> QED BY <2>1, <2>2 DEF StrayInv, CleanSince
<1> QED BY <1>3, <1>4

\* A mutating stage that passes its fence check starts where the fence is.
LEMMA StrayNext == RunInv /\ HeadIsTop /\ StrayInv /\ [Next]_vars => StrayInv'
<1> SUFFICES ASSUME RunInv, HeadIsTop, StrayInv, [Next]_vars PROVE StrayInv'
  OBVIOUS
<1> USE DEF Goto, At
<1>0. /\ pc \in [Procs -> Locations] /\ queue \in [Procs -> Queues]
      /\ fence \in [Procs -> [run : Procs \cup {Nobody}, branch : Branches, head : Nat]]
      /\ cur \in [Procs -> [task : Tasks \cup {0}, due : Results \cup {"none"}]]
      /\ repo \in Repos
  BY DEF RunInv, TypeOK
<1>1. ASSUME UNCHANGED <<local, revs>> PROVE StrayInv'
  BY <1>1 DEF local, StrayInv, Advancing, CleanSince, Top
<1>2. ASSUME NEW p \in Procs, UNCHANGED revs,
             \A o \in Procs \ {p} : pc'[o] = pc[o] /\ cur'[o] = cur[o] /\ queue'[o] = queue[o]
                                    /\ fence'[o] = fence[o],
             Advancing(p)' => (Advancing(p) /\ fence'[p] = fence[p]) \/ CleanSince(fence'[p].head)
      PROVE  StrayInv'
  BY <1>2 DEF StrayInv, Advancing, CleanSince, Top
<1>3. ASSUME NEW p \in Procs,
             \/ BeginRead(p) \/ Preflight(p) \/ Acquire(p) \/ Open(p) \/ Cancel(p) \/ Drained(p)
             \/ Finish(p) \/ Report(p) \/ RecordAdvance(p) \/ \E t \in Tasks : FenceViolated(p, t)
      PROVE  StrayInv'
  BY <1>0, <1>2, <1>3
     DEF BeginRead, Preflight, Acquire, Open, Cancel, Drained, Finish, Report, RecordAdvance,
         FenceViolated, shared, Advancing
<1>4. ASSUME NEW p \in Procs, Refuse(p) \/ OpenFails(p) \/ Close(p) \/ Die(p) \/ DieWriting(p) PROVE StrayInv'
  BY <1>0, <1>2, <1>4 DEF Refuse, OpenFails, Close, Die, DieWriting, Release, Forget, Advancing
<1>5. ASSUME NEW p \in Procs, NEW t \in Tasks, FenceVerified(p, t) PROVE StrayInv'
  <2>1. cur'[p].task = t /\ pc'[p] = "checked" /\ UNCHANGED <<fence, revs, queue>>
    BY <1>0, <1>5 DEF FenceVerified, Idle, shared
  <2>2. t \in Mutates => repo.head = fence[p].head
    BY <1>0, <1>5 DEF FenceVerified, FenceHolds, Check, Repos
  <2>3. t \in Mutates => CleanSince(fence[p].head)
    BY <1>0, <2>2 DEF HeadIsTop, CleanSince
  <2> QED BY <1>0, <1>2, <1>5, <2>1, <2>3 DEF FenceVerified, Advancing
<1>6. ASSUME NEW p \in Procs, StartTask(p) PROVE StrayInv'
  BY <1>0, <1>2, <1>6 DEF StartTask, Advancing
<1>7. ASSUME NEW p \in Procs, RecordGate(p) PROVE StrayInv'
  <2> DEFINE l == Onward(cur[p].task, queue[p], stop[p])
  <2>1. /\ l \in {"advance", "finishing", "loop"}
        /\ l = "advance" => queue[p].state[cur[p].task] = "succeeded" /\ cur[p].task \in Mutates
    BY DEF Onward
  <2>2. pc' = [pc EXCEPT ![p] = l] /\ pc[p] = "gate" /\ UNCHANGED <<fence, revs, queue>>
        /\ cur' = [cur EXCEPT ![p] = Idle]
    BY <1>7 DEF RecordGate
  <2> HIDE DEF l
  <2> QED BY <1>0, <1>2, <2>1, <2>2 DEF Advancing
<1>8. ASSUME NEW p \in Procs, Conclude(p) \/ Overrun(p) PROVE StrayInv'
  <2>1. cur[p].task \in Tasks /\ queue[p] \in Queues
    BY <1>0, <1>8 DEF Conclude, Overrun, RunInv, InHand
  <2>2. ASSUME NEW k, NEW q, Settle(p, k, q)
        PROVE  queue' = [queue EXCEPT ![p] = q] /\ UNCHANGED <<fence, revs>>
    BY <2>2 DEF Settle
  <2>3. ASSUME NEW k, NEW result, NEW q, NEW why, Settle(p, k, q), NoteGate(p, result, q, why),
               q.state[cur[p].task] # "succeeded" \/ pc[p] = "executing"
        PROVE  StrayInv'
    <3> DEFINE l == Onward(cur[p].task, q, why)
    <3>1. /\ l \in {"advance", "finishing", "loop"}
          /\ l = "advance" => q.state[cur[p].task] = "succeeded" /\ cur[p].task \in Mutates
      BY DEF Onward
    <3>2. \/ pc' = [pc EXCEPT ![p] = l] /\ cur' = [cur EXCEPT ![p] = Idle]
          \/ pc' = [pc EXCEPT ![p] = "gate"] /\ cur' = [cur EXCEPT ![p].due = result]
      BY <2>3 DEF NoteGate
    <3> HIDE DEF l
    <3>3. /\ \A o \in Procs \ {p} : cur'[o] = cur[o]
          /\ \/ pc' = [pc EXCEPT ![p] = l]
             \/ pc' = [pc EXCEPT ![p] = "gate"] /\ cur'[p].task = cur[p].task
      <4>1. CASE pc' = [pc EXCEPT ![p] = l] /\ cur' = [cur EXCEPT ![p] = Idle]
        BY <1>0, <4>1
      <4>2. CASE pc' = [pc EXCEPT ![p] = "gate"] /\ cur' = [cur EXCEPT ![p].due = result]
        BY <1>0, <4>2
      <4> QED BY <3>2, <4>1, <4>2
    <3>4. queue' = [queue EXCEPT ![p] = q] /\ UNCHANGED <<fence, revs>>
      BY <2>2, <2>3
    <3>5. Advancing(p)' => Advancing(p) /\ fence'[p] = fence[p]
      BY <1>0, <2>3, <3>1, <3>3, <3>4 DEF Advancing
    <3> QED BY <1>0, <1>2, <3>3, <3>4, <3>5
  <2>4. CASE Overrun(p)
    <3>1. Hold(queue[p], cur[p].task).state[cur[p].task] = "held"
      BY <2>1, QueueSteps
    <3> QED BY <2>3, <2>4, <3>1 DEF Overrun
  <2>5. CASE Conclude(p)
    <3>1. PICK o \in Outcomes[(cur[p].task \in Supervised)] :
             \/ Succeed(p, o.verdict) \/ Resume(p, o.verdict)
             \/ StopOnHumanBoundary(p, o.verdict) \/ Fail(p, o.verdict)
      BY <2>5 DEF Conclude
    <3>2. pc[p] = "executing"
      BY <2>5 DEF Conclude
    <3>3. CASE Resume(p, o.verdict)
      <4>1. Settle(p, "resumed", RecordResume(queue[p], cur[p].task))
            /\ (pc' = [pc EXCEPT ![p] = "loop"] \/ pc' = [pc EXCEPT ![p] = "overrun"])
            /\ (cur' = cur \/ cur' = [cur EXCEPT ![p] = Idle])
        BY <3>3 DEF Resume
      <4> QED BY <1>0, <1>2, <2>2, <4>1 DEF Advancing
    <3>4. CASE Succeed(p, o.verdict)
      BY <2>3, <3>2, <3>4 DEF Succeed
    <3>5. CASE StopOnHumanBoundary(p, o.verdict)
      BY <2>3, <3>2, <3>5 DEF StopOnHumanBoundary
    <3>6. CASE Fail(p, o.verdict)
      BY <2>3, <3>2, <3>6 DEF Fail
    <3> QED BY <3>1, <3>3, <3>4, <3>5, <3>6
  <2> QED BY <1>8, <2>4, <2>5
<1>9. ASSUME NEW p \in Procs, StageCommits(p) PROVE StrayInv'
  BY <1>9, StrayCommit DEF StageCommits
<1>10. CASE Outsider
  <2>1. UNCHANGED local
    BY <1>10 DEF Outsider, local
  <2>2. CASE revs' = revs
    BY <1>1, <2>1, <2>2
  <2>3. CASE revs' # revs
    <3>1. revs' = revs \o <<IF StageUnderWay THEN "inside" ELSE "stray">>
      BY <1>10, <2>3 DEF Outsider
    <3> QED BY <2>1, <3>1, StrayCommit
  <2> QED BY <2>2, <2>3
<1>11. UNCHANGED vars => UNCHANGED <<local, revs>>
  BY DEF vars, shared
<1> QED BY <1>1, <1>3, <1>4, <1>5, <1>6, <1>7, <1>8, <1>9, <1>10, <1>11 DEF Next, Work

\* A step from "advance" takes the fence to the head of the worktree, leaves it or
\* forgets it.
LEMMA StrayStep == RunInv /\ HeadIsTop /\ StrayInv /\ [Next]_vars => NoStrayAbsorbed
<1> SUFFICES ASSUME RunInv, HeadIsTop, StrayInv, [Next]_vars, NEW p \in Procs, pc[p] = "advance",
                    NEW r \in fence[p].head + 1 .. fence'[p].head
             PROVE  revs[r] # "stray"
  BY DEF NoStrayAbsorbed, Absorbed
<1> USE DEF Goto, At
<1>0. /\ fence \in [Procs -> [run : Procs \cup {Nobody}, branch : Branches, head : Nat]]
      /\ fence[p].head \in Nat /\ repo \in Repos
  BY DEF RunInv, TypeOK
<1>1. fence'[p] \in {fence[p], Advance(fence[p], owner, repo), Blank.fence}
  <2>1. CASE UNCHANGED <<led, completion, local>>
    BY <2>1 DEF local
  <2>2. ASSUME NEW o \in Procs, BeginRead(o) \/ Preflight(o) \/ Acquire(o) \/ Finish(o) \/ Report(o)
                                \/ \E t \in Tasks : FenceVerified(o, t)
        PROVE  fence' = fence
    BY <2>2 DEF BeginRead, Preflight, Acquire, Finish, Report, FenceVerified
  <2>3. ASSUME NEW o \in Procs, Open(o) \/ RecordAdvance(o) \/ Forget(o) \/ Carries(o)
        PROVE  fence'[p] \in {fence[p], Advance(fence[p], owner, repo), Blank.fence}
    BY <1>0, <2>3 DEF Open, RecordAdvance, Forget, Carries
  <2> QED BY <2>1, <2>2, <2>3, StepKinds
<1>2. Blank.fence.head = 0
  BY DEF Blank, TakeFence, NoSight
<1>3. Advance(fence[p], owner, repo).head \in {fence[p].head, Top}
  BY <1>0 DEF Advance, HeadIsTop
<1>4. CleanSince(fence[p].head)
  BY DEF StrayInv, Advancing
<1> QED BY <1>0, <1>1, <1>2, <1>3, <1>4 DEF CleanSince

\* Whatever outsiders, several processes of the run and a failing disk do, the
\* fence never advances over a commit made while no mutating stage was under way.
THEOREM StraysStayOut == Spec => StrayNeverAbsorbed
<1>1. Init => RunInv /\ HeadIsTop /\ StrayInv
  BY RunInvInit DEF Init, HeadIsTop, Top, StrayInv, Advancing
<1>2. RunInv /\ HeadIsTop /\ StrayInv /\ [Next]_vars => RunInv' /\ HeadIsTop' /\ StrayInv'
  BY RunInvNext, HeadNext, StrayNext
<1> QED BY <1>1, <1>2, StrayStep, PTL DEF Spec, StrayNeverAbsorbed

-----------------------------------------------------------------------------
(* How an attempt concludes                                                 *)

\* What the records say to the attempts and to the evidence.
LEMMA ApplyCounts ==
    ASSUME NEW st \in ResumeStates, NEW r \in Records
    PROVE  /\ r.kind = "started" => Apply(st, r).attempts = [st.attempts EXCEPT ![r.task] = @ + 1]
           /\ r.kind = "resumed" =>
                 Apply(st, r).attempts = [st.attempts EXCEPT ![r.task] = AttemptsAfterResume(@)]
           /\ r.kind \notin {"started", "resumed"} => Apply(st, r).attempts = st.attempts
           /\ r.kind = "gate" => Apply(st, r).gates = [st.gates EXCEPT ![r.gate] = MergeEvidence(@, r.ev)]
           /\ r.kind # "gate" => Apply(st, r).gates = st.gates
<1>1. r.kind \in {"started", "succeeded", "resumed", "failed", "held", "gate", "finished"}
  BY DEF Records
<1>2. CASE r.kind = "started" BY <1>2 DEF Apply, ResumeStates
<1>3. CASE r.kind = "succeeded" BY <1>3 DEF Apply, ResumeStates
<1>4. CASE r.kind = "resumed" BY <1>4 DEF Apply, ResumeStates
<1>5. CASE r.kind \in {"failed", "held"} BY <1>5 DEF Apply, ResumeStates
<1>6. CASE r.kind = "gate" BY <1>6 DEF Apply, ResumeStates
<1>7. CASE r.kind = "finished" BY <1>7 DEF Apply, ResumeStates
<1> QED BY <1>1, <1>2, <1>3, <1>4, <1>5, <1>6, <1>7

\* The queue z that record k about task t goes with, in place of q.
Moves(q, t, k, z) ==
    \/ k = "succeeded" /\ z = RecordSuccess(q, t)
    \/ k = "resumed" /\ z = RecordResume(q, t)
    \/ k = "held" /\ z = Hold(q, t)
    \/ k = "failed" /\ \E c : z = RecordFailure(q, t, c)

\* The other tasks keep their attempts, and t is still pending only after a resume
\* or after a failure that its own budget, if it has one, outlasts.
LEMMA MovesCount ==
    ASSUME NEW q, Sound(q), NEW t \in Tasks, NEW k, NEW z, Moves(q, t, k, z)
    PROVE  /\ Sound(z) /\ Follows(q, z, t)
           /\ \A u \in Tasks \ {t} : z.attempts[u] = q.attempts[u]
           /\ z.state[t] = "pending" =>
                 \/ /\ k = "resumed"
                    /\ z.attempts[t] = q.attempts[t]
                    /\ z.resumes[t] = q.resumes[t] + 1
                 \/ /\ k = "failed"
                    /\ z.attempts[t] = q.attempts[t] + 1
                    /\ z.resumes[t] = q.resumes[t]
                    /\ MaxAttempts[t] > 0 => z.attempts[t] < MaxAttempts[t]
<1> DEFINE a == [q EXCEPT !.attempts[t] = @ + 1]
<1>1. q \in Queues /\ NoneStranded(q.state)
  BY DEF Sound
<1>2. /\ a \in Queues /\ a.state = q.state /\ a.resumes = q.resumes
      /\ a.attempts[t] = q.attempts[t] + 1 /\ \A u \in Tasks \ {t} : a.attempts[u] = q.attempts[u]
  BY <1>1 DEF Queues
<1> HIDE DEF a
<1>3. ASSUME NEW b \in Queues, NEW s \in TaskStates \ {"pending"}
      PROVE  /\ Sound(SetState(b, t, s)) /\ SetState(b, t, s).state[t] = s
             /\ SetState(b, t, s).attempts = b.attempts
  BY SetStateSound
<1>4. \A c : /\ Follows(q, RecordSuccess(q, t), t) /\ Follows(q, Hold(q, t), t)
             /\ Follows(q, RecordFailure(q, t, c), t) /\ Follows(q, RecordResume(q, t), t)
  BY <1>1, QueueSteps
<1>5. CASE k = "succeeded" /\ z = RecordSuccess(q, t)
  <2>1. z = SetState(a, t, "succeeded") /\ "succeeded" \in TaskStates \ {"pending"}
    BY <1>5 DEF RecordSuccess, TaskStates, a
  <2> QED BY <1>2, <1>3, <1>4, <1>5, <2>1
<1>6. CASE k = "resumed" /\ z = RecordResume(q, t)
  <2>1. /\ z \in Queues /\ z.state = q.state /\ z.attempts = q.attempts
        /\ z.resumes[t] = q.resumes[t] + 1
    BY <1>1, <1>6 DEF RecordResume, Queues
  <2> QED BY <1>1, <1>4, <1>6, <2>1 DEF Sound
<1>7. CASE k = "held" /\ z = Hold(q, t)
  BY <1>1, <1>3, <1>4, <1>7 DEF Hold, TaskStates
<1>8. ASSUME k = "failed", NEW c, z = RecordFailure(q, t, c)
      PROVE  /\ Sound(z) /\ Follows(q, z, t)
             /\ \A u \in Tasks \ {t} : z.attempts[u] = q.attempts[u]
             /\ z.state[t] = "pending" =>
                   /\ z.attempts[t] = q.attempts[t] + 1
                   /\ z.resumes[t] = q.resumes[t]
                   /\ MaxAttempts[t] > 0 => z.attempts[t] < MaxAttempts[t]
  <2>1. z = IF a.attempts[t] >= Budget(t, c) THEN SetState(a, t, "failed") ELSE a
    BY <1>8 DEF RecordFailure, a
  <2>2. Follows(q, z, t)
    BY <1>4, <1>8
  <2>3. CASE z = SetState(a, t, "failed")
    BY <1>2, <1>3, <2>2, <2>3 DEF TaskStates
  <2>4. CASE z = a /\ ~(a.attempts[t] >= Budget(t, c))
    <3>1. MaxAttempts[t] > 0 => ~(a.attempts[t] >= MaxAttempts[t])
      BY <2>4 DEF Budget
    <3>2. a.attempts[t] \in Nat /\ MaxAttempts[t] \in Nat
      BY <1>2, PlanAssumption DEF Queues
    <3>3. Sound(a)
      BY <1>1, <1>2 DEF Sound
    <3> QED BY <1>2, <2>2, <2>4, <3>1, <3>2, <3>3
  <2> QED BY <2>1, <2>3, <2>4
<1> QED BY <1>5, <1>6, <1>7, <1>8 DEF Moves

\* Process p settles the task in hand with record k and queue z, and goes on: to
\* record a verdict, to end a run that something stopped, or to the next task.
Settles(p, k, z) ==
    /\ Settle(p, k, z)
    /\ Moves(queue[p], cur[p].task, k, z)
    /\ pc[p] \in {"executing", "overrun"}
    /\ k # "held" => pc[p] = "executing"
    /\ pc'[p] \in {"loop", "gate", "advance", "finishing", "overrun"}
    /\ pc'[p] = "finishing" => stop'[p] # "none"
    /\ pc'[p] # "gate" => evid'[p] = evid[p]
    /\ pc'[p] = "gate" =>
          /\ cur'[p].task = cur[p].task
          /\ evid'[p] = [evid[p] EXCEPT ![QAGate[cur[p].task]] = MergeEvidence(@, Observed(p, cur'[p].due))]

\* Where the gate's evidence and the process go after a record that is not a resume.
LEMMA NoteGateSettles ==
    ASSUME RunInv, NEW p \in Procs, NEW result, NEW z, NEW why, NoteGate(p, result, z, why),
           why = "none" \/ stop'[p] = why
    PROVE  /\ pc'[p] \in {"loop", "gate", "advance", "finishing"}
           /\ pc'[p] = "finishing" => stop'[p] # "none"
           /\ pc'[p] # "gate" => evid'[p] = evid[p]
           /\ pc'[p] = "gate" =>
                 /\ cur'[p].task = cur[p].task
                 /\ evid'[p] = [evid[p] EXCEPT ![QAGate[cur[p].task]] = MergeEvidence(@, Observed(p, cur'[p].due))]
<1> USE DEF Goto
<1>0. /\ pc \in [Procs -> Locations] /\ evid \in [Procs -> Ledgers]
      /\ cur \in [Procs -> [task : Tasks \cup {0}, due : Results \cup {"none"}]]
  BY DEF RunInv, TypeOK
<1> DEFINE l == Onward(cur[p].task, z, why)
           g == QAGate[cur[p].task]
<1>1. l \in {"advance", "finishing", "loop"} /\ (l = "finishing" => why # "none")
  BY DEF Onward
<1>2. CASE g = NoGate \/ result = "none"
  <2>1. pc' = [pc EXCEPT ![p] = l] /\ evid' = evid
    BY <1>2 DEF NoteGate
  <2> HIDE DEF l, g
  <2> QED BY <1>0, <1>1, <2>1
<1>3. CASE ~(g = NoGate \/ result = "none")
  <2>1. /\ pc' = [pc EXCEPT ![p] = "gate"] /\ cur' = [cur EXCEPT ![p].due = result]
        /\ evid' = [evid EXCEPT ![p] = [evid[p] EXCEPT ![g] = MergeEvidence(@, Observed(p, result))]]
    BY <1>3 DEF NoteGate
  <2> HIDE DEF g, l
  <2>2. pc'[p] = "gate" /\ cur'[p].task = cur[p].task /\ cur'[p].due = result
    BY <1>0, <2>1
  <2>3. evid'[p] = [evid[p] EXCEPT ![g] = MergeEvidence(@, Observed(p, cur'[p].due))]
    BY <1>0, <2>1, <2>2
  <2> QED BY <2>2, <2>3 DEF g
<1> QED BY <1>2, <1>3

\* Every way an attempt concludes settles its task.
LEMMA ConcludeSettles ==
    ASSUME RunInv, NEW p \in Procs, Conclude(p) \/ Overrun(p)
    PROVE  cur[p].task \in Tasks /\ \E k \in {"succeeded", "resumed", "failed", "held"} : \E z : Settles(p, k, z)
<1> USE DEF At
<1> DEFINE t == cur[p].task
<1>1. pc[p] \in {"executing", "overrun"} /\ t \in Tasks
  BY DEF Conclude, Overrun, RunInv, InHand
<1>2. stop \in [Procs -> Stops] /\ pc \in [Procs -> Locations]
  BY DEF RunInv, TypeOK
<1>3. CASE Overrun(p)
  <2>1. Settle(p, "held", Hold(queue[p], t)) /\ NoteGate(p, "error", Hold(queue[p], t), stop[p])
        /\ stop'[p] = stop[p]
    BY <1>3 DEF Overrun
  <2>2. Settles(p, "held", Hold(queue[p], t))
    BY <1>1, <2>1, NoteGateSettles DEF Settles, Moves
  <2> QED BY <1>1, <2>2
<1>4. CASE Conclude(p)
  <2>1. PICK o \in Outcomes[(cur[p].task \in Supervised)] :
           \/ Succeed(p, o.verdict) \/ Resume(p, o.verdict)
           \/ StopOnHumanBoundary(p, o.verdict) \/ Fail(p, o.verdict)
    BY <1>4 DEF Conclude
  <2>2. pc[p] = "executing"
    BY <1>4 DEF Conclude
  <2> DEFINE v == o.verdict
  <2> HIDE DEF v
  <2>3. CASE Succeed(p, v)
    <3>1. Settle(p, "succeeded", RecordSuccess(queue[p], t)) /\ stop'[p] = stop[p]
          /\ NoteGate(p, v.gate, RecordSuccess(queue[p], t), stop[p])
      BY <2>3 DEF Succeed
    <3>2. Settles(p, "succeeded", RecordSuccess(queue[p], t))
      BY <1>1, <2>2, <3>1, NoteGateSettles DEF Settles, Moves
    <3> QED BY <1>1, <3>2
  <2>4. CASE Resume(p, v)
    <3>1. Settle(p, "resumed", RecordResume(queue[p], t)) /\ evid' = evid
          /\ pc'[p] \in {"loop", "overrun"}
      BY <1>2, <2>4 DEF Resume, Goto
    <3>2. Settles(p, "resumed", RecordResume(queue[p], t))
      BY <1>1, <2>2, <3>1 DEF Settles, Moves
    <3> QED BY <1>1, <3>2
  <2>5. CASE StopOnHumanBoundary(p, v)
    <3> DEFINE why == IF v.class = "auth" THEN "auth" ELSE "human"
    <3>1. Settle(p, "held", Hold(queue[p], t)) /\ stop' = [stop EXCEPT ![p] = why]
          /\ NoteGate(p, v.gate, Hold(queue[p], t), why)
      BY <2>5 DEF StopOnHumanBoundary, Halt
    <3>2. stop'[p] = why
      BY <1>2, <3>1
    <3> HIDE DEF why
    <3>3. Settles(p, "held", Hold(queue[p], t))
      BY <1>1, <3>1, <3>2, NoteGateSettles DEF Settles, Moves
    <3> QED BY <1>1, <3>3
  <2>6. CASE Fail(p, v)
    <3> DEFINE z == RecordFailure(queue[p], t, v.class)
               why == IF PolicyFor(v.class).stopsRun THEN "class" ELSE "none"
               result == IF z.state[t] = "failed" THEN v.gate ELSE "none"
    <3>1. Settle(p, "failed", z) /\ stop' = [stop EXCEPT ![p] = why] /\ NoteGate(p, result, z, why)
      BY <2>6 DEF Fail, Halt
    <3>2. stop'[p] = why /\ Moves(queue[p], t, "failed", z)
      BY <1>2, <3>1 DEF Moves
    <3> HIDE DEF why, result, z
    <3>3. Settles(p, "failed", z)
      BY <1>1, <2>2, <3>1, <3>2, NoteGateSettles DEF Settles
    <3> QED BY <1>1, <3>3
  <2> QED BY <2>1, <2>3, <2>4, <2>5, <2>6 DEF v
<1> QED BY <1>3, <1>4

\* What the record a settling step writes does to the journal's counts and evidence.
LEMMA SettlesLedger ==
    ASSUME RunInv, ~DiskFaults, NEW p \in Procs, NEW k \in {"succeeded", "resumed", "failed", "held"},
           NEW z, Settles(p, k, z), cur[p].task \in Tasks
    PROVE  LET t == cur[p].task
           IN  /\ led'.gates = led.gates
               /\ led'.attempted = led.attempted
               /\ k = "resumed" =>
                     /\ led'.resumes = [led.resumes EXCEPT ![t] = @ + 1]
                     /\ led'.attempts = [led.attempts EXCEPT ![t] = AttemptsAfterResume(@)]
               /\ k # "resumed" => led'.resumes = led.resumes /\ led'.attempts = led.attempts
               /\ queue'[p] = z
               /\ UNCHANGED <<repo, revs, seen, bounds, fence, verdicts, begins>>
<1> DEFINE r == [kind |-> k, task |-> cur[p].task]
<1>1. r \in Records /\ r.kind = k /\ r.task = cur[p].task
  BY RecordsWritten
<1>2. led \in ResumeStates /\ queue \in [Procs -> Queues]
  BY DEF RunInv, TypeOK
<1>3. led' = Apply(led, r) /\ queue' = [queue EXCEPT ![p] = z]
      /\ UNCHANGED <<repo, revs, seen, bounds, fence, verdicts, begins>>
  BY SettleNotes DEF Settles, Noted
<1> HIDE DEF r
<1>4. /\ led'.gates = led.gates
      /\ k = "resumed" => led'.attempts = [led.attempts EXCEPT ![r.task] = AttemptsAfterResume(@)]
      /\ k # "resumed" => led'.attempts = led.attempts
  <2>1. r.kind # "gate" /\ r.kind # "started"
    BY <1>1
  <2> QED BY <1>1, <1>2, <1>3, <2>1, ApplyCounts
<1>5. /\ led'.attempted = led.attempted
      /\ k = "resumed" => led'.resumes = [led.resumes EXCEPT ![r.task] = @ + 1]
      /\ k # "resumed" => led'.resumes = led.resumes
  <2>1. r.kind # "started"
    BY <1>1
  <2> QED BY <1>1, <1>2, <1>3, <2>1, ApplyKeeps
<1>6. queue'[p] = z
  BY <1>2, <1>3
<1> QED BY <1>1, <1>3, <1>4, <1>5, <1>6

-----------------------------------------------------------------------------
(* Memory mirrors the journal                                               *)

\* The journal counts one attempt more than the queue while the task executes.
UnderWay(p, t) == IF pc[p] = "executing" /\ t = cur[p].task THEN 1 ELSE 0

\* A pending task of the queue was pending when the queue was made, and the queue
\* counts what the journal counts of it.
CountsMirrored ==
    /\ \A p \in Procs : pc[p] \in Running =>
          /\ Sound(queue[p])
          /\ \A t \in Tasks : queue[p].state[t] = "pending" =>
                /\ NewQueue(bounds[p]).state[t] = "pending"
                /\ led.resumes[t] = queue[p].resumes[t]
                /\ led.attempts[t] = queue[p].attempts[t] + UnderWay(p, t)
    /\ \A t \in Tasks : t \notin led.attempted => led.attempts[t] = 0

\* What is true of the queue of the only process and of the journal is true of all.
LEMMA CountsAre ==
    ASSUME OneAfterAnother, NEW p \in Procs,
           pc'[p] \in Running =>
              /\ Sound(queue'[p])
              /\ \A t \in Tasks : queue'[p].state[t] = "pending" =>
                    /\ NewQueue(bounds'[p]).state[t] = "pending"
                    /\ led'.resumes[t] = queue'[p].resumes[t]
                    /\ led'.attempts[t] = queue'[p].attempts[t] + UnderWay(p, t)',
           \A t \in Tasks : t \notin led'.attempted => led'.attempts[t] = 0
    PROVE  CountsMirrored'
  BY DEF OneAfterAnother, CountsMirrored, Running

\* The records of a verdict and of an outcome leave the counts alone.
LEMMA CountsKept ==
    ASSUME RunInv, ~DiskFaults, NEW p \in Procs, RecordGate(p) \/ Finish(p)
    PROVE  led'.attempts = led.attempts /\ led'.resumes = led.resumes /\ led'.attempted = led.attempted
<1>1. led \in ResumeStates
  BY DEF RunInv, TypeOK
<1>2. PICK r \in Records : r.kind \in {"gate", "finished"} /\ led' = Apply(led, r)
  <2>1. CASE RecordGate(p)
    <3>1. [kind |-> "gate", gate |-> QAGate[cur[p].task], ev |-> Observed(p, cur[p].due)] \in Records
      BY <2>1, RecordsWritten DEF RecordGate, At, RunInv, InHand, TypeOK, Observed, Evidence
    <3> QED BY LogNotes, <2>1, <3>1 DEF RecordGate, Noted
  <2>2. CASE Finish(p)
    <3>1. OutcomeOf(p) \in RunOutcomes
      BY DEF OutcomeOf, RunOutcomes, RunInv, TypeOK, Stops
    <3>2. [kind |-> "finished", outcome |-> OutcomeOf(p)] \in Records
      BY <3>1, RecordsWritten
    <3> QED BY FinishNotes, <2>2, <3>2 DEF Noted
  <2> QED BY <2>1, <2>2
<1>3. r.kind \notin {"started", "resumed"} /\ r.kind # "started" /\ r.kind # "resumed"
  BY <1>2
<1> QED BY <1>1, <1>2, <1>3, ApplyCounts, ApplyKeeps

\* The counts of every pending task stay what the journal says they are.
LEMMA CountsNext ==
    OneAfterAnother /\ ~DiskFaults /\ RunInv /\ SoloInv /\ CountsMirrored /\ [Next]_vars => CountsMirrored'
<1> SUFFICES ASSUME OneAfterAnother, ~DiskFaults, RunInv, SoloInv, CountsMirrored, [Next]_vars
             PROVE  CountsMirrored'
  OBVIOUS
<1> USE DEF Goto, At
<1>0. /\ pc \in [Procs -> Locations] /\ queue \in [Procs -> Queues] /\ led \in ResumeStates
      /\ cur \in [Procs -> [task : Tasks \cup {0}, due : Results \cup {"none"}]]
      /\ \A t \in Tasks : t \notin led.attempted => led.attempts[t] = 0
  BY DEF RunInv, TypeOK, CountsMirrored
<1>1. ASSUME UNCHANGED <<led, local>> PROVE CountsMirrored'
  BY <1>1 DEF local, CountsMirrored, UnderWay, Running
<1>2. ASSUME NEW p \in Procs,
             BeginRead(p) \/ Preflight(p) \/ Acquire(p) \/ Report(p)
      PROVE  CountsMirrored'
  <2>1. led' = led /\ pc'[p] \notin Running
    BY <1>0, <1>2 DEF BeginRead, Preflight, Acquire, Report, shared, Running
  <2> QED BY <1>0, <2>1, CountsAre
<1>3. ASSUME NEW p \in Procs, Refuse(p) \/ OpenFails(p) \/ Close(p) \/ Die(p) \/ DieWriting(p) PROVE CountsMirrored'
  <2>1. led' = led /\ pc'[p] \notin Running
    BY <1>0, <1>3 DEF Refuse, OpenFails, Close, Die, DieWriting, Release, Forget, Running
  <2> QED BY <1>0, <2>1, CountsAre
<1>4. ASSUME NEW p \in Procs, Open(p) PROVE CountsMirrored'
  <2> DEFINE n == NewQueue(bounds[p])
             r == Opened(bounds[p], led)
  <2>1. seen[p].led = led /\ led' = led
    BY <1>4 DEF Open, SoloInv, SightIsFresh, shared
  <2>2. Restorable(led) /\ Sound(n) /\ \A t \in Tasks : n.resumes[t] = 0 /\ n.attempts[t] = 0
    BY RunAssumption, NewQueueSound DEF RunInv, TypeOK, ResumeStates, Restorable, LedgerTasks
  <2>3. queue'[p] = r /\ pc'[p] = "loop" /\ bounds'[p] = bounds[p]
    BY <1>0, <1>4, <2>1 DEF Open
  <2>4. n \in Queues /\ \A t \in Tasks : n.state[t] \in {"pending", "held"}
    BY <2>2, NewQueueSound DEF Sound
  <2>5. CASE Resumed(led)
    <3>1. r = Restore(n, led)
      BY <2>5 DEF Opened
    <3> HIDE DEF n, r
    <3>2. /\ Sound(Restore(n, led))
          /\ \A t \in Tasks : Restore(n, led).state[t] = "pending" => t \notin led.succeeded
          /\ \A t \in Tasks \ led.succeeded : Restore(n, led).state[t] \in {n.state[t], "held"}
          /\ \A t \in Tasks \ led.succeeded : Restore(n, led).attempts[t] = led.attempts[t]
          /\ \A t \in Tasks \ led.succeeded : Restore(n, led).resumes[t] = led.resumes[t]
      BY <2>2, <2>4, RestoreSound
    <3>3. \A t \in Tasks : led.attempts[t] \in Nat /\ UnderWay(p, t)' = 0
      BY <2>2, <2>3 DEF Restorable, UnderWay
    <3> QED BY <1>0, <2>1, <2>3, <2>4, <3>1, <3>2, <3>3, CountsAre DEF n
  <2>6. CASE ~Resumed(led)
    <3>1. r = n /\ led.attempted = {}
      BY <2>6 DEF Opened, Resumed
    <3>2. \A t \in Tasks : led.attempts[t] = 0 /\ led.resumes[t] = 0
      BY <1>0, <3>1 DEF SoloInv, StartedFirst
    <3> HIDE DEF n, r
    <3>3. \A t \in Tasks : UnderWay(p, t)' = 0
      BY <2>3 DEF UnderWay
    <3> QED BY <1>0, <2>1, <2>2, <2>3, <3>1, <3>2, <3>3, CountsAre DEF n
  <2> QED BY <2>5, <2>6
<1>5. ASSUME NEW p \in Procs, Finish(p) PROVE CountsMirrored'
  <2>1. led'.attempts = led.attempts /\ led'.resumes = led.resumes /\ led'.attempted = led.attempted
    BY <1>5, CountsKept
  <2>2. pc'[p] \notin Running
    BY <1>0, <1>5 DEF Finish, Running
  <2> QED BY <1>0, <2>1, <2>2, CountsAre
<1>6. ASSUME NEW p \in Procs, pc[p] \in Running, pc[p] # "executing", pc'[p] # "executing",
             UNCHANGED <<queue, bounds>>,
             led'.attempts = led.attempts, led'.resumes = led.resumes, led'.attempted = led.attempted
      PROVE  CountsMirrored'
  <2>1. \A t \in Tasks : UnderWay(p, t)' = 0 /\ UnderWay(p, t) = 0
    BY <1>6 DEF UnderWay
  <2> QED BY <1>0, <1>6, <2>1, CountsAre DEF CountsMirrored
<1>7. ASSUME NEW p \in Procs,
             Cancel(p) \/ Drained(p) \/ RecordAdvance(p) \/ (\E t \in Tasks : FenceVerified(p, t))
      PROVE  CountsMirrored'
  BY <1>0, <1>6, <1>7 DEF Cancel, Drained, RecordAdvance, FenceVerified, shared, Running
<1>8. ASSUME NEW p \in Procs, RecordGate(p) PROVE CountsMirrored'
  <2>1. led'.attempts = led.attempts /\ led'.resumes = led.resumes /\ led'.attempted = led.attempted
    BY <1>8, CountsKept
  <2>2. pc'[p] # "executing" /\ pc[p] = "gate" /\ UNCHANGED <<queue, bounds>>
    BY <1>0, <1>8 DEF RecordGate, Onward
  <2> QED BY <1>6, <2>1, <2>2 DEF Running
<1>9. ASSUME NEW p \in Procs, StartTask(p) PROVE CountsMirrored'
  <2> DEFINE t == cur[p].task
             r == [kind |-> "started", task |-> t]
  <2>1. t \in Tasks /\ pc[p] = "checked" /\ pc'[p] = "executing"
        /\ UNCHANGED <<queue, bounds, cur>> /\ led' = Apply(led, r)
    BY LogNotes, <1>0, <1>9 DEF StartTask, RunInv, InHand, Noted
  <2>2. r \in Records /\ r.kind = "started" /\ r.task = t
    BY <2>1, RecordsWritten
  <2> HIDE DEF t, r
  <2>3. /\ led'.attempts = [led.attempts EXCEPT ![t] = @ + 1]
        /\ led'.resumes = led.resumes /\ led'.attempted = led.attempted \cup {t}
    <3>1. led'.attempts = [led.attempts EXCEPT ![r.task] = @ + 1]
      BY <1>0, <2>1, <2>2, ApplyCounts
    <3>2. led'.resumes = led.resumes /\ led'.attempted = led.attempted \cup {r.task}
      <4>1. r.kind # "resumed"
        BY <2>2
      <4> QED BY <1>0, <2>1, <2>2, <4>1, ApplyKeeps
    <3> QED BY <2>2, <3>1, <3>2
  <2>4. led.attempts \in [Tasks -> Nat] /\ queue[p].attempts \in [Tasks -> Nat]
    BY <1>0, RunAssumption DEF ResumeStates, LedgerTasks, Queues
  <2>5. \A u \in Tasks : UnderWay(p, u) = 0 /\ UnderWay(p, u)' = (IF u = t THEN 1 ELSE 0)
    BY <2>1 DEF UnderWay, t
  <2>6. \A u \in Tasks : u \notin led'.attempted => led'.attempts[u] = 0
    BY <1>0, <2>3, <2>4
  <2>7. /\ Sound(queue[p])
        /\ \A u \in Tasks : queue[p].state[u] = "pending" =>
              /\ NewQueue(bounds[p]).state[u] = "pending"
              /\ led.resumes[u] = queue[p].resumes[u]
              /\ led.attempts[u] = queue[p].attempts[u] + UnderWay(p, u)
    BY <2>1 DEF CountsMirrored, Running
  <2>8. \A u \in Tasks : queue[p].state[u] = "pending" =>
              led'.attempts[u] = queue[p].attempts[u] + UnderWay(p, u)'
    BY <2>3, <2>4, <2>5, <2>7
  <2> QED BY <2>1, <2>3, <2>6, <2>7, <2>8, CountsAre
<1>10. ASSUME NEW p \in Procs, NEW t \in Tasks, FenceViolated(p, t) PROVE CountsMirrored'
  <2> DEFINE z == Hold(queue[p], t)
  <2>1. led' = led /\ pc[p] = "loop" /\ pc'[p] = "finishing" /\ queue'[p] = z /\ bounds' = bounds
    BY <1>0, <1>10 DEF FenceViolated, shared
  <2>2. Sound(queue[p]) /\ Moves(queue[p], t, "held", z)
    BY <2>1 DEF CountsMirrored, Running, Moves
  <2> HIDE DEF z
  <2>3. /\ Sound(z) /\ Follows(queue[p], z, t)
        /\ \A u \in Tasks \ {t} : z.attempts[u] = queue[p].attempts[u]
        /\ z.state[t] # "pending"
    BY <2>2, MovesCount
  <2>4. \A u \in Tasks : UnderWay(p, u) = 0 /\ UnderWay(p, u)' = 0
    BY <2>1 DEF UnderWay
  <2>5. \A u \in Tasks : z.state[u] = "pending" =>
              /\ NewQueue(bounds[p]).state[u] = "pending"
              /\ led.resumes[u] = z.resumes[u]
              /\ led.attempts[u] = z.attempts[u] + UnderWay(p, u)'
    BY <2>1, <2>3, <2>4 DEF CountsMirrored, Running, Follows
  <2> QED BY <1>0, <2>1, <2>3, <2>5, CountsAre
<1>11. ASSUME NEW p \in Procs, Conclude(p) \/ Overrun(p) PROVE CountsMirrored'
  <2>0. PICK k \in {"succeeded", "resumed", "failed", "held"} : \E z : Settles(p, k, z)
    BY <1>11, ConcludeSettles
  <2>1. PICK z : Settles(p, k, z)
    BY <2>0
  <2>2. PICK t \in Tasks : t = cur[p].task
    BY <1>11, ConcludeSettles
  <2>3. /\ led'.attempted = led.attempted
        /\ k = "resumed" =>
              /\ led'.resumes = [led.resumes EXCEPT ![t] = @ + 1]
              /\ led'.attempts = [led.attempts EXCEPT ![t] = AttemptsAfterResume(@)]
        /\ k # "resumed" => led'.resumes = led.resumes /\ led'.attempts = led.attempts
        /\ queue'[p] = z /\ bounds' = bounds
    BY <2>1, <2>2, SettlesLedger
  <2>4. /\ pc[p] \in {"executing", "overrun"} /\ (k # "held" => pc[p] = "executing")
        /\ Moves(queue[p], t, k, z)
        /\ pc'[p] # "executing"
    BY <2>1, <2>2 DEF Settles
  <2>5. \A u \in Tasks : /\ UnderWay(p, u)' = 0
                         /\ UnderWay(p, u) = (IF pc[p] = "executing" /\ u = t THEN 1 ELSE 0)
    BY <2>2, <2>4 DEF UnderWay
  <2>6. /\ Sound(queue[p]) /\ queue[p].state[t] = "pending"
        /\ \A u \in Tasks : queue[p].state[u] = "pending" =>
              /\ NewQueue(bounds[p]).state[u] = "pending"
              /\ led.resumes[u] = queue[p].resumes[u]
              /\ led.attempts[u] = queue[p].attempts[u] + UnderWay(p, u)
    BY <2>2, <2>4 DEF CountsMirrored, Running, SoloInv, DoneIsKnown
  <2>7. /\ Sound(z) /\ Follows(queue[p], z, t)
        /\ \A u \in Tasks \ {t} : z.attempts[u] = queue[p].attempts[u]
        /\ z.state[t] = "pending" =>
              \/ k = "resumed" /\ z.attempts[t] = queue[p].attempts[t] /\ z.resumes[t] = queue[p].resumes[t] + 1
              \/ k = "failed" /\ z.attempts[t] = queue[p].attempts[t] + 1 /\ z.resumes[t] = queue[p].resumes[t]
    BY <2>2, <2>4, <2>6, MovesCount
  <2>8. /\ led.attempts \in [Tasks -> Nat] /\ led.resumes \in [Tasks -> Nat]
        /\ queue[p].attempts \in [Tasks -> Nat] /\ queue[p].resumes \in [Tasks -> Nat]
    BY <1>0, RunAssumption DEF ResumeStates, LedgerTasks, Queues
  <2>9. \A u \in Tasks : u \notin led'.attempted => led'.attempts[u] = 0
    BY <1>0, <2>2, <2>3, <2>8 DEF AttemptsAfterResume
  <2>10. ASSUME NEW u \in Tasks \ {t}, z.state[u] = "pending"
         PROVE  /\ NewQueue(bounds[p]).state[u] = "pending"
                /\ led'.resumes[u] = z.resumes[u]
                /\ led'.attempts[u] = z.attempts[u] + UnderWay(p, u)'
    <3>1. queue[p].state[u] = "pending" /\ z.resumes[u] = queue[p].resumes[u]
          /\ z.attempts[u] = queue[p].attempts[u]
      BY <2>7, <2>10 DEF Follows
    <3>2. led'.resumes[u] = led.resumes[u] /\ led'.attempts[u] = led.attempts[u]
      BY <2>3, <2>8
    <3> QED BY <2>5, <2>6, <3>1, <3>2
  <2>11. ASSUME z.state[t] = "pending"
         PROVE  /\ NewQueue(bounds[p]).state[t] = "pending"
                /\ led'.resumes[t] = z.resumes[t]
                /\ led'.attempts[t] = z.attempts[t] + UnderWay(p, t)'
    <3>1. pc[p] = "executing" /\ k \in {"resumed", "failed"}
      BY <2>4, <2>7, <2>11
    <3>2. led.attempts[t] = queue[p].attempts[t] + 1 /\ led.resumes[t] = queue[p].resumes[t]
      BY <2>2, <2>5, <2>6, <3>1
    <3>3. CASE k = "resumed"
      BY <2>2, <2>3, <2>5, <2>6, <2>7, <2>8, <2>11, <3>2, <3>3 DEF AttemptsAfterResume
    <3>4. CASE k = "failed"
      BY <2>2, <2>3, <2>5, <2>6, <2>7, <2>8, <2>11, <3>2, <3>4
    <3> QED BY <3>1, <3>3, <3>4
  <2>12. bounds'[p] = bounds[p]
    BY <2>3
  <2> QED BY <2>2, <2>3, <2>7, <2>9, <2>10, <2>11, <2>12, CountsAre
<1>12. ASSUME NEW p \in Procs, StageCommits(p) PROVE CountsMirrored'
  BY <1>1, <1>12 DEF StageCommits
<1>13. CASE Outsider
  BY <1>1, <1>13 DEF Outsider
<1>14. CASE UNCHANGED vars
  BY <1>1, <1>14 DEF vars, shared
<1> QED BY <1>2, <1>3, <1>4, <1>5, <1>7, <1>8, <1>9, <1>10, <1>11, <1>12, <1>13, <1>14 DEF Next, Work

\* The evidence in memory is the journal's, and the verdict about to be recorded.
EvidenceMirrored ==
    \A p \in Procs :
        /\ pc[p] \in Running \ {"gate"} => evid[p] = led.gates
        /\ pc[p] = "gate" =>
              LET g == QAGate[cur[p].task]
              IN  evid[p] = [led.gates EXCEPT ![g] = MergeEvidence(@, Observed(p, cur[p].due))]

\* The gate records of a process and its memory are merged alike.
LEMMA EvidenceNext ==
    OneAfterAnother /\ ~DiskFaults /\ RunInv /\ SoloInv /\ EvidenceMirrored /\ [Next]_vars => EvidenceMirrored'
<1> SUFFICES ASSUME OneAfterAnother, ~DiskFaults, RunInv, SoloInv, EvidenceMirrored, [Next]_vars
             PROVE  EvidenceMirrored'
  OBVIOUS
<1> USE DEF Goto, At
<1>0. /\ pc \in [Procs -> Locations] /\ evid \in [Procs -> Ledgers] /\ led \in ResumeStates
      /\ \A p, o \in Procs : p = o
  BY DEF RunInv, TypeOK, OneAfterAnother
<1>1. ASSUME UNCHANGED <<led, local>> PROVE EvidenceMirrored'
  BY <1>1 DEF local, EvidenceMirrored, Running, Observed
<1>2. ASSUME NEW p \in Procs, pc'[p] \notin Running PROVE EvidenceMirrored'
  BY <1>0, <1>2 DEF EvidenceMirrored, Running
<1>3. ASSUME NEW p \in Procs, pc'[p] # "gate", evid'[p] = led'.gates PROVE EvidenceMirrored'
  BY <1>0, <1>3 DEF EvidenceMirrored
<1>4. ASSUME NEW p \in Procs,
             \/ BeginRead(p) \/ Preflight(p) \/ Acquire(p) \/ Report(p) \/ Finish(p)
             \/ Refuse(p) \/ OpenFails(p) \/ Close(p) \/ Die(p) \/ DieWriting(p)
      PROVE  EvidenceMirrored'
  BY <1>0, <1>2, <1>4 DEF BeginRead, Preflight, Acquire, Report, Finish, Refuse, OpenFails, Close, Die, DieWriting,
                          Release, Forget, Running
<1>5. ASSUME NEW p \in Procs, Open(p) PROVE EvidenceMirrored'
  <2>1. pc'[p] = "loop" /\ evid'[p] = led.gates /\ led' = led
    BY <1>0, <1>5 DEF Open, SoloInv, SightIsFresh, shared
  <2> QED BY <1>3, <2>1
<1>6. ASSUME NEW p \in Procs,
             \/ Cancel(p) \/ Drained(p) \/ RecordAdvance(p)
             \/ \E t \in Tasks : FenceVerified(p, t) \/ FenceViolated(p, t)
      PROVE  EvidenceMirrored'
  <2>1. pc[p] \in Running \ {"gate"} /\ pc'[p] # "gate" /\ evid' = evid /\ led' = led
    BY <1>0, <1>6 DEF Cancel, Drained, RecordAdvance, FenceVerified, FenceViolated, shared, Running
  <2> QED BY <1>3, <2>1 DEF EvidenceMirrored
<1>7. ASSUME NEW p \in Procs, StartTask(p) PROVE EvidenceMirrored'
  <2> DEFINE r == [kind |-> "started", task |-> cur[p].task]
  <2>1. r \in Records /\ r.kind # "gate"
    BY <1>7, RecordsWritten DEF StartTask, RunInv, InHand
  <2>2. pc[p] = "checked" /\ pc'[p] = "executing" /\ evid' = evid /\ led' = Apply(led, r)
    BY LogNotes, <1>0, <1>7 DEF StartTask, Noted
  <2> HIDE DEF r
  <2>3. led'.gates = led.gates
    BY <1>0, <2>1, <2>2, ApplyCounts
  <2> QED BY <1>3, <2>2, <2>3 DEF EvidenceMirrored, Running
<1>8. ASSUME NEW p \in Procs, RecordGate(p) PROVE EvidenceMirrored'
  <2> DEFINE g == QAGate[cur[p].task]
             ev == Observed(p, cur[p].due)
             r == [kind |-> "gate", gate |-> g, ev |-> ev]
  <2>1. r \in Records
    BY <1>8, RecordsWritten DEF RecordGate, RunInv, InHand, TypeOK, Observed, Evidence
  <2>2. pc[p] = "gate" /\ pc'[p] # "gate" /\ evid' = evid /\ led' = Apply(led, r)
    BY LogNotes, <1>0, <1>8 DEF RecordGate, Noted, Onward
  <2>3. evid[p] = [led.gates EXCEPT ![g] = MergeEvidence(@, ev)]
    BY <2>2 DEF EvidenceMirrored
  <2>4. r.kind = "gate" /\ r.gate = g /\ r.ev = ev
    OBVIOUS
  <2> HIDE DEF r, g, ev
  <2>5. led'.gates = [led.gates EXCEPT ![r.gate] = MergeEvidence(@, r.ev)]
    BY <1>0, <2>1, <2>2, <2>4, ApplyCounts
  <2> QED BY <1>3, <2>2, <2>3, <2>4, <2>5
<1>9. ASSUME NEW p \in Procs, Conclude(p) \/ Overrun(p) PROVE EvidenceMirrored'
  <2>0. PICK k \in {"succeeded", "resumed", "failed", "held"} : \E z : Settles(p, k, z)
    BY <1>9, ConcludeSettles
  <2>1. PICK z : Settles(p, k, z)
    BY <2>0
  <2>2. cur[p].task \in Tasks
    BY <1>9, ConcludeSettles
  <2>3. led'.gates = led.gates /\ fence' = fence
    BY <2>1, <2>2, SettlesLedger
  <2>4. evid[p] = led.gates
    BY <2>1 DEF Settles, EvidenceMirrored, Running
  <2>5. CASE pc'[p] # "gate"
    BY <1>3, <2>1, <2>3, <2>4, <2>5 DEF Settles
  <2>6. CASE pc'[p] = "gate"
    <3>1. /\ cur'[p].task = cur[p].task
          /\ evid'[p] = [led'.gates EXCEPT ![QAGate[cur[p].task]] = MergeEvidence(@, Observed(p, cur'[p].due))]
      BY <2>1, <2>3, <2>4, <2>6 DEF Settles
    <3>2. Observed(p, cur'[p].due) = Observed(p, cur[p].due)'
      BY <2>3 DEF Observed
    <3>3. evid'[p] = [led'.gates EXCEPT ![QAGate[cur'[p].task]] = MergeEvidence(@, Observed(p, cur[p].due)')]
      BY <3>1, <3>2
    <3> QED BY <1>0, <2>6, <3>3 DEF EvidenceMirrored
  <2> QED BY <2>5, <2>6
<1>10. ASSUME NEW p \in Procs, StageCommits(p) PROVE EvidenceMirrored'
  BY <1>1, <1>10 DEF StageCommits
<1>11. CASE Outsider
  BY <1>1, <1>11 DEF Outsider
<1>12. CASE UNCHANGED vars
  BY <1>1, <1>12 DEF vars, shared
<1> QED BY <1>4, <1>5, <1>6, <1>7, <1>8, <1>9, <1>10, <1>11, <1>12 DEF Next, Work

\* Restore gives back the queue of a process between tasks: the tasks it had held
\* or failed are a set that no hold of the restored queue reaches beyond.
LEMMA RestoreIsExact ==
    ASSUME NEW q, NEW n, NEW rs, Sound(q), Sound(n), Restorable(rs),
           \A t \in Tasks : n.state[t] \in {"pending", "held"},
           \A t \in Tasks : q.state[t] = "succeeded" <=> t \in rs.succeeded,
           \A t \in Tasks : q.state[t] = "pending" =>
               /\ n.state[t] = "pending"
               /\ rs.resumes[t] <= MaxResumes[t],
           NEW t \in Tasks, q.state[t] = "pending"
    PROVE  Restore(n, rs).state[t] = "pending"
<1> DEFINE st == RestoredState(n, rs)
           H == {u \in Tasks : q.state[u] \in {"failed", "held"}}
<1>0. \A u \in Tasks : q.state[u] \in TaskStates
  BY DEF Sound, Queues
<1>1. \A u \in Tasks : q.state[u] = "pending" => ~Overdriven(rs, u)
  BY PlanAssumption DEF Overdriven, Restorable
<1>2. n \in Queues /\ st \in StateMaps
  BY DEF Sound, Queues, RestoredState, StateMaps, TaskStates
<1>3. \A u \in Tasks : (st[u] \in {"failed", "held"} => u \in H) /\ (st[u] = "pending" => q.state[u] # "succeeded")
  BY <1>0, <1>1 DEF RestoredState, TaskStates
<1>4. Swept(st, H)
  <2> SUFFICES ASSUME NEW u \in Tasks, st[u] = "pending", NEW d \in Needs[u], d \in Lost(st, H)
               PROVE  u \in H
    BY DEF Swept
  <2>1. d \in H
    BY <1>3 DEF Lost
  <2>2. q.state[u] # "pending"
    BY <2>1 DEF Sound, NoneStranded
  <2> QED BY <1>0, <1>3, <2>2 DEF TaskStates
<1>5. t \in Tasks \ H /\ H \in SUBSET Tasks /\ st[t] = "pending"
  BY <1>1 DEF RestoredState
<1> HIDE DEF st, H
<1>6. PropagateHolds(st)[t] = st[t]
  BY <1>2, <1>4, <1>5, OutsideSwept
<1>7. Restore(n, rs).state = PropagateHolds(st)
  BY <1>2, RestoreIs DEF st
<1> QED BY <1>5, <1>6, <1>7

\* When memory mirrors the journal, a process that replaces one between tasks has
\* its done and pending tasks, their budgets and its evidence.
LEMMA MirrorsAreExact ==
    ~DiskFaults /\ RunInv /\ SoloInv /\ NeedsInv /\ CountsMirrored /\ EvidenceMirrored => ResumeIsExact
<1> SUFFICES ASSUME ~DiskFaults, RunInv, SoloInv, NeedsInv, CountsMirrored, EvidenceMirrored,
                    NEW p \in Procs, pc[p] = "loop"
             PROVE  LET r == Opened(bounds[p], led)
                    IN  /\ evid[p] = led.gates
                        /\ \A t \in Tasks :
                              /\ r.state[t] = "succeeded" <=> queue[p].state[t] = "succeeded"
                              /\ queue[p].state[t] = "pending" =>
                                    /\ r.state[t] = "pending"
                                    /\ r.attempts[t] = queue[p].attempts[t]
                                    /\ r.resumes[t] = queue[p].resumes[t]
  BY DEF ResumeIsExact
<1> USE DEF Running
<1> DEFINE n == NewQueue(bounds[p])
           r == Opened(bounds[p], led)
           q == queue[p]
<1>1. evid[p] = led.gates
  BY DEF EvidenceMirrored
<1>2. /\ Sound(q)
      /\ \A t \in Tasks : q.state[t] = "pending" =>
            /\ n.state[t] = "pending"
            /\ led.resumes[t] = q.resumes[t]
            /\ led.attempts[t] = q.attempts[t]
  <2>1. \A t \in Tasks : UnderWay(p, t) = 0 /\ queue[p].attempts[t] \in Nat
    BY DEF UnderWay, RunInv, TypeOK, Queues
  <2> QED BY <2>1 DEF CountsMirrored
<1>3. \A t \in Tasks : q.state[t] = "succeeded" <=> t \in led.succeeded
  BY DEF SoloInv, DoneIsKnown, NeedsInv, Backed
<1>4. \A t \in Tasks : q.state[t] = "pending" => led.resumes[t] <= MaxResumes[t]
  BY <1>2 DEF SoloInv, ResumesAreCounted
<1>5. Restorable(led) /\ Sound(n) /\ n \in Queues
      /\ \A t \in Tasks : n.state[t] \in {"pending", "held"} /\ n.resumes[t] = 0 /\ n.attempts[t] = 0
  BY RunAssumption, NewQueueSound DEF RunInv, TypeOK, ResumeStates, Restorable, LedgerTasks, Sound
<1>6. \A t \in Tasks : t \notin led.attempted => led.attempts[t] = 0
  BY DEF CountsMirrored
<1>7. r = IF Resumed(led) THEN Restore(n, led) ELSE n
  BY DEF Opened
<1> HIDE DEF n, r, q
<1>8. CASE Resumed(led)
  <2>1. /\ \A t \in Tasks : t \in led.succeeded => Restore(n, led).state[t] = "succeeded"
        /\ \A t \in Tasks \ led.succeeded : Restore(n, led).state[t] \in {n.state[t], "held"}
        /\ \A t \in Tasks \ led.succeeded : Restore(n, led).attempts[t] = led.attempts[t]
        /\ \A t \in Tasks \ led.succeeded : Restore(n, led).resumes[t] = led.resumes[t]
    BY <1>5, RestoreSound
  <2>2. \A t \in Tasks : q.state[t] = "pending" => Restore(n, led).state[t] = "pending"
    BY <1>2, <1>3, <1>4, <1>5, RestoreIsExact
  <2>3. \A t \in Tasks :
           /\ r.state[t] = "succeeded" <=> q.state[t] = "succeeded"
           /\ q.state[t] = "pending" =>
                 /\ r.state[t] = "pending"
                 /\ r.attempts[t] = q.attempts[t]
                 /\ r.resumes[t] = q.resumes[t]
    <3> SUFFICES ASSUME NEW t \in Tasks
                 PROVE  /\ r.state[t] = "succeeded" <=> q.state[t] = "succeeded"
                        /\ q.state[t] = "pending" =>
                              /\ r.state[t] = "pending"
                              /\ r.attempts[t] = q.attempts[t]
                              /\ r.resumes[t] = q.resumes[t]
      OBVIOUS
    <3>1. CASE t \in led.succeeded
      BY <1>3, <1>7, <1>8, <2>1, <3>1
    <3>2. CASE t \notin led.succeeded
      BY <1>2, <1>3, <1>5, <1>7, <1>8, <2>1, <2>2, <3>2
    <3> QED BY <3>1, <3>2
  <2> QED BY <1>1, <2>3 DEF r, q
<1>9. CASE ~Resumed(led)
  <2>1. led.succeeded = {} /\ led.attempted = {}
    BY <1>9 DEF Resumed
  <2>2. \A t \in Tasks : led.resumes[t] = 0 /\ led.attempts[t] = 0
    BY <1>6, <2>1 DEF SoloInv, StartedFirst
  <2>3. \A t \in Tasks :
           /\ r.state[t] = "succeeded" <=> q.state[t] = "succeeded"
           /\ q.state[t] = "pending" =>
                 /\ r.state[t] = "pending"
                 /\ r.attempts[t] = q.attempts[t]
                 /\ r.resumes[t] = q.resumes[t]
    BY <1>2, <1>3, <1>5, <1>7, <1>9, <2>1, <2>2
  <2> QED BY <1>1, <2>3 DEF r, q
<1> QED BY <1>8, <1>9

\* Nothing is counted and nobody is in the run at first.
LEMMA MirrorInit == Init => CountsMirrored /\ EvidenceMirrored
<1> SUFFICES ASSUME Init PROVE CountsMirrored /\ EvidenceMirrored
  OBVIOUS
<1>1. \A t \in Tasks : led.attempts[t] = 0
  BY RunAssumption DEF Init, EmptyResume, LedgerTasks
<1> QED BY <1>1 DEF Init, CountsMirrored, EvidenceMirrored, Running

\* Between tasks a crash costs nothing: for every plan, with processes one after
\* another and a disk that keeps what is appended, the journal restores the done
\* and the pending tasks, what is left of their budgets and the evidence.
THEOREM CrashesCostNothing == (OneAfterAnother /\ ~DiskFaults) => (Spec => []ResumeIsExact)
<1> SUFFICES ASSUME OneAfterAnother, ~DiskFaults PROVE Spec => []ResumeIsExact
  OBVIOUS
<1>1. RunInv /\ SoloInv /\ NeedsInv /\ CountsMirrored /\ EvidenceMirrored => ResumeIsExact
  BY MirrorsAreExact
<1>2. Init => RunInv /\ SoloInv /\ NeedsInv /\ CountsMirrored /\ EvidenceMirrored
  BY RunInvInit, SoloInit, MirrorInit DEF Init, NeedsInv, Running
<1>3. RunInv /\ SoloInv /\ NeedsInv /\ CountsMirrored /\ EvidenceMirrored /\ [Next]_vars
        => RunInv' /\ SoloInv' /\ NeedsInv' /\ CountsMirrored' /\ EvidenceMirrored'
  BY RunInvNext, SoloNext, NeedsNext, CountsNext, EvidenceNext
<1> QED BY <1>1, <1>2, <1>3, PTL DEF Spec

-----------------------------------------------------------------------------
(* Attempts                                                                 *)

\* Each restart is worth one attempt, and a process that has not driven the task
\* since it began still has its own.
AttemptsBudgeted ==
    /\ \A p \in Procs : pc[p] # "down" => begins > 0
    /\ \A t \in Tasks : MaxAttempts[t] > 0 =>
          /\ led.attempts[t] + 1 <= MaxAttempts[t] + begins
          /\ \A p \in Procs :
                /\ pc[p] \in {"read", "probed", "claimed"} =>
                      led.attempts[t] + 2 <= MaxAttempts[t] + begins
                /\ pc[p] \in Running /\ queue[p].state[t] = "pending" =>
                      queue[p].attempts[t] + 2 <= MaxAttempts[t] + begins

\* What is true of the only process and of the journal is true of all.
LEMMA BudgetIs ==
    ASSUME OneAfterAnother, NEW p \in Procs, begins' > 0,
           \A t \in Tasks : MaxAttempts[t] > 0 =>
              /\ led'.attempts[t] + 1 <= MaxAttempts[t] + begins'
              /\ pc'[p] \in {"read", "probed", "claimed"} =>
                    led'.attempts[t] + 2 <= MaxAttempts[t] + begins'
              /\ pc'[p] \in Running /\ queue'[p].state[t] = "pending" =>
                    queue'[p].attempts[t] + 2 <= MaxAttempts[t] + begins'
    PROVE  AttemptsBudgeted'
  BY DEF OneAfterAnother, AttemptsBudgeted, Running

\* Every attempt is paid for: by the budget, or by the restart before it.
LEMMA BudgetNext ==
    OneAfterAnother /\ ~DiskFaults /\ RunInv /\ SoloInv /\ CountsMirrored /\ AttemptsBudgeted /\ [Next]_vars
        => AttemptsBudgeted'
<1> SUFFICES ASSUME OneAfterAnother, ~DiskFaults, RunInv, SoloInv, CountsMirrored, AttemptsBudgeted, [Next]_vars
             PROVE  AttemptsBudgeted'
  OBVIOUS
<1> USE DEF Goto, At
<1>0. /\ pc \in [Procs -> Locations] /\ queue \in [Procs -> Queues] /\ led \in ResumeStates
      /\ begins \in Nat /\ led.attempts \in [Tasks -> Nat] /\ MaxAttempts \in [Tasks -> Nat]
      /\ \A p \in Procs : pc[p] # "down" => begins > 0
      /\ \A t \in Tasks : MaxAttempts[t] > 0 => led.attempts[t] + 1 <= MaxAttempts[t] + begins
      /\ \A p, o \in Procs : p = o
      /\ CountsMirrored'
  BY RunAssumption, PlanAssumption, CountsNext
     DEF RunInv, TypeOK, ResumeStates, LedgerTasks, AttemptsBudgeted, OneAfterAnother
<1>1. ASSUME UNCHANGED <<led, local, begins>> PROVE AttemptsBudgeted'
  BY <1>1 DEF local, AttemptsBudgeted, Running
<1>2. ASSUME NEW p \in Procs, BeginRead(p) PROVE AttemptsBudgeted'
  <2>1. led' = led /\ begins' = begins + 1 /\ pc'[p] = "read"
    BY <1>0, <1>2 DEF BeginRead, shared
  <2> QED BY <1>0, <2>1, BudgetIs DEF Running
<1>3. ASSUME NEW p \in Procs, Preflight(p) \/ Acquire(p) PROVE AttemptsBudgeted'
  <2>1. led' = led /\ begins' = begins /\ pc'[p] \in {"probed", "claimed"} /\ pc[p] \in {"read", "probed"}
    BY <1>0, <1>3 DEF Preflight, Acquire, shared
  <2> QED BY <1>0, <2>1, BudgetIs DEF Running, AttemptsBudgeted
<1>4. ASSUME NEW p \in Procs, Refuse(p) \/ OpenFails(p) \/ Close(p) \/ Die(p) \/ DieWriting(p) PROVE AttemptsBudgeted'
  <2>1. led' = led /\ begins' = begins /\ pc'[p] = "down"
    BY <1>0, <1>4 DEF Refuse, OpenFails, Close, Die, DieWriting, Release, Forget
  <2> QED BY <1>0, <2>1 DEF AttemptsBudgeted, Running
<1>5. ASSUME NEW p \in Procs, Open(p) PROVE AttemptsBudgeted'
  <2>1. led' = led /\ begins' = begins /\ pc'[p] = "loop" /\ pc[p] = "claimed"
    BY <1>0, <1>5 DEF Open, shared
  <2>2. \A t \in Tasks : UnderWay(p, t)' = 0
    BY <2>1 DEF UnderWay
  <2>3. queue'[p].attempts \in [Tasks -> Nat]
    BY RunInvNext DEF RunInv, TypeOK, Queues
  <2>4. \A t \in Tasks : queue'[p].state[t] = "pending" => led'.attempts[t] = queue'[p].attempts[t]
    BY <1>0, <2>1, <2>2, <2>3 DEF CountsMirrored, Running
  <2>5. \A t \in Tasks : MaxAttempts[t] > 0 => led.attempts[t] + 2 <= MaxAttempts[t] + begins
    BY <2>1 DEF AttemptsBudgeted
  <2> QED BY <1>0, <2>1, <2>4, <2>5, BudgetIs
<1>6. ASSUME NEW p \in Procs, pc[p] \in Running, pc'[p] \notin {"read", "probed", "claimed"},
             UNCHANGED <<queue, begins>>, led'.attempts = led.attempts
      PROVE  AttemptsBudgeted'
  BY <1>0, <1>6, BudgetIs DEF AttemptsBudgeted, Running
<1>7. ASSUME NEW p \in Procs,
             Cancel(p) \/ Drained(p) \/ RecordAdvance(p) \/ (\E t \in Tasks : FenceVerified(p, t))
      PROVE  AttemptsBudgeted'
  BY <1>0, <1>6, <1>7 DEF Cancel, Drained, RecordAdvance, FenceVerified, shared, Running
<1>8. ASSUME NEW p \in Procs, RecordGate(p) \/ Finish(p) PROVE AttemptsBudgeted'
  <2>1. led'.attempts = led.attempts
    BY <1>8, CountsKept
  <2>2. \A t, q, why : Onward(t, q, why) \in {"advance", "finishing", "loop"}
    BY DEF Onward
  <2>3. /\ pc'[p] \notin {"read", "probed", "claimed"}
        /\ pc[p] \in {"gate", "finishing"} /\ UNCHANGED <<queue, begins>>
    BY <1>0, <1>8, <2>2 DEF RecordGate, Finish
  <2> QED BY <1>6, <2>1, <2>3 DEF Running
<1>9. ASSUME NEW p \in Procs, Report(p) PROVE AttemptsBudgeted'
  <2>1. led' = led /\ begins' = begins /\ pc'[p] = "closing" /\ pc[p] = "reporting"
    BY <1>0, <1>9 DEF Report
  <2> QED BY <1>0, <2>1, BudgetIs DEF Running
<1>10. ASSUME NEW p \in Procs, StartTask(p) PROVE AttemptsBudgeted'
  <2>1. PICK t \in Tasks : t = cur[p].task
    BY <1>10 DEF StartTask, RunInv, InHand
  <2> DEFINE r == [kind |-> "started", task |-> t]
  <2>2. pc[p] = "checked" /\ pc'[p] = "executing" /\ UNCHANGED <<queue, begins>> /\ led' = Apply(led, r)
    BY LogNotes, <1>0, <1>10, <2>1 DEF StartTask, Noted
  <2>3. r \in Records /\ r.kind = "started" /\ r.task = t
    BY <2>1, RecordsWritten
  <2> HIDE DEF r
  <2>4. led'.attempts = [led.attempts EXCEPT ![t] = @ + 1]
    BY <1>0, <2>2, <2>3, ApplyCounts
  <2>5. queue[p].state[t] = "pending" /\ led.attempts[t] = queue[p].attempts[t]
    <3>1. UnderWay(p, t) = 0 /\ queue[p].attempts[t] \in Nat
      BY <1>0, <2>2 DEF UnderWay, Queues
    <3>2. queue[p].state[t] = "pending"
      BY <2>1, <2>2 DEF SoloInv, DoneIsKnown
    <3> QED BY <2>2, <3>1, <3>2 DEF CountsMirrored, Running
  <2>6. \A u \in Tasks : MaxAttempts[u] > 0 => led'.attempts[u] + 1 <= MaxAttempts[u] + begins
    <3> SUFFICES ASSUME NEW u \in Tasks, MaxAttempts[u] > 0
                 PROVE  led'.attempts[u] + 1 <= MaxAttempts[u] + begins
      OBVIOUS
    <3>1. CASE u = t
      <4>1. queue[p].attempts[t] + 2 <= MaxAttempts[t] + begins
        BY <2>2, <2>5, <3>1 DEF AttemptsBudgeted, Running
      <4> QED BY <1>0, <2>4, <2>5, <3>1, <4>1
    <3>2. CASE u # t
      BY <1>0, <2>4, <3>2
    <3> QED BY <3>1, <3>2
  <2> QED BY <1>0, <2>2, <2>6, BudgetIs DEF AttemptsBudgeted, Running
<1>11. ASSUME NEW p \in Procs, NEW t \in Tasks, NEW k, NEW z, pc[p] \in Running,
              Moves(queue[p], t, k, z), queue[p].state[t] = "pending", queue'[p] = z,
              \A u \in Tasks : led'.attempts[u] \in Nat /\ led'.attempts[u] <= led.attempts[u],
              pc'[p] \notin {"read", "probed", "claimed"}, begins' = begins
       PROVE  AttemptsBudgeted'
  <2>1. Sound(queue[p])
    BY <1>11 DEF CountsMirrored
  <2>2. /\ Follows(queue[p], z, t)
        /\ \A u \in Tasks \ {t} : z.attempts[u] = queue[p].attempts[u]
        /\ z.state[t] = "pending" =>
              \/ z.attempts[t] = queue[p].attempts[t]
              \/ MaxAttempts[t] > 0 => z.attempts[t] < MaxAttempts[t]
        /\ z \in Queues
    BY <1>11, <2>1, MovesCount DEF Sound
  <2>3. begins > 0
    BY <1>0, <1>11 DEF Running
  <2>4. \A u \in Tasks : MaxAttempts[u] > 0 => led'.attempts[u] + 1 <= MaxAttempts[u] + begins
    BY <1>0, <1>11
  <2>5. ASSUME NEW u \in Tasks, MaxAttempts[u] > 0, z.state[u] = "pending"
        PROVE  z.attempts[u] + 2 <= MaxAttempts[u] + begins
    <3>1. z.attempts[u] \in Nat /\ queue[p].attempts[u] \in Nat /\ MaxAttempts[u] \in Nat
      BY <1>0, <2>2 DEF Queues
    <3>2. queue[p].state[u] = "pending"
      BY <1>11, <2>2, <2>5 DEF Follows
    <3>3. queue[p].attempts[u] + 2 <= MaxAttempts[u] + begins
      BY <1>11, <2>5, <3>2 DEF AttemptsBudgeted
    <3>4. z.attempts[u] = queue[p].attempts[u] \/ z.attempts[u] < MaxAttempts[u]
      BY <2>2, <2>5
    <3> QED BY <1>0, <2>3, <3>1, <3>3, <3>4
  <2> QED BY <1>11, <2>3, <2>4, <2>5, BudgetIs
<1>12. ASSUME NEW p \in Procs, NEW t \in Tasks, FenceViolated(p, t) PROVE AttemptsBudgeted'
  <2>1. /\ led' = led /\ pc[p] = "loop" /\ pc'[p] = "finishing" /\ begins' = begins
        /\ queue'[p] = Hold(queue[p], t) /\ queue[p].state[t] = "pending"
    BY <1>0, <1>12 DEF FenceViolated, shared, Offered, Ready
  <2>2. Moves(queue[p], t, "held", Hold(queue[p], t))
    BY DEF Moves
  <2>3. \A u \in Tasks : led'.attempts[u] \in Nat /\ led'.attempts[u] <= led.attempts[u]
    BY <1>0, <2>1
  <2> QED BY <1>11, <2>1, <2>2, <2>3 DEF Running
<1>13. ASSUME NEW p \in Procs, Conclude(p) \/ Overrun(p) PROVE AttemptsBudgeted'
  <2>0. PICK k \in {"succeeded", "resumed", "failed", "held"} : \E z : Settles(p, k, z)
    BY <1>13, ConcludeSettles
  <2>1. PICK z : Settles(p, k, z)
    BY <2>0
  <2>2. PICK t \in Tasks : t = cur[p].task
    BY <1>13, ConcludeSettles
  <2>3. /\ k = "resumed" => led'.attempts = [led.attempts EXCEPT ![t] = AttemptsAfterResume(@)]
        /\ k # "resumed" => led'.attempts = led.attempts
        /\ queue'[p] = z /\ begins' = begins
    <3>1. /\ k = "resumed" => led'.attempts = [led.attempts EXCEPT ![cur[p].task] = AttemptsAfterResume(@)]
          /\ k # "resumed" => led'.attempts = led.attempts
      BY <2>1, <2>2, SettlesLedger
    <3>2. queue'[p] = z /\ begins' = begins
      BY <1>0, <2>1 DEF Settles, Settle
    <3> QED BY <2>2, <3>1, <3>2
  <2>4. /\ pc[p] \in {"executing", "overrun"} /\ Moves(queue[p], t, k, z)
        /\ pc'[p] \notin {"read", "probed", "claimed"}
    BY <2>1, <2>2 DEF Settles
  <2>5. queue[p].state[t] = "pending"
    BY <2>2, <2>4 DEF SoloInv, DoneIsKnown
  <2>6. \A n \in Nat : AttemptsAfterResume(n) \in Nat /\ AttemptsAfterResume(n) <= n
    BY DEF AttemptsAfterResume
  <2>7. \A u \in Tasks : led'.attempts[u] \in Nat /\ led'.attempts[u] <= led.attempts[u]
    BY <1>0, <2>2, <2>3, <2>6
  <2> QED BY <1>11, <2>3, <2>4, <2>5, <2>7 DEF Running
<1>14. ASSUME NEW p \in Procs, StageCommits(p) PROVE AttemptsBudgeted'
  BY <1>1, <1>14 DEF StageCommits
<1>15. CASE Outsider
  BY <1>1, <1>15 DEF Outsider
<1>16. CASE UNCHANGED vars
  BY <1>1, <1>16 DEF vars, shared
<1> QED BY <1>2, <1>3, <1>4, <1>5, <1>7, <1>8, <1>9, <1>10, <1>12, <1>13, <1>14, <1>15, <1>16 DEF Next, Work

\* Over all processes of a run a task is attempted within its budget and once more
\* for each restart.
RestartBuysOneAttempt ==
    \A t \in Tasks : MaxAttempts[t] > 0 /\ begins > 0
        => led.attempts[t] <= MaxAttempts[t] + begins - 1

\* A crash loop is bounded by its crashes: over all processes of a run, one after
\* another on a disk that keeps what is appended, a task with a budget of its own is
\* attempted within it and once more for each restart.
THEOREM RestartsArePaidFor == (OneAfterAnother /\ ~DiskFaults) => (Spec => []RestartBuysOneAttempt)
<1> SUFFICES ASSUME OneAfterAnother, ~DiskFaults PROVE Spec => []RestartBuysOneAttempt
  OBVIOUS
<1>1. RunInv /\ AttemptsBudgeted => RestartBuysOneAttempt
  <2> SUFFICES ASSUME RunInv, AttemptsBudgeted, NEW t \in Tasks, MaxAttempts[t] > 0
               PROVE  led.attempts[t] <= MaxAttempts[t] + begins - 1
    BY DEF RestartBuysOneAttempt
  <2>1. led.attempts[t] \in Nat /\ MaxAttempts[t] \in Nat /\ begins \in Nat
    BY RunAssumption, PlanAssumption DEF RunInv, TypeOK, ResumeStates, LedgerTasks
  <2>2. led.attempts[t] + 1 <= MaxAttempts[t] + begins
    BY DEF AttemptsBudgeted
  <2> QED BY <2>1, <2>2
<1>2. Init => RunInv /\ SoloInv /\ CountsMirrored /\ AttemptsBudgeted
  <2> SUFFICES ASSUME Init PROVE AttemptsBudgeted
    BY RunInvInit, SoloInit, MirrorInit
  <2>1. \A t \in Tasks : led.attempts[t] = 0 /\ MaxAttempts[t] \in Nat
    BY RunAssumption, PlanAssumption DEF Init, EmptyResume, LedgerTasks
  <2> QED BY <2>1 DEF Init, AttemptsBudgeted, Running
<1>3. RunInv /\ SoloInv /\ CountsMirrored /\ AttemptsBudgeted /\ [Next]_vars
        => RunInv' /\ SoloInv' /\ CountsMirrored' /\ AttemptsBudgeted'
  BY RunInvNext, SoloNext, CountsNext, BudgetNext
<1> QED BY <1>1, <1>2, <1>3, PTL DEF Spec

-----------------------------------------------------------------------------
(* Completion                                                               *)

\* All durable evidence is about revisions up to h, which exists.
UpTo(h) == h \in 1 .. Top /\ \A g \in Gates : led.gates[g].target <= h

\* What Begin saw and what the fence guards is no older than any durable evidence.
EvidenceIsNotAhead ==
    /\ UpTo(Top)
    /\ \A p \in Procs :
          /\ pc[p] \in {"probed", "claimed"} => UpTo(seen[p].repo.head)
          /\ pc[p] \in Running => UpTo(fence[p].head)

\* The journal's evidence e of a gate answers for a verdict v of it: e is about a
\* newer revision, or about the same one and no milder.
Answers(e, v) ==
    /\ e # NoEvidence
    /\ v.target <= e.target
    /\ v.target = e.target => Severity(v.result) <= Severity(e.result)

VerdictsAnswered == \A v \in verdicts : Answers(led.gates[v.gate], v.ev)

\* A run that ends of its own accord has nothing left to offer.
EndsDrained ==
    \A p \in Procs : pc[p] = "finishing" /\ stop[p] = "none" => Offered(queue[p]) = {}

\* Only the record of a verdict changes the journal's evidence or the verdicts.
LEMMA EvidenceKept ==
    ASSUME RunInv, ~DiskFaults, [Next]_vars
    PROVE  \/ \E p \in Procs : RecordGate(p)
           \/ led'.gates = led.gates /\ verdicts' = verdicts
<1>0. led \in ResumeStates
  BY DEF RunInv, TypeOK
<1>1. ASSUME NEW p \in Procs,
             \/ BeginRead(p) \/ Preflight(p) \/ Refuse(p) \/ Acquire(p) \/ Open(p) \/ OpenFails(p)
             \/ Cancel(p) \/ Drained(p) \/ RecordAdvance(p) \/ StageCommits(p) \/ Report(p) \/ Close(p) \/ Die(p) \/ DieWriting(p)
             \/ \E t \in Tasks : FenceViolated(p, t) \/ FenceVerified(p, t)
      PROVE  led' = led /\ verdicts' = verdicts
  BY <1>1 DEF BeginRead, Preflight, Refuse, Acquire, Open, OpenFails, Release, Cancel, Drained, RecordAdvance,
              StageCommits, Report, Close, Die, DieWriting, FenceViolated, FenceVerified, shared
<1>2. ASSUME NEW r \in Records, r.kind # "gate", led' = Apply(led, r) PROVE led'.gates = led.gates
  BY <1>0, <1>2, ApplyCounts
<1>3. ASSUME NEW p \in Procs, StartTask(p) PROVE led'.gates = led.gates /\ verdicts' = verdicts
  <2>1. [kind |-> "started", task |-> cur[p].task] \in Records
    BY <1>3, RecordsWritten DEF StartTask, At, RunInv, InHand
  <2> QED BY LogNotes, <1>2, <1>3, <2>1 DEF StartTask, Noted
<1>4. ASSUME NEW p \in Procs, Finish(p) PROVE led'.gates = led.gates /\ verdicts' = verdicts
  <2>1. OutcomeOf(p) \in RunOutcomes
    BY DEF OutcomeOf, RunOutcomes, RunInv, TypeOK, Stops
  <2>2. [kind |-> "finished", outcome |-> OutcomeOf(p)] \in Records
    BY <2>1, RecordsWritten
  <2> QED BY FinishNotes, <1>2, <1>4, <2>2 DEF Noted
<1>5. ASSUME NEW p \in Procs, Conclude(p) \/ Overrun(p) PROVE led'.gates = led.gates /\ verdicts' = verdicts
  <2>0. PICK k \in {"succeeded", "resumed", "failed", "held"} : \E z : Settles(p, k, z)
    BY <1>5, ConcludeSettles
  <2>1. PICK z : Settles(p, k, z)
    BY <2>0
  <2>2. cur[p].task \in Tasks
    BY <1>5, ConcludeSettles
  <2>3. led'.gates = led.gates
    BY <2>1, <2>2, SettlesLedger
  <2> QED BY <2>1, <2>3 DEF Settles, Settle
<1>6. Outsider => led' = led /\ verdicts' = verdicts
  BY DEF Outsider
<1>7. UNCHANGED vars => led' = led /\ verdicts' = verdicts
  BY DEF vars, shared
<1> QED BY <1>1, <1>3, <1>4, <1>5, <1>6, <1>7 DEF Next, Work

\* A verdict is recorded for the revision the fence guards, merged into the journal
\* and counted among the run's verdicts.
LEMMA GateStep ==
    ASSUME RunInv, ~DiskFaults, NEW p \in Procs, RecordGate(p)
    PROVE  \E g \in Gates, ev \in Evidence :
              /\ ev.target = fence[p].head
              /\ led'.gates = [led.gates EXCEPT ![g] = MergeEvidence(@, ev)]
              /\ verdicts' = verdicts \cup {[gate |-> g, ev |-> ev]}
              /\ UNCHANGED <<revs, seen, fence>>
              /\ pc[p] = "gate"
<1> DEFINE g == QAGate[cur[p].task]
           ev == Observed(p, cur[p].due)
           r == [kind |-> "gate", gate |-> g, ev |-> ev]
<1>1. g \in Gates /\ ev \in Evidence /\ ev.target = fence[p].head
  BY DEF RecordGate, At, RunInv, InHand, TypeOK, Observed, Evidence
<1>2. r \in Records /\ r.kind = "gate" /\ r.gate = g /\ r.ev = ev
  BY <1>1, RecordsWritten
<1>3. led' = Apply(led, r) /\ verdicts' = verdicts \cup {[gate |-> g, ev |-> ev]}
      /\ UNCHANGED <<revs, seen, fence>> /\ pc[p] = "gate"
  BY LogNotes DEF RecordGate, At, Noted
<1>4. led \in ResumeStates
  BY DEF RunInv, TypeOK
<1> HIDE DEF r, g, ev
<1>5. led'.gates = [led.gates EXCEPT ![r.gate] = MergeEvidence(@, r.ev)]
  BY <1>2, <1>3, <1>4, ApplyCounts
<1>6. led'.gates = [led.gates EXCEPT ![g] = MergeEvidence(@, ev)]
  BY <1>2, <1>5
<1> QED BY <1>1, <1>3, <1>6

\* The journal's evidence never runs ahead of the fence.
LEMMA NotAheadNext ==
    OneAfterAnother /\ ~DiskFaults /\ RunInv /\ HeadIsTop /\ EvidenceIsNotAhead /\ [Next]_vars
        => EvidenceIsNotAhead'
<1> SUFFICES ASSUME OneAfterAnother, ~DiskFaults, RunInv, HeadIsTop, EvidenceIsNotAhead, [Next]_vars
             PROVE  EvidenceIsNotAhead'
  OBVIOUS
<1> USE DEF Goto, At
<1>0. /\ pc \in [Procs -> Locations] /\ seen \in [Procs -> [led : ResumeStates, repo : Repos]]
      /\ fence \in [Procs -> [run : Procs \cup {Nobody}, branch : Branches, head : Nat]]
      /\ led.gates \in Ledgers /\ Top \in Nat /\ Top' \in Nat
      /\ \A p, o \in Procs : p = o
  <2>1. revs \in Seq(Origins) /\ revs' \in Seq(Origins)
    BY RunInvNext DEF RunInv, TypeOK
  <2> QED BY <2>1 DEF RunInv, TypeOK, ResumeStates, OneAfterAnother, Top
<1>1. Top' >= Top /\ HeadIsTop'
  BY HeadNext
<1>2. CASE \E p \in Procs : RecordGate(p)
  <2>1. PICK p \in Procs : RecordGate(p)
    BY <1>2
  <2>2. PICK g \in Gates, ev \in Evidence :
              /\ ev.target = fence[p].head
              /\ led'.gates = [led.gates EXCEPT ![g] = MergeEvidence(@, ev)]
              /\ verdicts' = verdicts \cup {[gate |-> g, ev |-> ev]}
              /\ UNCHANGED <<revs, seen, fence>>
              /\ pc[p] = "gate"
    BY <2>1, GateStep
  <2>3. Top' = Top /\ fence' = fence /\ UpTo(fence[p].head)
    BY <2>2 DEF Top, EvidenceIsNotAhead, Running
  <2>4. \A f \in Gates : led'.gates[f].target <= fence[p].head
    <3> SUFFICES ASSUME NEW f \in Gates PROVE led'.gates[f].target <= fence[p].head
      OBVIOUS
    <3>1. led.gates[f].target <= fence[p].head
      BY <2>3 DEF UpTo
    <3>2. led'.gates[f] = IF f = g THEN MergeEvidence(led.gates[g], ev) ELSE led.gates[f]
      BY <1>0, <2>2 DEF Ledgers
    <3>3. MergeEvidence(led.gates[g], ev) \in {led.gates[g], ev}
      BY DEF MergeEvidence
    <3>4. fence[p].head \in Nat
      BY <1>0
    <3> QED BY <2>2, <3>1, <3>2, <3>3, <3>4
  <2>5. fence[p].head \in 1 .. Top /\ \A f \in Gates : led'.gates[f].target \in Nat
    <3>1. led'.gates \in Ledgers
      BY RunInvNext DEF RunInv, TypeOK, ResumeStates
    <3> QED BY <2>3, <3>1 DEF UpTo, Ledgers, Evidence, NoEvidence
  <2>6. UpTo(fence[p].head)' /\ UpTo(Top)'
    BY <1>0, <2>3, <2>4, <2>5 DEF UpTo
  <2>7. pc'[p] \in {"advance", "finishing", "loop"}
    BY <1>0, <2>1 DEF RecordGate, Onward
  <2> QED BY <1>0, <2>6, <2>7 DEF EvidenceIsNotAhead, Running
<1>3. CASE led'.gates = led.gates
  <2>1. ASSUME NEW h, UpTo(h) PROVE h \in 1 .. Top' /\ \A g \in Gates : led'.gates[g].target <= h
    BY <1>0, <1>1, <1>3, <2>1 DEF UpTo
  <2>2. UpTo(Top)'
    <3>1. \A g \in Gates : led.gates[g].target \in Nat
      BY <1>0 DEF Ledgers, Evidence, NoEvidence
    <3>2. \A g \in Gates : led.gates[g].target <= Top
      BY DEF EvidenceIsNotAhead, UpTo
    <3>3. Top' \in 1 .. Top'
      BY <1>0, <1>1 DEF HeadIsTop
    <3> QED BY <1>0, <1>1, <1>3, <3>1, <3>2, <3>3 DEF UpTo
  <2>3. ASSUME NEW p \in Procs,
               pc'[p] \in {"probed", "claimed"} => UpTo(seen'[p].repo.head),
               pc'[p] \in Running => UpTo(fence'[p].head)
        PROVE  EvidenceIsNotAhead'
    BY <1>0, <2>1, <2>2, <2>3 DEF EvidenceIsNotAhead, UpTo, Running
  <2>4. UpTo(Top)
    BY DEF EvidenceIsNotAhead
  <2>5. CASE UNCHANGED <<led, completion, local>>
    <3>1. \A p \in Procs :
             /\ pc'[p] \in {"probed", "claimed"} => UpTo(seen'[p].repo.head)
             /\ pc'[p] \in Running => UpTo(fence'[p].head)
      BY <2>5 DEF local, EvidenceIsNotAhead
    <3>2. CASE Procs = {}
      BY <2>2, <3>2 DEF EvidenceIsNotAhead
    <3>3. ASSUME NEW p \in Procs PROVE EvidenceIsNotAhead'
      BY <2>3, <3>1
    <3> QED BY <3>2, <3>3
  <2>6. ASSUME NEW p \in Procs, BeginRead(p) \/ Acquire(p) \/ Finish(p) \/ Report(p) PROVE EvidenceIsNotAhead'
    BY <1>0, <2>3, <2>6 DEF BeginRead, Acquire, Finish, Report, EvidenceIsNotAhead, Running
  <2>7. ASSUME NEW p \in Procs, Preflight(p) PROVE EvidenceIsNotAhead'
    <3>1. seen'[p].repo.head = Top /\ pc'[p] = "probed"
      BY <1>0, <2>7 DEF Preflight, HeadIsTop
    <3> QED BY <2>3, <2>4, <3>1 DEF Running
  <2>8. ASSUME NEW p \in Procs, Open(p) PROVE EvidenceIsNotAhead'
    <3>1. fence'[p].head = seen[p].repo.head /\ pc'[p] = "loop" /\ pc[p] = "claimed"
      BY <1>0, <2>8 DEF Open, TakeFence
    <3> QED BY <2>3, <3>1 DEF EvidenceIsNotAhead
  <2>9. ASSUME NEW p \in Procs, RecordAdvance(p) PROVE EvidenceIsNotAhead'
    <3>1. fence'[p] = Advance(fence[p], owner, repo) /\ pc'[p] = "loop" /\ pc[p] = "advance"
      BY <1>0, <2>9 DEF RecordAdvance
    <3>2. fence'[p].head \in {fence[p].head, Top}
      BY <1>0, <3>1 DEF Advance, HeadIsTop
    <3> QED BY <2>3, <2>4, <3>1, <3>2 DEF EvidenceIsNotAhead, Running
  <2>10. ASSUME NEW p \in Procs, NEW t \in Tasks, FenceVerified(p, t) PROVE EvidenceIsNotAhead'
    <3>1. fence' = fence /\ pc'[p] = "checked" /\ pc[p] = "loop"
      BY <1>0, <2>10 DEF FenceVerified
    <3> QED BY <2>3, <3>1 DEF EvidenceIsNotAhead, Running
  <2>11. ASSUME NEW p \in Procs, Forget(p) PROVE EvidenceIsNotAhead'
    <3>1. pc'[p] = "down"
      BY <1>0, <2>11 DEF Forget
    <3> QED BY <2>3, <3>1 DEF Running
  <2>12. ASSUME NEW p \in Procs, Carries(p) PROVE EvidenceIsNotAhead'
    <3>1. fence' = fence /\ pc'[p] \in Running /\ pc[p] \in Running
      BY <1>0, <2>12 DEF Carries
    <3> QED BY <2>3, <3>1 DEF EvidenceIsNotAhead, Running
  <2> QED BY <2>5, <2>6, <2>7, <2>8, <2>9, <2>10, <2>11, <2>12, StepKinds
<1> QED BY <1>2, <1>3, EvidenceKept

\* Evidence that answers for a verdict still does once newer evidence is merged in,
\* and the evidence merged in is answered for too.
LEMMA MergeAnswers ==
    ASSUME NEW e \in Evidence \cup {NoEvidence}, NEW ev \in Evidence, e.target <= ev.target
    PROVE  /\ Answers(MergeEvidence(e, ev), ev)
           /\ \A v \in Evidence : Answers(e, v) => Answers(MergeEvidence(e, ev), v)
<1>1. /\ ev # NoEvidence /\ ev.target \in Nat /\ e.target \in Nat
      /\ \A v \in Evidence : v.target \in Nat
      /\ \A r : Severity(r) \in 0 .. 3
  <2>1. \A r : Severity(r) \in 0 .. 3
    BY DEF Severity
  <2>2. ev.result # "none"
    BY DEF Evidence, Results
  <2> QED BY <2>1, <2>2 DEF Evidence, NoEvidence
<1>2. CASE MergeEvidence(e, ev) = e /\ e # NoEvidence /\ e.target = ev.target
                                 /\ Severity(e.result) >= Severity(ev.result)
  BY <1>1, <1>2 DEF Answers
<1>3. CASE /\ MergeEvidence(e, ev) = ev
           /\ ~(e # NoEvidence /\ e.target = ev.target /\ Severity(e.result) >= Severity(ev.result))
  <2>1. Answers(ev, ev)
    BY <1>1 DEF Answers
  <2>2. ASSUME NEW v \in Evidence, Answers(e, v) PROVE Answers(ev, v)
    <3>1. e # NoEvidence /\ v.target <= e.target /\ (v.target = e.target => Severity(v.result) <= Severity(e.result))
      BY <2>2 DEF Answers
    <3>2. v.target <= ev.target
      BY <1>1, <3>1
    <3>3. ASSUME v.target = ev.target PROVE Severity(v.result) <= Severity(ev.result)
      <4>1. v.target = e.target /\ e.target = ev.target
        BY <1>1, <3>1, <3>3
      <4>2. Severity(v.result) <= Severity(e.result) /\ ~(Severity(e.result) >= Severity(ev.result))
        BY <1>3, <3>1, <4>1
      <4>3. Severity(v.result) \in Int /\ Severity(e.result) \in Int /\ Severity(ev.result) \in Int
        BY <1>1
      <4> QED BY <4>2, <4>3
    <3> QED BY <1>1, <3>2, <3>3 DEF Answers
  <2> QED BY <1>3, <2>1, <2>2
<1> QED BY <1>2, <1>3 DEF MergeEvidence

\* Every verdict recorded is answered for by what the journal keeps of its gate.
LEMMA AnsweredNext ==
    ~DiskFaults /\ RunInv /\ EvidenceIsNotAhead /\ VerdictsAnswered /\ [Next]_vars => VerdictsAnswered'
<1> SUFFICES ASSUME ~DiskFaults, RunInv, EvidenceIsNotAhead, VerdictsAnswered, [Next]_vars
             PROVE  VerdictsAnswered'
  OBVIOUS
<1>1. CASE \E p \in Procs : RecordGate(p)
  <2>1. PICK p \in Procs : RecordGate(p)
    BY <1>1
  <2>2. PICK g \in Gates, ev \in Evidence :
              /\ ev.target = fence[p].head
              /\ led'.gates = [led.gates EXCEPT ![g] = MergeEvidence(@, ev)]
              /\ verdicts' = verdicts \cup {[gate |-> g, ev |-> ev]}
              /\ pc[p] = "gate"
    BY <2>1, GateStep
  <2>3. led.gates \in Ledgers /\ verdicts \subseteq [gate : Gates, ev : Evidence]
    BY DEF RunInv, TypeOK, ResumeStates
  <2>4. led.gates[g] \in Evidence \cup {NoEvidence} /\ led.gates[g].target <= ev.target
    BY <2>2, <2>3 DEF Ledgers, EvidenceIsNotAhead, UpTo, Running
  <2> DEFINE m == MergeEvidence(led.gates[g], ev)
  <2>5. Answers(m, ev) /\ \A v \in Evidence : Answers(led.gates[g], v) => Answers(m, v)
    BY <2>4, MergeAnswers
  <2>6. led'.gates[g] = m /\ \A f \in Gates \ {g} : led'.gates[f] = led.gates[f]
    BY <2>2, <2>3 DEF Ledgers
  <2> HIDE DEF m
  <2>7. ASSUME NEW v \in verdicts' PROVE Answers(led'.gates[v.gate], v.ev)
    <3>1. CASE v = [gate |-> g, ev |-> ev]
      BY <2>5, <2>6, <3>1
    <3>2. CASE v \in verdicts
      <4>1. v.gate \in Gates /\ v.ev \in Evidence /\ Answers(led.gates[v.gate], v.ev)
        BY <2>3, <3>2 DEF VerdictsAnswered
      <4> QED BY <2>5, <2>6, <4>1
    <3> QED BY <2>2, <3>1, <3>2
  <2> QED BY <2>7 DEF VerdictsAnswered, Answers
<1>2. CASE led'.gates = led.gates /\ verdicts' = verdicts
  BY <1>2 DEF VerdictsAnswered, Answers
<1> QED BY <1>1, <1>2, EvidenceKept

\* A process gets to the end of its run by running out of work or by being stopped.
LEMMA DrainedNext ==
    OneAfterAnother /\ RunInv /\ EndsDrained /\ [Next]_vars => EndsDrained'
<1> SUFFICES ASSUME OneAfterAnother, RunInv, EndsDrained, [Next]_vars PROVE EndsDrained'
  OBVIOUS
<1> USE DEF Goto, At
<1>0. /\ pc \in [Procs -> Locations] /\ stop \in [Procs -> Stops]
      /\ \A p, o \in Procs : p = o
  BY DEF RunInv, TypeOK, OneAfterAnother
<1>1. ASSUME UNCHANGED local PROVE EndsDrained'
  BY <1>1 DEF local, EndsDrained
<1>2. ASSUME NEW p \in Procs, pc'[p] = "finishing" /\ stop'[p] = "none" => Offered(queue'[p]) = {}
      PROVE  EndsDrained'
  BY <1>0, <1>2 DEF EndsDrained
<1>3. ASSUME NEW p \in Procs,
             \/ BeginRead(p) \/ Preflight(p) \/ Acquire(p) \/ Open(p) \/ StartTask(p) \/ RecordAdvance(p)
             \/ Refuse(p) \/ OpenFails(p) \/ Close(p) \/ Die(p) \/ DieWriting(p) \/ Finish(p) \/ Report(p)
             \/ \E t \in Tasks : FenceVerified(p, t)
      PROVE  EndsDrained'
  BY <1>0, <1>2, <1>3 DEF BeginRead, Preflight, Acquire, Open, StartTask, RecordAdvance, Refuse, OpenFails,
                          Close, Die, DieWriting, Release, Forget, Finish, Report, FenceVerified
<1>4. ASSUME NEW p \in Procs, Cancel(p) \/ (\E t \in Tasks : FenceViolated(p, t)) PROVE EndsDrained'
  BY <1>0, <1>2, <1>4 DEF Cancel, FenceViolated, Halt
<1>5. ASSUME NEW p \in Procs, Drained(p) PROVE EndsDrained'
  <2>1. queue' = queue /\ Offered(queue[p]) = {}
    BY <1>5 DEF Drained
  <2> QED BY <1>2, <2>1
<1>6. ASSUME NEW p \in Procs, RecordGate(p) PROVE EndsDrained'
  <2>1. pc'[p] = Onward(cur[p].task, queue[p], stop[p]) /\ stop' = stop
    BY <1>0, <1>6 DEF RecordGate
  <2>2. pc'[p] = "finishing" => stop'[p] # "none"
    BY <2>1 DEF Onward
  <2> QED BY <1>2, <2>2
<1>7. ASSUME NEW p \in Procs, Conclude(p) \/ Overrun(p) PROVE EndsDrained'
  <2>0. PICK k \in {"succeeded", "resumed", "failed", "held"} : \E z : Settles(p, k, z)
    BY <1>7, ConcludeSettles
  <2>1. PICK z : Settles(p, k, z)
    BY <2>0
  <2> QED BY <1>2, <2>1 DEF Settles
<1>8. ASSUME NEW p \in Procs, StageCommits(p) PROVE EndsDrained'
  BY <1>1, <1>8 DEF StageCommits
<1>9. CASE Outsider
  BY <1>1, <1>9 DEF Outsider
<1>10. CASE UNCHANGED vars
  BY <1>1, <1>10 DEF vars
<1> QED BY <1>3, <1>4, <1>5, <1>6, <1>7, <1>8, <1>9, <1>10 DEF Next, Work

ProofInv ==
    HeadIsTop /\ CountsMirrored /\ EvidenceMirrored /\ EvidenceIsNotAhead /\ VerdictsAnswered /\ EndsDrained

\* A process that finds its run completed has every task done and every required
\* gate passed at the revision its fence guards, with no verdict to the contrary.
LEMMA FinishProves ==
    ASSUME ~DiskFaults, RunInv, NeedsInv, ProofInv, NEW p \in Procs,
           pc[p] = "finishing", OutcomeOf(p) = "completed"
    PROVE  /\ led.succeeded = Tasks
           /\ fence[p].head \in 1 .. Top
           /\ Allowed(led.gates, fence[p].head)
           /\ \A v \in verdicts :
                 (v.gate \in RequiredGates /\ v.ev.target = fence[p].head) => v.ev.result = "pass"
<1>1. /\ stop[p] = "none" /\ InState(p, "failed") = {} /\ InState(p, "held") = {}
      /\ Allowed(evid[p], fence[p].head)
  <2>1. stop[p] \in Stops
    BY DEF RunInv, TypeOK
  <2>2. stop[p] = "none"
    BY <2>1 DEF OutcomeOf, Stops
  <2> QED BY <2>2 DEF OutcomeOf
<1>2. Sound(queue[p]) /\ Offered(queue[p]) = {}
  BY <1>1 DEF ProofInv, CountsMirrored, EndsDrained, Running
<1>3. \A t \in Tasks : queue[p].state[t] = "succeeded"
  <2>1. \A t \in Tasks : queue[p].state[t] # "pending"
    BY <1>2, PendingMeansOffered
  <2>2. \A t \in Tasks : queue[p].state[t] \in TaskStates
    BY <1>2 DEF Sound, Queues
  <2> QED BY <1>1, <2>1, <2>2 DEF InState, TaskStates
<1>4. led.succeeded = Tasks
  <2>1. led.succeeded \subseteq Tasks
    BY RunAssumption DEF RunInv, TypeOK, ResumeStates, LedgerTasks
  <2> QED BY <1>3, <2>1 DEF NeedsInv, Backed, Running
<1>5. evid[p] = led.gates /\ fence[p].head \in 1 .. Top
  BY DEF ProofInv, EvidenceMirrored, EvidenceIsNotAhead, UpTo, Running
<1>6. ASSUME NEW v \in verdicts, v.gate \in RequiredGates, v.ev.target = fence[p].head
      PROVE  v.ev.result = "pass"
  <2>1. led.gates[v.gate].result = "pass" /\ led.gates[v.gate].target = fence[p].head
    BY <1>1, <1>5, <1>6 DEF Allowed, Certifies
  <2>2. Severity(v.ev.result) <= Severity("pass")
    BY <1>6, <2>1 DEF ProofInv, VerdictsAnswered, Answers
  <2>3. v.ev.result \in Results
    BY DEF RunInv, TypeOK, Evidence
  <2> QED BY <2>2, <2>3 DEF Severity, Results
<1> QED BY <1>1, <1>4, <1>5, <1>6

\* A completion is recorded with its proof, and keeps it.
LEMMA CompletedNext ==
    OneAfterAnother /\ ~DiskFaults /\ RunInv /\ NeedsInv /\ EndInv /\ ProofInv /\ CompletedIsProved /\ [Next]_vars
        => CompletedIsProved'
<1> SUFFICES ASSUME OneAfterAnother, ~DiskFaults, RunInv, NeedsInv, EndInv, ProofInv, CompletedIsProved,
                    [Next]_vars, led'.outcome = "completed"
             PROVE  /\ led'.succeeded = Tasks
                    /\ \E h \in 1 .. Top' :
                          /\ Allowed(led'.gates, h)
                          /\ \A v \in verdicts' :
                                (v.gate \in RequiredGates /\ v.ev.target = h) => v.ev.result = "pass"
  BY DEF CompletedIsProved, Allowed, Certifies
<1> USE DEF Goto, At
<1>0. Top' >= Top /\ Top \in Nat /\ Top' \in Nat
  <2>1. revs \in Seq(Origins) /\ revs' \in Seq(Origins)
    BY RunInvNext DEF RunInv, TypeOK
  <2>2. Top \in Nat /\ Top' \in Nat
    BY <2>1 DEF Top
  <2> QED BY <2>2, HeadNext DEF ProofInv
<1>1. CASE led.outcome = "completed"
  <2>1. led' = led
    BY <1>1, CompletedStays
  <2>2. \A p \in Procs : pc[p] \notin Running
    BY <1>1 DEF EndInv
  <2>3. verdicts' = verdicts
    BY <2>2, EvidenceKept DEF RecordGate, Running
  <2>4. PICK h \in 1 .. Top :
              /\ Allowed(led.gates, h)
              /\ \A v \in verdicts : (v.gate \in RequiredGates /\ v.ev.target = h) => v.ev.result = "pass"
    BY <1>1 DEF CompletedIsProved
  <2>5. h \in 1 .. Top' /\ led.succeeded = Tasks
    BY <1>0, <1>1 DEF CompletedIsProved
  <2> QED BY <2>1, <2>3, <2>4, <2>5
<1>2. CASE led.outcome # "completed"
  <2>1. PICK p \in Procs : Finish(p)
    BY <1>2, StepKinds DEF shared, BeginRead, Preflight, Acquire, Open, FenceVerified, RecordAdvance, Report, Carries
  <2> DEFINE r == [kind |-> "finished", outcome |-> OutcomeOf(p)]
  <2>2. led' = Apply(led, r) /\ pc[p] = "finishing" /\ UNCHANGED <<revs, verdicts>>
    BY FinishNotes, <2>1 DEF Noted
  <2>3. OutcomeOf(p) = "completed" /\ led'.succeeded = led.succeeded /\ led'.gates = led.gates
    <3>1. led \in ResumeStates
      BY DEF RunInv, TypeOK
    <3>2. led' = [led EXCEPT !.outcome = OutcomeOf(p)]
      BY <2>2 DEF Apply
    <3> HIDE DEF r
    <3> QED BY <3>1, <3>2 DEF ResumeStates
  <2> HIDE DEF r
  <2>4. /\ led.succeeded = Tasks
        /\ fence[p].head \in 1 .. Top
        /\ Allowed(led.gates, fence[p].head)
        /\ \A v \in verdicts :
              (v.gate \in RequiredGates /\ v.ev.target = fence[p].head) => v.ev.result = "pass"
    BY <2>2, <2>3, FinishProves
  <2>5. fence[p].head \in 1 .. Top'
    BY <1>0, <2>4
  <2> QED BY <2>2, <2>3, <2>4, <2>5
<1> QED BY <1>1, <1>2

\* A run that says it completed can prove it from its journal alone, for every
\* plan and packet and whatever outsiders do to the worktree, with processes one
\* after another and a disk that keeps what is appended: every task is durably
\* done, and at one revision every required gate has durable passing evidence that
\* no process ever contradicted.
THEOREM CompletionsAreProved == (OneAfterAnother /\ ~DiskFaults) => (Spec => []CompletedIsProved)
<1> SUFFICES ASSUME OneAfterAnother, ~DiskFaults PROVE Spec => []CompletedIsProved
  OBVIOUS
<1> DEFINE Inv == RunInv /\ SoloInv /\ NeedsInv /\ EndInv /\ ProofInv /\ CompletedIsProved
<1>1. Init => Inv
  <2> SUFFICES ASSUME Init PROVE Inv
    OBVIOUS
  <2>1. RunInv /\ SoloInv /\ EndInv /\ CountsMirrored /\ EvidenceMirrored
    BY RunInvInit, SoloInit, EndInit, MirrorInit
  <2>2. NeedsInv /\ VerdictsAnswered /\ EndsDrained
    BY DEF Init, NeedsInv, Running, VerdictsAnswered, EndsDrained
  <2>3. Top = 1 /\ HeadIsTop
    BY DEF Init, HeadIsTop, Top
  <2>4. \A g \in Gates : led.gates[g].target = 0
    BY DEF Init, EmptyResume, EmptyLedger, NoEvidence
  <2>5. EvidenceIsNotAhead
    BY <2>3, <2>4 DEF Init, EvidenceIsNotAhead, UpTo, Running
  <2>6. CompletedIsProved
    BY DEF Init, EmptyResume, CompletedIsProved
  <2> QED BY <2>1, <2>2, <2>3, <2>5, <2>6 DEF ProofInv
<1>2. Inv /\ [Next]_vars => Inv'
  <2> SUFFICES ASSUME Inv, [Next]_vars PROVE Inv'
    OBVIOUS
  <2>1. RunInv' /\ SoloInv' /\ NeedsInv' /\ EndInv'
    BY RunInvNext, SoloNext, NeedsNext, EndNext
  <2>2. ProofInv'
    BY HeadNext, CountsNext, EvidenceNext, NotAheadNext, AnsweredNext, DrainedNext DEF ProofInv
  <2>3. CompletedIsProved'
    BY CompletedNext
  <2> QED BY <2>1, <2>2, <2>3
<1>3. Inv => CompletedIsProved
  OBVIOUS
<1> QED BY <1>1, <1>2, <1>3, PTL DEF Spec

=============================================================================
