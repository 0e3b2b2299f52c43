---------------------------- MODULE UnattendedRun ----------------------------
(***************************************************************************)
(* A run of internal/unattended from Begin to Close: the processes started *)
(* for one run id, each reading the journal, probing, claiming the         *)
(* worktree, restoring its queue, driving tasks behind the fence,          *)
(* recording what they come to and ending the run.                         *)
(*                                                                         *)
(* led is the journal as Replay reads it; a step that appends a record     *)
(* folds it into led, unless the record cannot be read back: a write may   *)
(* stop inside its line, and the next record then joins that line.         *)
(* Between two appends, and inside one, a process may die.  The worktree   *)
(* may be moved by the run's own stages and by outsiders.                  *)
(***************************************************************************)
EXTENDS WorkQueue, ControllerResult, RunLedger, WorktreeFence, Sequences

CONSTANTS
    Procs,       \* the processes started for this run id
    Nobody,
    Mutates,     \* the tasks that change the worktree
    Supervised,  \* the tasks that declare a structured result
    AuthBounded, \* the bounded tasks an authentication would unblock
    MayCancel,   \* whether the run's context may be canceled
    MaxFaults,   \* bound on the writes that fail
    MaxBegins,   \* bound on the processes started
    MaxRev,      \* bound on the revisions committed
    MaxOutside   \* bound on what outsiders do to the worktree

ASSUME RunAssumption ==
    /\ DOMAIN QAGate = Tasks
    /\ Nobody \notin Procs
    /\ Mutates \subseteq Tasks
    /\ Supervised \subseteq Tasks
    /\ AuthBounded \subseteq Bounded
    /\ MayCancel \in BOOLEAN
    /\ MaxFaults \in Nat
    /\ MaxBegins \in Nat
    /\ MaxRev \in Nat \ {0}
    /\ MaxOutside \in Nat

VARIABLES
    \* durable, shared
    led,        \* what the journal says of the run
    disk,       \* the last line of the journal file, and the writes that failed
    completion, \* the outcome in completion.json, or "none"
    owner,      \* whom the lock's owner record names
    holder,     \* who has the lock
    repo,       \* the worktree: its branch, its head, whether git can read it
    revs,       \* where each revision came from, oldest first
    \* of each process
    pc,
    seen,       \* what Begin read before it claimed the worktree
    bounds,     \* the tasks preflight found behind a boundary
    queue,
    evid,       \* the evidence ledger in memory
    fence,
    cur,        \* the task in hand and the gate result to record
    stop,       \* why the run leaves its loop early
    \* history and bounds
    verdicts,   \* every gate verdict the run has recorded
    begins,
    outside

shared == <<led, disk, completion, owner, holder, repo, revs>>

local == <<pc, seen, bounds, queue, evid, fence, cur, stop>>

vars == <<shared, local, verdicts, begins, outside>>

-----------------------------------------------------------------------------
Locations ==
    {"down", "read", "probed", "claimed", "open", "loop", "checked", "executing",
     "overrun", "gate", "advance", "finishing", "reporting", "closing"}

Stops == {"none", "canceled", "fence", "class", "auth", "human"}

Branches == {"main", "other"}

\* A revision is of the base, of a stage of the run, or an outsider's: made
\* inside the window of a mutating stage, or astray.
Origins == {"base", "stage", "inside", "stray"}

Top == Len(revs)

Repos == [branch : Branches, head : Nat, readable : BOOLEAN]

NoSight == [led |-> EmptyResume, repo |-> [branch |-> "main", head |-> 0, readable |-> TRUE]]

\* The journal file ends with a whole line; or with a line a write stopped in; or
\* with one that was joined to such a line, so that it parses as nothing; or it
\* has a malformed line before its last, which ReadJournal refuses.
Tails == {"ended", "torn", "joined", "corrupt"}

\* Whether a write may fail at all.
DiskFaults == MaxFaults > 0

Idle == [task |-> 0, due |-> "none"]

Blank ==
    [queue |-> NewQueue({}), fence |-> TakeFence(NoSight.repo, Nobody)]

\* The journal's counts stay naturals and every process's queue, fence and ledger
\* stay well formed, whichever appends are lost (Replay, Restore).
TypeOK ==
    /\ led \in ResumeStates
    /\ disk \in [tail : Tails, faults : 0 .. MaxFaults]
    /\ completion \in RunOutcomes \cup {"none"}
    /\ owner \in Procs \cup {Nobody}
    /\ holder \in Procs \cup {Nobody}
    /\ repo \in Repos
    /\ revs \in Seq(Origins)
    /\ pc \in [Procs -> Locations]
    /\ seen \in [Procs -> [led : ResumeStates, repo : Repos]]
    /\ bounds \in [Procs -> SUBSET Bounded]
    /\ queue \in [Procs -> Queues]
    /\ evid \in [Procs -> Ledgers]
    /\ fence \in [Procs -> [run : Procs \cup {Nobody}, branch : Branches, head : Nat]]
    /\ cur \in [Procs -> [task : Tasks \cup {0}, due : Results \cup {"none"}]]
    /\ stop \in [Procs -> Stops]
    /\ verdicts \subseteq [gate : Gates, ev : Evidence]
    /\ begins \in Nat
    /\ outside \in Nat

Init ==
    /\ led = EmptyResume
    /\ disk = [tail |-> "ended", faults |-> 0]
    /\ completion = "none"
    /\ owner = Nobody
    /\ holder = Nobody
    /\ repo = [branch |-> "main", head |-> 1, readable |-> TRUE]
    /\ revs = <<"base">>
    /\ pc = [p \in Procs |-> "down"]
    /\ seen = [p \in Procs |-> NoSight]
    /\ bounds = [p \in Procs |-> {}]
    /\ queue = [p \in Procs |-> Blank.queue]
    /\ evid = [p \in Procs |-> EmptyLedger]
    /\ fence = [p \in Procs |-> Blank.fence]
    /\ cur = [p \in Procs |-> Idle]
    /\ stop = [p \in Procs |-> "none"]
    /\ verdicts = {}
    /\ begins = 0
    /\ outside = 0

At(p, l) == pc[p] = l

Goto(p, l) == pc' = [pc EXCEPT ![p] = l]

-----------------------------------------------------------------------------
(* Journal.Append, and what it leaves at the end of the file                *)

\* A line written whole.
Ended(tail) ==
    CASE tail = "ended" -> "ended"
      [] tail = "torn"  -> "joined"
      [] tail \in {"joined", "corrupt"} -> "corrupt"

\* A write that fails before its first byte, or inside its line.
Broken(tail) ==
    CASE tail = "ended"  -> {"ended", "torn"}
      [] tail = "joined" -> {"joined", "corrupt"}
      [] tail \in {"torn", "corrupt"} -> {tail}

Written(d) == [d EXCEPT !.tail = Ended(@)]

\* What the file may be like after a write that failed.
Failures(d) ==
    {[tail |-> u, faults |-> d.faults + 1] : u \in IF d.faults < MaxFaults THEN Broken(d.tail) ELSE {}}

Appends(d) == {Written(d)} \cup Failures(d)

\* A record that Replay passes over, its error ignored.
Remark == disk' \in Appends(disk)

\* The append that made d of the journal can be read back.
ReadBack(d) == disk.tail = "ended" /\ d = disk

\* Record r was appended, and d is the file it left.
Recorded(r, d) ==
    \/ ReadBack(d) /\ led' = Apply(led, r)
    \/ DiskFaults /\ ~ReadBack(d) /\ led' = led

\* An append whose error the runner ignores.
Log(r) == \E d \in Appends(disk) : Recorded(r, d) /\ disk' = d

\* The same, and a record that Replay passes over behind it.
LogAndRemark(r) == \E d \in Appends(disk) : Recorded(r, d) /\ disk' \in Appends(d)

\* The lock goes back to the kernel, and with it everything the process knew.
Forget(p) ==
    /\ Goto(p, "down")
    /\ holder' = IF holder = p THEN Nobody ELSE holder
    /\ seen' = [seen EXCEPT ![p] = NoSight]
    /\ bounds' = [bounds EXCEPT ![p] = {}]
    /\ queue' = [queue EXCEPT ![p] = Blank.queue]
    /\ evid' = [evid EXCEPT ![p] = EmptyLedger]
    /\ fence' = [fence EXCEPT ![p] = Blank.fence]
    /\ cur' = [cur EXCEPT ![p] = Idle]
    /\ stop' = [stop EXCEPT ![p] = "none"]

\* Lock.Release removes the owner record only while it is this process's.
Release(p) ==
    /\ owner' = IF owner = p THEN Nobody ELSE owner
    /\ Forget(p)
    /\ UNCHANGED <<led, completion, repo, revs, verdicts, begins, outside>>

-----------------------------------------------------------------------------
(* Begin: the journal is read first, the worktree is claimed last.          *)

\* ReadJournal and Replay.  A journal that is corrupt is refused, and so is a run
\* that recorded its completion.
BeginRead(p) ==
    /\ At(p, "down")
    /\ begins < MaxBegins
    /\ disk.tail # "corrupt"
    /\ led.outcome # "completed"
    /\ begins' = begins + 1
    /\ seen' = [seen EXCEPT ![p].led = led]
    /\ Goto(p, "read")
    /\ UNCHANGED <<shared, bounds, queue, evid, fence, cur, stop, verdicts, outside>>

\* The ownership and competing-writer checks of preflight.
WorktreeIsOurs == repo.readable /\ repo.branch = "main" /\ repo.head # 0 /\ holder = Nobody

Preflight(p) ==
    /\ At(p, "read")
    /\ WorktreeIsOurs
    /\ \E B \in SUBSET Bounded : bounds' = [bounds EXCEPT ![p] = B]
    /\ seen' = [seen EXCEPT ![p].repo = repo]
    /\ Goto(p, "probed")
    /\ UNCHANGED <<shared, queue, evid, fence, cur, stop, verdicts, begins, outside>>

\* Preflight found a check that fails, one of those or any other, or the lock is held.
Refuse(p) ==
    /\ At(p, "read") \/ (At(p, "probed") /\ holder # Nobody)
    /\ Forget(p)
    /\ UNCHANGED <<led, disk, completion, owner, repo, revs, verdicts, begins, outside>>

\* Mutant: the probe's answer is taken for the lock.
AcquireUnlocked(p) ==
    /\ At(p, "probed")
    /\ holder' = p
    /\ owner' = p
    /\ Goto(p, "claimed")
    /\ UNCHANGED <<led, disk, completion, repo, revs, seen, bounds, queue, evid, fence, cur, stop,
                   verdicts, begins, outside>>

Acquire(p) ==
    /\ At(p, "probed")
    /\ holder = Nobody
    /\ holder' = p
    /\ owner' = p
    /\ Goto(p, "claimed")
    /\ UNCHANGED <<led, disk, completion, repo, revs, seen, bounds, queue, evid, fence, cur, stop,
                   verdicts, begins, outside>>

\* The queue of a session that has seen rs; the journal is folded in only if it
\* says that the run has been here before.
Opened(B, rs) == IF Resumed(rs) THEN Restore(NewQueue(B), rs) ELSE NewQueue(B)

\* TakeFence, NewQueue, Restore and the Runner, from what Begin saw before it
\* held the lock, once OpenJournal has read the file again.  The four or five
\* records written here and first in Run mean nothing to Replay.
Open(p) ==
    /\ At(p, "claimed")
    /\ disk.tail # "corrupt"
    /\ disk' = Written(Written(disk))
    /\ fence' = [fence EXCEPT ![p] = TakeFence(seen[p].repo, p)]
    /\ queue' = [queue EXCEPT ![p] = Opened(bounds[p], seen[p].led)]
    /\ evid' = [evid EXCEPT ![p] = seen[p].led.gates]
    /\ seen' = [seen EXCEPT ![p] = NoSight]
    /\ Goto(p, "loop")
    /\ UNCHANGED <<led, completion, owner, holder, repo, revs, bounds, cur, stop, verdicts, begins,
                   outside>>

\* The journal has become corrupt, or opening it or writing one of the first
\* records failed.
OpenFails(p) ==
    /\ At(p, "claimed")
    /\ \/ disk.tail = "corrupt" /\ UNCHANGED disk
       \/ disk' \in Failures(disk) \cup Failures(Written(disk)) \cup Failures(Written(Written(disk)))
    /\ Release(p)

-----------------------------------------------------------------------------
(* Run: the loop, the fence and the start of a task                         *)

Halt(p, why) == stop' = [stop EXCEPT ![p] = why]

Cancel(p) ==
    /\ MayCancel
    /\ At(p, "loop")
    /\ Halt(p, "canceled")
    /\ Goto(p, "finishing")
    /\ UNCHANGED <<shared, seen, bounds, queue, evid, fence, cur, verdicts, begins, outside>>

Drained(p) ==
    /\ At(p, "loop")
    /\ Offered(queue[p]) = {}
    /\ Goto(p, "finishing")
    /\ UNCHANGED <<shared, seen, bounds, queue, evid, fence, cur, stop, verdicts, begins, outside>>

\* Mutant: the fence is checked once, when it is taken.
FenceHoldsUnchecked(p, t) == TRUE

FenceHolds(p, t) == t \in Mutates => Check(fence[p], owner, repo) = "intact"

\* Mutant: the task is left pending, to be tried again later.
FenceViolatedWaits(p, t) ==
    /\ At(p, "loop")
    /\ t \in Offered(queue[p])
    /\ ~FenceHolds(p, t)
    /\ UNCHANGED vars

FenceViolated(p, t) ==
    /\ At(p, "loop")
    /\ t \in Offered(queue[p])
    /\ ~FenceHolds(p, t)
    /\ queue' = [queue EXCEPT ![p] = Hold(@, t)]
    /\ Halt(p, "fence")
    /\ Goto(p, "finishing")
    /\ Remark
    /\ UNCHANGED <<led, completion, owner, holder, repo, revs, seen, bounds, evid, fence, cur, verdicts, begins, outside>>

FenceVerified(p, t) ==
    /\ At(p, "loop")
    /\ t \in Offered(queue[p])
    /\ FenceHolds(p, t)
    /\ cur' = [cur EXCEPT ![p] = [Idle EXCEPT !.task = t]]
    /\ Goto(p, "checked")
    /\ IF t \in Mutates THEN Remark ELSE UNCHANGED disk
    /\ UNCHANGED <<led, completion, owner, holder, repo, revs, seen, bounds, queue, evid, fence, stop,
                   verdicts, begins, outside>>

StartTask(p) ==
    /\ At(p, "checked")
    /\ Log([kind |-> "started", task |-> cur[p].task])
    /\ Goto(p, "executing")
    /\ UNCHANGED <<completion, owner, holder, repo, revs, seen, bounds, queue, evid, fence, cur, stop,
                   verdicts, begins, outside>>

\* A mutating stage commits, any number of times while it executes.
StageCommits(p) ==
    /\ At(p, "executing")
    /\ cur[p].task \in Mutates
    /\ Top < MaxRev
    /\ revs' = revs \o <<"stage">>
    /\ repo' = [repo EXCEPT !.head = Top + 1]
    /\ UNCHANGED <<led, disk, completion, owner, holder, local, verdicts, begins, outside>>

-----------------------------------------------------------------------------
(* What the attempt came to                                                 *)

\* Where the runner goes once it has recorded everything about task t.
Onward(t, q, why) ==
    IF q.state[t] = "succeeded" /\ t \in Mutates THEN "advance"
    ELSE IF why # "none" THEN "finishing"
    ELSE "loop"

Observed(p, result) == [result |-> result, target |-> fence[p].head]

\* recordGateEvidence: the verdict is bound to the fence's head and merged in
\* memory here; the record follows.  A result of "none" is no verdict.
NoteGate(p, result, q, why) ==
    LET t == cur[p].task
        g == QAGate[t]
    IN  IF g = NoGate \/ result = "none"
        THEN /\ Goto(p, Onward(t, q, why))
             /\ cur' = [cur EXCEPT ![p] = Idle]
             /\ UNCHANGED evid
        ELSE /\ evid' = [evid EXCEPT ![p][g] = MergeEvidence(@, Observed(p, result))]
             /\ cur' = [cur EXCEPT ![p].due = result]
             /\ Goto(p, "gate")

\* The task in hand has the record r written and the queue q given to it.  A
\* retry is scheduled in a record of its own, unless the failure stops the run.
Settle(p, r, q) ==
    /\ IF r = "failed" /\ q.state[cur[p].task] = "pending" /\ stop'[p] = "none"
       THEN LogAndRemark([kind |-> r, task |-> cur[p].task])
       ELSE Log([kind |-> r, task |-> cur[p].task])
    /\ queue' = [queue EXCEPT ![p] = q]
    /\ UNCHANGED <<completion, owner, holder, repo, revs, seen, bounds, fence, verdicts, begins, outside>>

Succeed(p, v) ==
    LET q == RecordSuccess(queue[p], cur[p].task)
    IN  /\ v.disposition = "succeeded"
        /\ Settle(p, "succeeded", q)
        /\ NoteGate(p, v.gate, q, stop[p])
        /\ UNCHANGED stop

\* driveAgain
Resume(p, v) ==
    LET q == RecordResume(queue[p], cur[p].task)
    IN  /\ Resumable(v)
        /\ Settle(p, "resumed", q)
        /\ IF MayResume(q, cur[p].task)
           THEN Goto(p, "loop") /\ cur' = [cur EXCEPT ![p] = Idle]
           ELSE Goto(p, "overrun") /\ UNCHANGED cur
        /\ UNCHANGED <<evid, stop>>

Overrun(p) ==
    LET q == Hold(queue[p], cur[p].task)
    IN  /\ At(p, "overrun")
        /\ Settle(p, "held", q)
        /\ NoteGate(p, "error", q, stop[p])
        /\ UNCHANGED stop

StopOnHumanBoundary(p, v) ==
    LET q   == Hold(queue[p], cur[p].task)
        why == IF v.class = "auth" THEN "auth" ELSE "human"
    IN  /\ v.disposition = "human-blocked"
        /\ Settle(p, "held", q)
        /\ Halt(p, why)
        /\ NoteGate(p, v.gate, q, why)

\* Retry and fail-safe.  A gate has a verdict only once the queue is finished
\* with its task.
Fail(p, v) ==
    LET t   == cur[p].task
        q   == RecordFailure(queue[p], t, v.class)
        why == IF PolicyFor(v.class).stopsRun THEN "class" ELSE "none"
    IN  /\ v.disposition \in {"retry", "fail-safe"}
        /\ Halt(p, why)
        /\ Settle(p, "failed", q)
        /\ NoteGate(p, IF q.state[t] = "failed" THEN v.gate ELSE "none", q, why)

Conclude(p) ==
    /\ At(p, "executing")
    /\ \E o \in Outcomes[(cur[p].task \in Supervised)] :
          \/ Succeed(p, o.verdict)
          \/ Resume(p, o.verdict)
          \/ StopOnHumanBoundary(p, o.verdict)
          \/ Fail(p, o.verdict)

RecordGate(p) ==
    LET t == cur[p].task
    IN  /\ At(p, "gate")
        /\ Log([kind |-> "gate", gate |-> QAGate[t], ev |-> Observed(p, cur[p].due)])
        /\ verdicts' = verdicts \cup {[gate |-> QAGate[t], ev |-> Observed(p, cur[p].due)]}
        /\ cur' = [cur EXCEPT ![p] = Idle]
        /\ Goto(p, Onward(t, queue[p], stop[p]))
        /\ UNCHANGED <<completion, owner, holder, repo, revs, seen, bounds, queue, evid, fence, stop,
                       begins, outside>>

RecordAdvance(p) ==
    /\ At(p, "advance")
    /\ fence' = [fence EXCEPT ![p] = Advance(@, owner, repo)]
    /\ Goto(p, "loop")
    /\ Remark
    /\ UNCHANGED <<led, completion, owner, holder, repo, revs, seen, bounds, queue, evid, cur, stop,
                   verdicts, begins, outside>>

-----------------------------------------------------------------------------
(* The end of a run                                                         *)

InState(p, s) == {t \in Tasks : queue[p].state[t] = s}

\* finish
OutcomeOf(p) ==
    CASE stop[p] = "auth"  -> "awaiting-auth"
      [] stop[p] = "human" -> "blocked-human"
      [] stop[p] \in {"canceled", "fence", "class"} -> "failed"
      [] stop[p] = "none"  ->
            IF InState(p, "failed") # {} THEN "failed"
            ELSE IF InState(p, "held") \cap bounds[p] \cap AuthBounded # {} THEN "awaiting-auth"
            ELSE IF InState(p, "held") # {} THEN "blocked-human"
            ELSE IF ~Allowed(evid[p], fence[p].head) THEN "failed"
            ELSE "completed"

\* Mutant: the error of this append is ignored like the others.
FinishHeedless(p) ==
    /\ At(p, "finishing")
    /\ Log([kind |-> "finished", outcome |-> OutcomeOf(p)])
    /\ Goto(p, "reporting")
    /\ UNCHANGED <<completion, owner, holder, repo, revs, seen, bounds, queue, evid, fence, cur, stop,
                   verdicts, begins, outside>>

\* The one append of the loop whose error is not ignored.  A record that was
\* written and could not be synced is an error too.
Finish(p) ==
    LET r == [kind |-> "finished", outcome |-> OutcomeOf(p)]
    IN  /\ At(p, "finishing")
        /\ \/ /\ Recorded(r, Written(disk))
              /\ disk' = Written(disk)
              /\ Goto(p, "reporting")
           \/ /\ disk.faults < MaxFaults
              /\ Recorded(r, Written(disk))
              /\ disk' = [Written(disk) EXCEPT !.faults = @ + 1]
              /\ Goto(p, "closing")
           \/ /\ disk' \in Failures(disk)
              /\ led' = led
              /\ Goto(p, "closing")
        /\ UNCHANGED <<completion, owner, holder, repo, revs, seen, bounds, queue, evid, fence, cur,
                       stop, verdicts, begins, outside>>

\* WriteCompletion
Report(p) ==
    /\ At(p, "reporting")
    /\ \/ completion' = OutcomeOf(p) /\ UNCHANGED disk
       \/ /\ disk.faults < MaxFaults
          /\ disk' = [disk EXCEPT !.faults = @ + 1]
          /\ UNCHANGED completion
    /\ Goto(p, "closing")
    /\ UNCHANGED <<led, owner, holder, repo, revs, seen, bounds, queue, evid, fence, cur, stop,
                   verdicts, begins, outside>>

Close(p) == At(p, "closing") /\ Release(p) /\ UNCHANGED disk

-----------------------------------------------------------------------------
(* What happens to a run                                                    *)

\* The process dies; its owner record stays behind.
Die(p) ==
    /\ ~At(p, "down")
    /\ Forget(p)
    /\ UNCHANGED <<led, disk, completion, owner, repo, revs, verdicts, begins, outside>>

\* Where a process writes to the journal.
Writing == {"claimed", "loop", "checked", "executing", "overrun", "gate", "advance", "finishing"}

\* It dies in the middle of a record.
DieWriting(p) ==
    /\ pc[p] \in Writing
    /\ disk' \in Failures(disk)
    /\ Forget(p)
    /\ UNCHANGED <<led, completion, owner, repo, revs, verdicts, begins, outside>>

\* A mutating stage is between its fence check and its recorded advance.
StageUnderWay ==
    \E p \in Procs :
        \/ pc[p] = "advance"
        \/ pc[p] \in {"checked", "executing", "gate"} /\ cur[p].task \in Mutates

\* Somebody else commits in the worktree, or checks out another branch, or git
\* cannot read it for a while, or a person clears the owner record.
Outsider ==
    /\ outside < MaxOutside
    /\ outside' = outside + 1
    /\ \/ /\ Top < MaxRev
          /\ revs' = revs \o <<IF StageUnderWay THEN "inside" ELSE "stray">>
          /\ repo' = [repo EXCEPT !.head = Top + 1]
          /\ UNCHANGED owner
       \/ /\ \E b \in Branches \ {repo.branch} : repo' = [repo EXCEPT !.branch = b]
          /\ UNCHANGED <<revs, owner>>
       \/ /\ repo' = [repo EXCEPT !.readable = ~@]
          /\ UNCHANGED <<revs, owner>>
       \/ /\ owner # Nobody
          /\ owner' = Nobody
          /\ UNCHANGED <<repo, revs>>
    /\ UNCHANGED <<led, disk, completion, holder, local, verdicts, begins>>

\* What a process does of its own accord.
Work(p) ==
    \/ Preflight(p) \/ Refuse(p) \/ Acquire(p) \/ Open(p) \/ OpenFails(p)
    \/ Drained(p) \/ StartTask(p) \/ Conclude(p) \/ Overrun(p) \/ RecordGate(p)
    \/ \E t \in Tasks : FenceViolated(p, t) \/ FenceVerified(p, t)
    \/ RecordAdvance(p) \/ Finish(p) \/ Report(p) \/ Close(p)

Next ==
    \/ \E p \in Procs : BeginRead(p) \/ Work(p) \/ Cancel(p) \/ StageCommits(p)
                       \/ Die(p) \/ DieWriting(p)
    \/ Outsider

Spec == Init /\ [][Next]_vars /\ \A p \in Procs : WF_vars(Work(p))

-----------------------------------------------------------------------------
(* Properties                                                               *)

Running == {"loop", "checked", "executing", "overrun", "gate", "advance", "finishing"}

\* Work that is durably done is never done again, across crashes and resumes
\* (ResumeState.Succeeded: "They are never repeated").
NeverRepeated ==
    \A p \in Procs : pc[p] = "executing" => cur[p].task \notin led.succeeded

\* A run that says it completed can prove it from its journal alone: every task
\* is durably done, every required gate has durable passing evidence for one and
\* the same revision, and no process of the run ever saw one of them do anything
\* but pass there (finish, MergeEvidence: "a failure stands until the code changes").
CompletedIsProved ==
    led.outcome = "completed" =>
        /\ led.succeeded = Tasks
        /\ \E h \in 1 .. Top :
              /\ Allowed(led.gates, h)
              /\ \A v \in verdicts :
                    (v.gate \in RequiredGates /\ v.ev.target = h) => v.ev.result = "pass"

\* A recorded completion is history: no later process of the run adds to it
\* (ErrRunAlreadyCompleted).
CompletedIsFinal ==
    [][led.outcome = "completed" => led' = led]_vars

Announces == completion' # completion /\ completion' = "completed"

\* completion.json announces a completion only when the journal holds it or its
\* reader is told that it may not, by a malformed line: whatever writes failed or
\* stopped half-way, and whatever other processes of the run did (Run: RunFinished
\* is appended before WriteCompletion, and its error is not ignored).
CompletionIsBacked ==
    [][Announces => led.outcome = "completed" \/ disk.tail # "ended"]_vars

\* Between tasks a crash costs nothing: a process restored from the journal now
\* has the same done tasks, the same pending ones and the budgets they have left,
\* and the same evidence, as the process it replaces (Restore, Replay).
ResumeIsExact ==
    \A p \in Procs : pc[p] = "loop" =>
        LET r == Opened(bounds[p], led)
        IN  /\ evid[p] = led.gates
            /\ \A t \in Tasks :
                  /\ r.state[t] = "succeeded" <=> queue[p].state[t] = "succeeded"
                  /\ queue[p].state[t] = "pending" =>
                        /\ r.state[t] = "pending"
                        /\ r.attempts[t] = queue[p].attempts[t]
                        /\ r.resumes[t] = queue[p].resumes[t]

\* However often the engine is restarted, no task is driven past its resume
\* budget and one (Restore: "the bound is durable").
ResumesBounded ==
    \A t \in Tasks : led.resumes[t] <= MaxResumes[t] + 1

\* A task starts only on top of work that is durably done, in whichever process
\* that work was done.
StartsOnDurableNeeds ==
    \A p \in Procs : pc[p] = "executing" => Needs[cur[p].task] \subseteq led.succeeded

\* Only one process of the run is past its claim at any time, whatever two
\* processes saw before they claimed.
OneRunner ==
    \A p, r \in Procs : (pc[p] \in Running /\ pc[r] \in Running) => p = r

\* A step that lets a mutating stage start finds branch and owner record as the
\* run declared them.
StartsAtHome ==
    \A p \in Procs :
        (pc[p] = "loop" /\ pc'[p] = "checked" /\ cur'[p].task \in Mutates)
            => repo.branch = "main" /\ owner = p

\* Every mutating stage of every process starts on the branch the run declared
\* and with the worktree still recorded as its own, whatever was done to either
\* since the run began (Assert, Check, RecordAuthorisedAdvance).
StagesStartAtHome == [][StartsAtHome]_vars

Absorbed(p, kinds) ==
    \E r \in fence[p].head + 1 .. fence'[p].head : revs[r] \in kinds

\* A step that advances the fence advances it over no stray commit.
NoStrayAbsorbed == \A p \in Procs : pc[p] = "advance" => ~Absorbed(p, {"stray"})

\* A commit an outsider makes while no mutating stage is under way never becomes
\* part of what the run calls its own: the fence does not advance over it.
StrayNeverAbsorbed == [][NoStrayAbsorbed]_vars

\* Every process that has begun its run ends it or dies: no chain of retries,
\* resumes and held work keeps it in its loop for ever.
RunEnds ==
    \A p \in Procs : pc[p] = "loop" ~> pc[p] = "down"

\* The attempts of a task are bounded by its budget over all the processes of a
\* run (ResumeState.Attempts: the count is kept so that "a resumed run continues
\* the retry budget", against "a crash loop that retries forever").
CrashLoopIsBounded ==
    \A t \in Tasks : MaxAttempts[t] > 0 => led.attempts[t] <= MaxAttempts[t]

=============================================================================
