----------------------------- MODULE NudgeQueue -----------------------------
(* The deferred-nudge queue of one session and the dependency wait it serves: *)
(* cmd/gc/cmd_nudge.go and internal/nudgequeue over the flock'd state.json,   *)
(* the shadow beads kept beside it, the controller's two wait phases of       *)
(* cmd/gc/cmd_wait.go, and the deliverers (pollers, hook drains, the          *)
(* supervisor's dispatcher), which are separate processes.  A transaction     *)
(* under the flock is one step; everything between two transactions of one    *)
(* process interleaves with all the others.  Deadlines are events: a lease    *)
(* lapses, a nudge expires, a retry falls due, a retention passes.            *)
EXTENDS Integers, Sequences, FiniteSets, FiniteSetsExt, Functions

CONSTANTS
    Plain,       \* nudges sent by commands, each with a fresh random id
    WaitNudge,   \* the nudge of the wait, with the id derived from the wait
    NoShadow,    \* plain nudges queued without a shadow (deferred submits)
    SameRef,     \* plain nudges of one (agent, source, reference)
    Cases,       \* what a session meets: wait, nudges sent, deliverers, epoch
    Workers,     \* the delivering processes
    MaxTries,    \* defaultQueuedNudgeMaxAttempts
    MaxLapses,   \* bound: leases that lapse
    MaxShadows,  \* bound: shadows made for the wait's nudge
    MaxEpoch,    \* bound: continuation epochs of the session
    MaxTrouble   \* bound: failing meetings with the bead store, late errors, deaths

Nudges == Plain \cup {WaitNudge}

ASSUME NudgeAssumption ==
    /\ WaitNudge \notin Plain
    /\ NoShadow \subseteq Plain /\ SameRef \subseteq Plain
    /\ Cases \subseteq [waits : BOOLEAN, sent : SUBSET Plain, crew : SUBSET Workers,
                         epoch : 1..MaxEpoch]
    /\ \A c \in Cases : c.waits => c.epoch = 1
    /\ {MaxTries, MaxLapses, MaxShadows, MaxEpoch, MaxTrouble} \subseteq Nat
    /\ IsFiniteSet(Workers)

VARIABLES
    q,        \* state.json: each nudge's bucket and item
    shadow,   \* each nudge's shadow beads, oldest first
    worker,   \* what each deliverer is doing
    sender,   \* where each plain nudge's enqueue command is
    tick,     \* where the controller is in its tick
    cancel,   \* where a cancel of the wait is
    wait, epoch,
    trouble,
    delivered, lapses, errors, posts   \* history; errors are the late ones

vars == <<q, shadow, worker, sender, tick, cancel, wait, epoch, trouble,
          delivered, lapses, errors, posts>>

\* An item that is in none of the buckets: "pending", "inflight", "dead".
Blank == [at |-> "none", due |-> FALSE, leased |-> FALSE, expired |-> FALSE,
          old |-> FALSE, tries |-> 0, err |-> "", bead |-> 0, epoch |-> 1]
NoWork == [pc |-> "idle", ids |-> {}, out |-> {}]
Unsaved == [pc |-> "idle", bead |-> 0, created |-> FALSE]

Live(it) == it.at \in {"pending", "inflight"}
IsTerminalState(s) == s \in {"injected", "expired", "failed", "superseded"}

Init ==
    /\ q = [i \in Nudges |-> Blank]
    /\ shadow = [i \in Nudges |-> << >>]
    /\ \E c \in Cases :
         /\ epoch = c.epoch
         /\ wait = IF c.waits THEN "ready" ELSE "none"
         /\ worker = [p \in Workers |-> [NoWork EXCEPT !.pc = IF p \in c.crew THEN "idle" ELSE "absent"]]
         /\ sender = [i \in Plain |-> [Unsaved EXCEPT !.pc = IF i \in c.sent THEN "idle" ELSE "done"]]
    /\ tick = Unsaved
    /\ cancel = Unsaved
    /\ trouble = 0
    /\ delivered = [i \in Nudges |-> 0]
    /\ lapses = [i \in Nudges |-> 0]
    /\ errors = [i \in Nudges |-> 0]
    /\ posts = [i \in Nudges |-> 0]

----------------------------------------------------------------------------
(* The shadow beads.  A transaction meets the store in one mode: "up"; "nil": *)
(* it cannot be opened and every shadow operation is a no-op; "err": it       *)
(* answers with errors; "half": it takes the metadata and rejects the close.  *)

Modes == {"up", "nil", "err", "half"}

Meets(mode) ==
    /\ mode # "up" => trouble < MaxTrouble
    /\ trouble' = IF mode = "up" THEN trouble ELSE trouble + 1

\* The newest bead that is open or, with closed ones, in a terminal state; else
\* the newest closed one.
Find(sh, includeClosed) ==
    LET open == {k \in DOMAIN sh : sh[k].open}
        seen == open \cup {k \in DOMAIN sh : IsTerminalState(sh[k].state)}
    IN  IF ~includeClosed THEN (IF open = {} THEN 0 ELSE Max(open))
        ELSE IF seen = {} THEN Len(sh) ELSE Max(seen)

\* The bead Terminalize writes to: the item's own, or one found by its id.
BeadOf(it, sh) == IF it.bead # 0 THEN it.bead ELSE Find(sh, TRUE)

Terminalize(it, sh, state, mode) ==
    IF BeadOf(it, sh) = 0 \/ mode \in {"nil", "err"} THEN sh
    ELSE [sh EXCEPT ![BeadOf(it, sh)].state = state,
                    ![BeadOf(it, sh)].open = IF mode = "half" THEN @ ELSE FALSE]

TerminalizeFails(it, sh, mode) ==
    mode = "err" \/ (mode = "half" /\ BeadOf(it, sh) # 0)

\* Mutant: the sweep's close counts as a record of how the nudge ended.
HasVerdict(sh) == Find(sh, TRUE) # 0 /\ sh[Find(sh, TRUE)].state # "queued"

HasTerminal(sh) == Find(sh, TRUE) # 0 /\ IsTerminalState(sh[Find(sh, TRUE)].state)

Save(sh) == Append(sh, [open |-> TRUE, state |-> "queued"])

----------------------------------------------------------------------------
(* The maintenance that every transaction runs first.                        *)

\* Mutant: the lease is not looked at: whatever is in flight goes back to pending.
RecoveredAlways(it) ==
    IF Live(it) /\ it.expired
    THEN [it EXCEPT !.at = "dead", !.old = FALSE, !.err = IF @ = "" THEN "expired" ELSE @]
    ELSE IF it.at = "inflight"
    THEN [it EXCEPT !.at = "pending", !.due = TRUE]
    ELSE it

\* Mutant: only the pending bucket is looked at.
RecoveredPending(it) ==
    IF it.at = "pending" /\ it.expired
    THEN [it EXCEPT !.at = "dead", !.old = FALSE, !.err = IF @ = "" THEN "expired" ELSE @]
    ELSE it

\* recoverExpiredInFlightNudges and pruneExpiredQueuedNudges.
Recovered(it) ==
    IF Live(it) /\ it.expired
    THEN [it EXCEPT !.at = "dead", !.old = FALSE, !.err = IF @ = "" THEN "expired" ELSE @]
    ELSE IF it.at = "inflight" /\ ~it.leased
    THEN [it EXCEPT !.at = "pending", !.due = TRUE]
    ELSE it

DeadState(it) == IF it.err \in {"expired", "superseded"} THEN it.err ELSE "failed"

\* pruneDeadQueuedNudges: a dead letter's bead is repaired if it missed its
\* terminal state, and the letter is dropped when it is past retention and the
\* record is confirmed.
Repaired(it, sh, mode) ==
    IF it.at = "dead" /\ it.bead # 0 /\ ~HasTerminal(sh)
    THEN Terminalize(it, sh, DeadState(it), mode) ELSE sh

Pruned(it, sh, mode) ==
    it.at = "dead" /\ it.old /\ it.bead # 0 /\ mode \in {"up", "half"} /\ HasTerminal(sh)

Tend(i, mode) ==
    LET it  == Recovered(q[i])
        sh1 == IF it.at = "dead" /\ Live(q[i])
               THEN Terminalize(it, shadow[i], "expired", mode) ELSE shadow[i]
        sh2 == Repaired(it, sh1, mode)
        confirmed == IF mode = "half" THEN sh1 ELSE sh2
    IN  [it |-> IF Pruned(it, confirmed, mode) THEN Blank ELSE it, sh |-> sh2]

\* The queue and the shadows after maintenance of the nudges S.
Tended(S, mode) == [i \in Nudges |-> IF i \in S THEN Tend(i, mode)
                                     ELSE [it |-> q[i], sh |-> shadow[i]]]

\* A transaction that commits writes both; one whose fn returns an error leaves
\* state.json alone and what it wrote to the beads stands.
Commit(t) == q' = [i \in Nudges |-> t[i].it] /\ shadow' = [i \in Nudges |-> t[i].sh]
Abort(t) == shadow' = [i \in Nudges |-> t[i].sh] /\ UNCHANGED q

----------------------------------------------------------------------------
(* Enqueueing: the shadow first, outside the lock, then the transaction.      *)

\* ensureQueuedNudgeBead: an open bead with the id is reused.
Saved(i, withShadow) ==
    LET k == Find(shadow[i], FALSE)
    IN  IF ~withShadow THEN [pc |-> "saved", bead |-> 0, created |-> FALSE]
        ELSE IF k # 0 THEN [pc |-> "saved", bead |-> k, created |-> FALSE]
        ELSE [pc |-> "saved", bead |-> Len(shadow[i]) + 1, created |-> TRUE]

\* The bead that Saved names is there.
SaveTo(i, s) == shadow' = IF s.created THEN [shadow EXCEPT ![i] = Save(@)] ELSE shadow

\* Nudges the new one replaces.
Superseded(i, t) == IF i \in SameRef THEN {j \in SameRef \ {i} : Live(t[j].it)} ELSE {}

Queued(i, bead, e) == [Blank EXCEPT !.at = "pending", !.due = TRUE, !.bead = bead, !.epoch = e]

\* The transaction of enqueueQueuedNudgeWithStoreAndClock.  Its maintenance and
\* its supersession stop at a time budget: S is what it got to.
EnqueueTxn(i, s, e, mode, S) ==
    \E t \in {Tended(S, mode)} :
    LET old == Superseded(i, t) \cap S
        bad == {j \in old : TerminalizeFails(t[j].it, t[j].sh, mode)}
        dead(j) == [t[j].it EXCEPT !.at = "dead", !.old = FALSE, !.err = "superseded"]
        marked(j) == Terminalize(dead(j), t[j].sh, "superseded", mode)
    IN  IF t[i].it.at # "none" THEN Commit(t) /\ UNCHANGED posts
        ELSE IF bad # {}
        THEN /\ \E b \in bad, rolled \in BOOLEAN :
                 LET torn == [t EXCEPT ![b].sh = marked(b)]
                 IN  Abort(IF rolled /\ s.created
                           THEN [torn EXCEPT ![i].sh[s.bead].open = FALSE] ELSE torn)
             /\ UNCHANGED posts
        ELSE /\ Commit([j \in Nudges |->
                   IF j = i THEN [it |-> Queued(i, s.bead, e), sh |-> t[i].sh]
                   ELSE IF j \in old
                   THEN [it |-> dead(j), sh |-> marked(j)]
                   ELSE t[j]])
             /\ posts' = [posts EXCEPT ![i] = @ + 1]

SendSave(i) ==
    /\ sender[i].pc = "idle"
    /\ \E up \in BOOLEAN :
         /\ Meets(IF up THEN "up" ELSE "nil")
         /\ sender' = [sender EXCEPT ![i] = Saved(i, up /\ i \notin NoShadow)]
         /\ SaveTo(i, sender'[i])
    /\ UNCHANGED <<q, worker, tick, cancel, wait, epoch, delivered, lapses, errors, posts>>

SendEnqueue(i) ==
    /\ sender[i].pc = "saved"
    /\ \E mode \in Modes, S \in {{}, Nudges} :
         /\ Meets(mode)
         /\ EnqueueTxn(i, sender[i], epoch, mode, S)
    /\ sender' = [sender EXCEPT ![i].pc = "queued"]
    /\ UNCHANGED <<worker, tick, cancel, wait, epoch, delivered, lapses, errors>>

\* The command returns, or its wake of the managed session fails and the nudge
\* is rolled back (rollbackQueuedNudge, which runs no maintenance).
SendDone(i) ==
    /\ sender[i].pc = "queued"
    /\ sender' = [sender EXCEPT ![i].pc = "done"]
    /\ \/ UNCHANGED <<q, shadow, trouble>>
       \/ \E mode \in Modes :
            LET it == [q[i] EXCEPT !.at = "dead", !.old = FALSE, !.err = "failed"]
                sh == Terminalize([it EXCEPT !.bead = sender[i].bead], shadow[i], "failed", mode)
            IN  /\ i \notin NoShadow
                /\ Meets(mode)
                /\ shadow' = [shadow EXCEPT ![i] = sh]
                /\ q' = IF Live(q[i]) /\ ~TerminalizeFails(it, shadow[i], mode)
                        THEN [q EXCEPT ![i] = it] ELSE q
    /\ UNCHANGED <<worker, tick, cancel, wait, epoch, delivered, lapses, errors, posts>>

----------------------------------------------------------------------------
(* Delivering: claim, reject what is fenced off, check the wait, hand the     *)
(* message to the session, settle.                                            *)

\* claimDueQueuedNudgesForTarget.  What does not match the session's present
\* continuation epoch is claimed too, to be rejected.
Claim(p) ==
    /\ worker[p].pc = "idle"
    /\ \E mode \in Modes :
         \E t \in {Tended(Nudges, mode)} :
         LET due == {i \in Nudges : t[i].it.at = "pending" /\ t[i].it.due}
             bad == {i \in due : t[i].it.epoch # epoch}
         IN  /\ Meets(mode)
             /\ Commit([i \in Nudges |-> IF i \in due
                          THEN [t[i] EXCEPT !.it.at = "inflight", !.it.leased = TRUE] ELSE t[i]])
             /\ worker' = [worker EXCEPT ![p] =
                  IF due = {} THEN NoWork
                  ELSE [pc |-> IF bad = {} THEN "fenced" ELSE "claimed", ids |-> due \ bad, out |-> bad]]
    /\ UNCHANGED <<sender, tick, cancel, wait, epoch, delivered, lapses, errors, posts>>

\* Mutant: the requeued items never join the pending bucket again.
FailedDropped(it, fenced) ==
    LET f == [it EXCEPT !.tries = @ + 1, !.err = "failed", !.leased = FALSE]
    IN  IF fenced \/ f.tries >= MaxTries \/ it.expired
        THEN [f EXCEPT !.at = "dead", !.old = FALSE]
        ELSE Blank

\* failedQueuedNudge: a fence mismatch is dead at once, anything else when its
\* attempts or its time are used up; otherwise it waits out the retry delay.
Failed(it, fenced) ==
    LET f == [it EXCEPT !.tries = @ + 1, !.err = "failed", !.leased = FALSE]
    IN  IF fenced \/ f.tries >= MaxTries \/ it.expired
        THEN [f EXCEPT !.at = "dead", !.old = FALSE]
        ELSE [f EXCEPT !.at = "pending", !.due = FALSE]

\* recordQueuedNudgeFailure, with the beads of the dead letters marked outside
\* the lock, best effort.  It takes whatever bucket the nudge is in by now.
RecordFailure(ids, fenced) ==
    \E mode \in Modes :
        \E t \in {Tended(Nudges, mode)} :
        LET hit == {i \in ids : Live(t[i].it)}
            after(i) == Failed(t[i].it, fenced)
        IN  /\ Meets(mode)
            /\ Commit([i \in Nudges |-> IF i \notin hit THEN t[i]
                         ELSE [it |-> after(i),
                               sh |-> IF after(i).at = "dead"
                                      THEN Terminalize(after(i), t[i].sh, "failed", mode)
                                      ELSE t[i].sh]])

\* releaseQueuedNudgeClaims: of the nudges in flight only.
Release(ids) ==
    \E mode \in Modes :
        \E t \in {Tended(Nudges, mode)} :
            /\ Meets(mode)
            /\ Commit([i \in Nudges |->
                 IF i \in ids /\ t[i].it.at = "inflight"
                 THEN [t[i] EXCEPT !.it.at = "pending", !.it.leased = FALSE] ELSE t[i]])

\* ackQueuedNudgesWithOutcome.  A bead that cannot be marked aborts the whole
\* transaction after the first one was tried.  The process may also die between
\* the beads and the rename of state.json.
AckTxn(ids, outcome, mode, dies) ==
    \E t \in {Tended(Nudges, mode)} :
    LET hit == {i \in ids : Live(t[i].it)}
        bad == {i \in hit : TerminalizeFails(t[i].it, t[i].sh, mode)}
        marked(i) == [t[i] EXCEPT !.sh = Terminalize(t[i].it, t[i].sh, outcome, mode)]
    IN  IF bad # {}
        THEN \E b \in bad : Abort([t EXCEPT ![b] = marked(b)])
        ELSE IF dies
        THEN Abort([i \in Nudges |-> IF i \in hit THEN marked(i) ELSE t[i]])
        ELSE Commit([i \in Nudges |-> IF i \in hit
                       THEN [marked(i) EXCEPT !.it = Blank] ELSE t[i]])

Ack(ids, outcome) == \E mode \in Modes : Meets(mode) /\ AckTxn(ids, outcome, mode, FALSE)

Quiet == UNCHANGED <<sender, tick, cancel, wait, epoch, delivered, lapses, errors, posts>>

Reject(p) ==
    /\ worker[p].pc = "claimed"
    /\ RecordFailure(worker[p].out, TRUE)
    /\ worker' = [worker EXCEPT ![p].pc = "fenced", ![p].out = {}]
    /\ Quiet

\* splitQueuedNudgesForDelivery reads the wait's bead: its nudge goes out only
\* while the wait is ready, or without a store to ask.  If the bead cannot be
\* read the claims are released.
Check(p) ==
    /\ worker[p].pc = "fenced"
    /\ \E mode \in {"up", "nil"} :
       LET blocked == IF mode = "up" /\ wait # "ready" THEN worker[p].ids \cap {WaitNudge} ELSE {}
       IN  /\ Meets(mode)
           /\ worker' = [worker EXCEPT ![p] =
              [pc |-> IF blocked # {} THEN "checked"
                      ELSE IF worker[p].ids = {} THEN "idle" ELSE "ready",
               ids |-> worker[p].ids \ blocked, out |-> blocked]]
    /\ UNCHANGED <<q, shadow>>
    /\ Quiet

CheckFails(p) ==
    /\ worker[p].pc = "fenced" /\ worker[p].ids # {}
    /\ trouble < MaxTrouble
    /\ worker' = [worker EXCEPT ![p].pc = "declined"]
    /\ trouble' = trouble + 1
    /\ UNCHANGED <<q, shadow>>
    /\ Quiet

\* terminalizeBlockedQueuedNudges; a failure is left to the lease.
Block(p) ==
    /\ worker[p].pc = "checked"
    /\ Ack(worker[p].out, "failed")
    /\ worker' = [worker EXCEPT ![p] = IF worker[p].ids = {} THEN NoWork
                                       ELSE [@ EXCEPT !.pc = "ready", !.out = {}]]
    /\ Quiet

\* handle.Nudge, or the hook's output: delivered; declined or gone; or failed,
\* "errored" before the text was sent or, in a late error, after it.
Deliver(p) ==
    /\ worker[p].pc = "ready"
    /\ \E outcome \in {"sent", "declined", "errored"}, late \in BOOLEAN :
         LET count(f, counts) ==
                 [i \in Nudges |-> f[i] + (IF counts /\ i \in worker[p].ids THEN 1 ELSE 0)]
         IN  /\ late => outcome = "errored" /\ trouble < MaxTrouble
             /\ trouble' = trouble + (IF late THEN 1 ELSE 0)
             /\ worker' = [worker EXCEPT ![p].pc = outcome]
             /\ delivered' = count(delivered, outcome = "sent" \/ late)
             /\ errors' = count(errors, late)
    /\ UNCHANGED <<q, shadow, sender, tick, cancel, wait, epoch, lapses, posts>>

Settle(p) ==
    /\ \/ worker[p].pc = "sent" /\ Ack(worker[p].ids, "injected")
       \/ worker[p].pc = "declined" /\ Release(worker[p].ids)
       \/ worker[p].pc = "errored" /\ RecordFailure(worker[p].ids, FALSE)
    /\ worker' = [worker EXCEPT ![p] = NoWork]
    /\ Quiet

Die(p) ==
    /\ worker[p].pc \notin {"absent", "idle"} /\ trouble < MaxTrouble
    /\ trouble' = trouble + 1
    /\ worker' = [worker EXCEPT ![p] = NoWork]
    /\ \/ UNCHANGED <<q, shadow>>
       \/ worker[p].pc = "sent" /\ AckTxn(worker[p].ids, "injected", "up", TRUE)
    /\ UNCHANGED <<sender, tick, cancel, wait, epoch, delivered, lapses, errors, posts>>

----------------------------------------------------------------------------
(* The controller's tick: waits are finalized first, sessions reconciled, and *)
(* only then ready waits dispatched.                                          *)

\* Mutant: a wait whose nudge reached any terminal state counts as delivered.
FinalizedAnyhow ==
    LET sh == shadow[WaitNudge]
        k  == Find(sh, TRUE)
    IN  IF wait # "ready" THEN wait
        ELSE IF epoch # 1 THEN "canceled"
        ELSE IF k = 0 THEN wait
        ELSE IF IsTerminalState(sh[k].state) THEN "closed"
        ELSE wait

\* Mutant: only a delivery ends a wait.
FinalizedDelivered ==
    LET sh == shadow[WaitNudge]
        k  == Find(sh, TRUE)
    IN  IF wait # "ready" THEN wait
        ELSE IF epoch # 1 THEN "canceled"
        ELSE IF k = 0 THEN wait
        ELSE IF sh[k].state = "injected" THEN "closed"
        ELSE wait

\* finalizeReadyWaitFromNudge, and the cancelation of a wait whose session has
\* moved to another epoch.
Finalized ==
    LET sh == shadow[WaitNudge]
        k  == Find(sh, TRUE)
    IN  IF wait # "ready" THEN wait
        ELSE IF epoch # 1 THEN "canceled"
        ELSE IF k = 0 THEN wait
        ELSE IF sh[k].state = "injected" THEN "closed"
        ELSE IF sh[k].state \in {"expired", "failed"} THEN "failed"
        ELSE wait

\* A wait may also run out of its own time.
Prepare ==
    /\ tick.pc = "idle" /\ wait # "none"
    /\ \/ wait' = Finalized
       \/ wait = "ready" /\ epoch = 1 /\ wait' = "expired"
    /\ tick' = [tick EXCEPT !.pc = "prepared"]
    /\ UNCHANGED <<q, shadow, worker, sender, cancel, epoch, trouble, delivered, lapses, errors, posts>>

\* dispatchReadyWaitNudges looks for an open shadow only.
Dispatch ==
    /\ tick.pc = "prepared"
    /\ IF wait = "ready" /\ Find(shadow[WaitNudge], FALSE) = 0 /\ Len(shadow[WaitNudge]) < MaxShadows
       THEN tick' = Saved(WaitNudge, TRUE) /\ SaveTo(WaitNudge, tick')
       ELSE tick' = Unsaved /\ UNCHANGED shadow
    /\ UNCHANGED <<q, worker, sender, cancel, wait, epoch, trouble, delivered, lapses, errors, posts>>

DispatchEnqueue ==
    /\ tick.pc = "saved"
    /\ \E mode \in Modes \ {"nil"}, S \in {{}, Nudges} :
         Meets(mode) /\ EnqueueTxn(WaitNudge, tick, 1, mode, S)
    /\ tick' = Unsaved
    /\ UNCHANGED <<worker, sender, cancel, wait, epoch, delivered, lapses, errors>>

\* Somebody is between the shadow of i and its transaction.
Enqueuing(i) == IF i = WaitNudge THEN tick.pc = "saved" ELSE sender[i].pc = "saved"

\* The sweep watchdog runs in the controller too.  It takes shadows older than
\* ten minutes, longer than an enqueue takes, and spares nudges that are pending
\* or in flight.
Sweep(i) ==
    /\ tick.pc = "idle" /\ ~Enqueuing(i) /\ ~Live(q[i])
    /\ LET k == Find(shadow[i], FALSE)
       IN  /\ k # 0
           /\ shadow' = [shadow EXCEPT ![i][k] = [open |-> FALSE, state |-> "gc-swept"]]
    /\ UNCHANGED <<q, worker, sender, tick, cancel, wait, epoch, trouble, delivered, lapses, errors, posts>>

\* The controller dies, at the worst between the shadow and the queue.
Restart ==
    /\ tick.pc # "idle" /\ trouble < MaxTrouble
    /\ trouble' = trouble + 1
    /\ tick' = Unsaved
    /\ UNCHANGED <<q, shadow, worker, sender, cancel, wait, epoch, delivered, lapses, errors, posts>>

----------------------------------------------------------------------------
(* Canceling the wait, then withdrawing its nudge: the candidate is read,     *)
(* its bead marked, and the item removed, in three steps.                     *)

\* The command read the wait before it wrote it: it withdraws the nudge id that
\* was recorded by then, if any.
CancelWait ==
    /\ cancel.pc = "idle" /\ wait = "ready"
    /\ wait' = "canceled"
    /\ \E known \in {FALSE, posts[WaitNudge] > 0} :
         cancel' = [cancel EXCEPT !.pc = IF known THEN "canceled" ELSE "done"]
    /\ UNCHANGED <<q, shadow, worker, sender, tick, epoch, trouble, delivered, lapses, errors, posts>>

WithdrawRead ==
    /\ cancel.pc = "canceled"
    /\ cancel' = IF Live(q[WaitNudge])
                 THEN [cancel EXCEPT !.pc = "read", !.bead = q[WaitNudge].bead]
                 ELSE [cancel EXCEPT !.pc = "done"]
    /\ UNCHANGED <<q, shadow, worker, sender, tick, wait, epoch, trouble, delivered, lapses, errors, posts>>

\* A bead that is already closed keeps its verdict.  A store that errs leaves
\* the nudge queued.
WithdrawMark ==
    /\ cancel.pc = "read"
    /\ \E mode \in Modes \ {"nil"} :
         /\ Meets(mode)
         /\ cancel' = [cancel EXCEPT !.pc = IF mode = "up" THEN "marked" ELSE "done"]
         /\ shadow' = IF mode # "err" /\ cancel.bead # 0 /\ shadow[WaitNudge][cancel.bead].open
                      THEN [shadow EXCEPT ![WaitNudge][cancel.bead].open = mode = "half",
                                          ![WaitNudge][cancel.bead].state = "failed"]
                      ELSE shadow
    /\ UNCHANGED <<q, worker, sender, tick, wait, epoch, delivered, lapses, errors, posts>>

WithdrawRemove ==
    /\ cancel.pc = "marked"
    /\ cancel' = [cancel EXCEPT !.pc = "done"]
    /\ q' = IF Live(q[WaitNudge]) /\ q[WaitNudge].bead = cancel.bead
            THEN [q EXCEPT ![WaitNudge] = Blank] ELSE q
    /\ UNCHANGED <<shadow, worker, sender, tick, wait, epoch, trouble, delivered, lapses, errors, posts>>

----------------------------------------------------------------------------
(* Time and the session.                                                     *)

Still == UNCHANGED <<worker, sender, tick, cancel, wait, trouble, delivered, errors, posts>>

AllLapses == FoldFunction(+, 0, lapses)

Lapse(i) ==
    /\ q[i].at = "inflight" /\ q[i].leased /\ AllLapses < MaxLapses
    /\ q' = [q EXCEPT ![i].leased = FALSE]
    /\ lapses' = [lapses EXCEPT ![i] = @ + 1]
    /\ UNCHANGED <<shadow, epoch>> /\ Still

FallDue(i) ==
    /\ q[i].at = "pending" /\ ~q[i].due
    /\ q' = [q EXCEPT ![i].due = TRUE]
    /\ UNCHANGED <<shadow, lapses, epoch>> /\ Still

Expire(i) ==
    /\ Live(q[i]) /\ ~q[i].expired
    /\ q' = [q EXCEPT ![i].expired = TRUE]
    /\ UNCHANGED <<shadow, lapses, epoch>> /\ Still

RetentionPasses(i) ==
    /\ q[i].at = "dead" /\ ~q[i].old
    /\ q' = [q EXCEPT ![i].old = TRUE]
    /\ UNCHANGED <<shadow, lapses, epoch>> /\ Still

NewEpoch ==
    /\ epoch < MaxEpoch
    /\ epoch' = epoch + 1
    /\ UNCHANGED <<q, shadow, lapses>> /\ Still

WorkerStep(p) ==
    Claim(p) \/ Reject(p) \/ Check(p) \/ Block(p) \/ Deliver(p) \/ Settle(p)
Withdraw == WithdrawRead \/ WithdrawMark \/ WithdrawRemove
TickStep == Prepare \/ Dispatch \/ DispatchEnqueue
Passing(i) == FallDue(i) \/ Expire(i) \/ RetentionPasses(i)

Next ==
    \/ \E i \in Plain : SendSave(i) \/ SendEnqueue(i) \/ SendDone(i)
    \/ \E p \in Workers : WorkerStep(p) \/ CheckFails(p) \/ Die(p)
    \/ TickStep \/ Restart
    \/ CancelWait \/ Withdraw
    \/ \E i \in Nudges : Sweep(i) \/ Lapse(i) \/ Passing(i)
    \/ NewEpoch

Spec == Init /\ [][Next]_vars

\* Deliverers and the controller keep running and finish what they begin, the
\* watchdog comes by and time passes.  Nobody need send, cancel or continue.
FairSpec ==
    /\ Spec
    /\ \A p \in Workers : WF_vars(WorkerStep(p))
    /\ WF_vars(TickStep)
    /\ \A i \in Nudges : WF_vars(Expire(i)) /\ SF_vars(Sweep(i))

----------------------------------------------------------------------------
(* Properties.                                                               *)

\* A nudge that a command sent is delivered again only because its lease lapsed
\* under a deliverer or handing it over returned an error after the text was sent:
\* belated failures, belated releases and aborted acknowledgements of other
\* deliverers never add a delivery of their own.
RedeliveryIsExplained == \A i \in Plain : delivered[i] <= 1 + lapses[i] + errors[i]

\* The comment of deliverPending says of every nudge that the claim under the
\* queue's lock has it delivered exactly once.  The code breaks it for the nudge
\* of a wait: with no lease lapsed and no late error, a delivery between
\* the two wait phases of a tick closes the shadow, and the second phase, which
\* looks for an open one, queues the nudge again.
WaitNudgedOnce == delivered[WaitNudge] <= 1 + lapses[WaitNudge] + errors[WaitNudge]

\* A wait is closed as delivered only if its nudge reached the session, whatever
\* overwrote, swept or reposted the shadow the controller reads.
ClosedMeansDelivered == wait = "closed" => delivered[WaitNudge] > 0

\* A nudge that was queued and is gone was delivered, has a record of its end
\* (the sweep's counts: it overwrites the state of a bead whose close failed), or
\* was the nudge of a wait that ended: none vanishes between the buckets.
NoNudgeVanishes ==
    \A i \in Nudges :
        posts[i] > 0 /\ q[i].at = "none" =>
            \/ delivered[i] > 0
            \/ \E k \in DOMAIN shadow[i] : shadow[i][k].state # "queued"
            \/ i = WaitNudge /\ wait # "ready"

Recorded(sh) == \E k \in DOMAIN sh : IsTerminalState(sh[k].state)

DropsLeaveARecord ==
    \A i \in Nudges : q[i].at = "dead" /\ q'[i].at = "none" => Recorded(shadow'[i])

\* A dead letter is dropped only with its terminal record in the store (the
\* comment of pruneDeadQueuedNudges).
DeadLettersLeaveARecord == [][DropsLeaveARecord]_vars

\* Every queued nudge is delivered or dies: no bucket keeps it for ever.
NudgesSettle == \A i \in Nudges : Live(q[i]) ~> ~Live(q[i])

\* A ready wait ends, through lost acknowledgements, leaked shadows, sweeps and
\* restarts.
WaitResolves == wait = "ready" ~> wait # "ready"
=============================================================================
