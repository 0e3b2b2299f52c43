--------------------------- MODULE ConvergenceLoop ---------------------------
(***************************************************************************)
(* A convergence loop (internal/convergence, driven by the controller in   *)
(* cmd/gc/convergence_tick.go): a root bead that pours one wisp per        *)
(* iteration, gates each closed wisp, and iterates, waits or terminates.   *)
(*                                                                         *)
(* The controller is the only writer of the root, but every handler is a   *)
(* sequence of separate store calls, and it may die, or one call may fail, *)
(* between any two of them.  A handler is therefore a sequence of steps    *)
(* kept in todo; agents close wisps while it runs.  Steps that only read   *)
(* and branch (Expand) replace themselves by the steps of the branch.      *)
(*                                                                         *)
(* Abstracted: verdicts (the gate's answer is a choice), the stored        *)
(* iteration number, actors, notes, durations and the waiting_manual and   *)
(* manual_* events, which no branch reads.                                 *)
(***************************************************************************)
EXTENDS Integers, Sequences, FiniteSets, FiniteSetsExt

\* gate: "manual" is manual mode, or hybrid without a condition script;
\* "condition" is either mode with a script; "unset" is condition mode without
\* one.  onTimeout: "retry" runs the script again inside the gate, and then is
\* "iterate".
CONSTANTS
    Loops,        \* the configurations a loop may be created with
    MaxTroubles   \* bound on crashes, failed store calls, reaped wisps, reloads

ASSUME LoopsAssumption ==
    Loops \subseteq [gate : {"manual", "condition", "unset"},
                     onTimeout : {"iterate", "manual", "terminate"},
                     trigger : BOOLEAN, max : Nat \ {0}, listsClosed : BOOLEAN]
ASSUME TroublesAssumption == MaxTroubles \in Nat

VARIABLES
    loop,      \* the configuration in the root's metadata
    root,      \* the root bead: none, open, closed
    meta,      \* the root's convergence metadata
    wisp,      \* the wisps poured so far; a wisp's id is its position
    up,        \* whether the controller process runs
    index,     \* the root in the adapter's activeIndex: nil, in, out
    needs,     \* needsStartupReconcile
    todo,      \* the remaining steps of the handler that runs
    told,      \* the events emitted
    trouble    \* how often each kind of trouble struck

vars == <<loop, root, meta, wisp, up, index, needs, todo, told, trouble>>

None == 0   \* the empty wisp reference
Running == {"active", "waiting_manual", "waiting_trigger"}

-----------------------------------------------------------------------------
(* The store, as the adapter shows it.  Children and FindByIdempotencyKey  *)
(* list with a ListQuery that does not ask for closed beads, and the query *)
(* drops them; the store the handlers were written against (the interface, *)
(* the package's tests) lists them: loop.listsClosed.                      *)

Exists(i) == i # None /\ wisp[i].st # "gone"
Open(i)   == Exists(i) /\ wisp[i].st # "closed"
Closed(i) == Exists(i) /\ wisp[i].st = "closed"

\* Mutant: the query forgets the closed wisps for every store.
OpenChildren == {i \in DOMAIN wisp : Open(i)}

Children == {i \in DOMAIN wisp : Open(i) \/ (loop.listsClosed /\ Closed(i))}

FindByIdempotencyKey(n) ==
    LET found == {i \in Children : wisp[i].iter = n}
    IN  IF found = {} THEN None ELSE Min(found)

\* The child of S with the highest iteration, the first one listed on a tie.
Highest(S) ==
    IF S = {} THEN None
    ELSE Min({i \in S : \A j \in S : wisp[j].iter <= wisp[i].iter})

ClosedChildren == {i \in Children : Closed(i)}
ClosedCount    == Cardinality(ClosedChildren)
HighestClosed  == Highest(ClosedChildren)
HighestOpen    == Highest(Children \ ClosedChildren)

\* The iteration a reference stands for: 0 when it is empty or dangling.
IterOf(i) == IF Exists(i) THEN wisp[i].iter ELSE 0

validPendingNextWisp(n) ==
    IF Open(meta.pending) /\ wisp[meta.pending].iter = n THEN meta.pending ELSE None

\* Which wisp stands in for an active_wisp that was deleted.
recoverCurrentActiveWisp ==
    IF Exists(meta.lpw) THEN FindByIdempotencyKey(IterOf(meta.lpw) + 1)
    ELSE IF HighestOpen # None THEN HighestOpen ELSE HighestClosed

-----------------------------------------------------------------------------
(* Steps.  fail says what the handler does when the store call fails:      *)
(* abort it, skip a best-effort call, burn the speculative wisp and abort, *)
(* or roll a creation back.                                                *)

Step(op, key, w, x, v, fail) ==
    [op |-> op, key |-> key, w |-> w, x |-> x, v |-> v, fail |-> fail]
Set(key, v)        == Step("set", key, None, None, v, "abort")
Ref(key, w)        == Step("ref", key, w, None, "", "abort")
Emit(kind, n, v)   == Step("emit", kind, n, None, v, "abort")
Pour(n, then, w)   == Step("pour", then, n, w, "", "abort")
Do(op, w, x, v)    == Step(op, "", w, x, v, "abort")
CloseRoot          == Do("close_root", None, None, "")
BestEffort(s)      == [s EXCEPT !.fail = "skip"]
OrRollback(s)      == [s EXCEPT !.fail = "rollback"]
OrBurn(s, x)       == [s EXCEPT !.fail = "burn", !.x = x]

When(b, s) == IF b THEN s ELSE <<>>

ClearPending == BestEffort(Ref("pending", None))

burnSpeculativeWisp(x) ==
    When(x # None, <<Do("delete", x, None, ""), ClearPending>>)

-----------------------------------------------------------------------------
(* HandleWispClosed and the transitions it chooses from.                   *)

\* Mutant: the bound of the speculative pour is off by one.
PourPastTheLast(w) ==
    LET n    == IterOf(w)
        spec == validPendingNextWisp(n + 1)
    IN  IF n <= IterOf(meta.lpw) THEN <<>>
        ELSE IF n <= loop.max /\ loop.gate = "condition" /\ ~loop.trigger /\ spec = None
          THEN <<Pour(n + 1, "speculative", w)>>
        ELSE <<Do("gate", w, spec, "")>>

\* The guard, the dedup check and the speculative pour.
HandleWispClosed(w) ==
    LET n    == IterOf(w)
        spec == validPendingNextWisp(n + 1)
        stale == When(meta.pending # None /\ spec = None, <<ClearPending>>)
    IN  IF meta.state = "terminated" THEN <<BestEffort(CloseRoot)>>
        ELSE IF ~Exists(w) THEN <<Do("error", None, None, "")>>
        ELSE IF n <= IterOf(meta.lpw) THEN <<>>
        ELSE IF meta.gated # w /\ loop.gate = "unset"
          THEN stale \o burnSpeculativeWisp(spec) \o <<Do("error", None, None, "")>>
        ELSE IF n < loop.max /\ loop.gate = "condition" /\ ~loop.trigger /\ spec = None
          THEN stale \o <<Pour(n + 1, "speculative", w)>>
        ELSE stale \o <<Do("gate", w, spec, "")>>

transitionToWaitingManual(w, reason) ==
    << Emit("iteration", IterOf(w), "waiting_manual"),
       Ref("active", None), Set("wreason", reason), Set("state", "waiting_manual"),
       Ref("lpw", w) >>

transitionToWaitingTrigger(w) ==
    << Emit("iteration", IterOf(w), "waiting_trigger"),
       Ref("active", None), Set("state", "waiting_trigger"), Ref("lpw", w) >>

\* A wisp poured ahead is always there: below max_iterations the handler has
\* poured it, adopted it, or gone to handleSlingFailure.
iterate(w, spec) ==
    << Do("activate", spec, None, ""), Emit("iteration", IterOf(w), "iterate"),
       Ref("active", spec), Ref("lpw", w), ClearPending >>

terminate(w, reason) ==
    << Emit("iteration", IterOf(w), reason), Emit("terminated", 0, reason),
       Set("treason", reason), Set("state", "terminated"), CloseRoot, Ref("lpw", w) >>

\* Mutant: the gate runs again although its outcome is persisted.
GateRunsAgain(s, outcome) ==
    IF loop.gate = "manual"
      THEN burnSpeculativeWisp(s.x) \o transitionToWaitingManual(s.w, "manual")
    ELSE << OrBurn(Set("outcome", outcome), s.x), OrBurn(Ref("gated", s.w), s.x),
            Do("settle", s.w, s.x, s.v) >>

\* Steps 4 and 5: a persisted outcome is replayed, a manual gate waits for the
\* operator, and a gate that ran has its outcome written before its marker.
gateEvaluation(s, outcome) ==
    IF meta.gated = s.w THEN <<Do("settle", s.w, s.x, s.v)>>
    ELSE IF loop.gate = "manual"
      THEN burnSpeculativeWisp(s.x) \o transitionToWaitingManual(s.w, "manual")
    ELSE << OrBurn(Set("outcome", outcome), s.x), OrBurn(Ref("gated", s.w), s.x),
            Do("settle", s.w, s.x, s.v) >>

\* Mutant: the speculative wisp is forgotten when the gate passes.
PassWithoutBurn(w, spec, pourFailed) ==
    IF meta.outcome = "pass" THEN terminate(w, "approved")
    ELSE IF IterOf(w) >= loop.max THEN terminate(w, "no_convergence")
    ELSE IF pourFailed THEN transitionToWaitingManual(w, "sling_failure")
    ELSE IF loop.trigger THEN transitionToWaitingTrigger(w)
    ELSE iterate(w, spec)

\* Step 7: what the outcome means for the loop.
prepareOutcome(w, spec, pourFailed) ==
    LET timeout == meta.outcome = "timeout" IN
    IF timeout /\ loop.onTimeout = "manual"
      THEN burnSpeculativeWisp(spec) \o transitionToWaitingManual(w, "timeout")
    ELSE IF meta.outcome = "pass"
      THEN burnSpeculativeWisp(spec) \o terminate(w, "approved")
    ELSE IF (timeout /\ loop.onTimeout = "terminate") \/ IterOf(w) >= loop.max
      THEN burnSpeculativeWisp(spec) \o terminate(w, "no_convergence")
    ELSE IF pourFailed THEN transitionToWaitingManual(w, "sling_failure")
    ELSE IF loop.trigger THEN transitionToWaitingTrigger(w)
    ELSE iterate(w, spec)

-----------------------------------------------------------------------------
(* The operator's commands and the trigger.                                *)

CreateHandler ==
    << Do("create", None, None, ""), OrRollback(Set("state", "creating")),
       OrRollback(Set("formula", "set")) >>
    \o IF loop.trigger
       THEN << OrRollback(Set("state", "waiting_trigger")), Emit("created", 0, "") >>
       ELSE << OrRollback(Set("state", "active")), OrRollback(Pour(1, "create", None)) >>

closeBead == << BestEffort(Set("state", "terminated")), BestEffort(CloseRoot) >>

\* Mutant: the event is emitted once the root is closed.
AnnounceAfterClose ==
    << Set("treason", "approved"), Set("wreason", ""), Set("state", "terminated"),
       CloseRoot, Emit("terminated", 0, "approved") >>

\* last_processed_wisp is written back unchanged at the end, which is no step.
ApproveHandler ==
    << Set("treason", "approved"), Set("wreason", ""), Set("state", "terminated"),
       Emit("terminated", 0, "approved"), CloseRoot >>

\* Step 2 of a stop: the active wisp, or its stand-in, is drained if closed.
stopDrain ==
    LET w == IF meta.active = None \/ Exists(meta.active) THEN meta.active
             ELSE recoverCurrentActiveWisp
    IN  IF Closed(w) THEN <<Do("handle", w, None, ""), Do("stop_reread", None, None, "")>>
        ELSE <<Do("stop_force", w, None, "")>>

\* Step 3: the wisp's status is read again; an open one is force-closed.
stopForce(active) ==
    LET w == IF active = None \/ Exists(active) THEN active ELSE recoverCurrentActiveWisp
    IN  IF Open(w) THEN <<Do("close_wisp", w, None, ""), Do("stop_commit", w, None, "forced")>>
        ELSE <<Do("stop_commit", w, None, "")>>

\* Steps 4 to 10.
stopCommit(w, forced) ==
    LET final == IF forced THEN w ELSE meta.lpw IN
    << Set("treason", "stopped"), Set("wreason", ""), Set("state", "terminated") >>
    \o When(forced, <<Emit("iteration", ClosedCount, "stopped")>>)
    \o << Emit("terminated", 0, "stopped"), CloseRoot >>
    \o When(final # None, <<Ref("lpw", final)>>)

\* What follows a pour that returned wisp i, by the caller that asked for it.
AfterPour(s, i) ==
    CASE s.key = "speculative" -> << OrBurn(Ref("pending", i), i), Do("gate", s.x, i, "") >>
      [] s.key = "create"  -> << OrRollback(Ref("active", i)), Emit("created", 0, "") >>
      [] s.key = "manual"  -> << Set("wreason", ""), Set("state", "active"), Ref("active", i) >>
      [] s.key = "trigger" -> << Do("activate", i, None, ""), Ref("active", i),
                                 Set("state", "active") >>
      [] s.key = "first"   -> << Ref("active", i), Set("state", "active") >>
      [] s.key = "recover" -> << Do("activate", i, None, ""), Ref("active", i), ClearPending >>

-----------------------------------------------------------------------------
(* Startup reconciliation.                                                 *)

reconcileMissingState ==
    LET w == FindByIdempotencyKey(1) IN
    IF w = None THEN <<Pour(1, "first", None)>>
    ELSE << Ref("active", w), Set("state", "active") >>
         \o When(Closed(w), <<Do("handle", w, None, "")>>)

reconcileCreating ==
    << Set("treason", "partial_creation"), Set("state", "terminated"), CloseRoot >>

reconcileTerminatedNotClosed ==
    << Emit("terminated", 0, IF meta.treason = "" THEN "no_convergence" ELSE meta.treason),
       CloseRoot >>

completeTerminalTransition ==
    << Emit("terminated", 0, meta.treason), Set("state", "terminated"), CloseRoot >>
    \o When(HighestClosed # None, <<BestEffort(Ref("lpw", HighestClosed))>>)

reconcileWaitingManual ==
    IF meta.treason # "" THEN completeTerminalTransition
    ELSE IF meta.wreason # ""
      THEN When(HighestClosed \notin {None, meta.lpw}, <<Ref("lpw", HighestClosed)>>)
    ELSE When(HighestClosed # None, <<Set("wreason", "manual")>>)

reconcileWaitingTrigger ==
    IF meta.treason # "" THEN completeTerminalTransition ELSE <<>>

\* active_wisp is empty or beyond recovery: adopt or pour the next one.
rebuildChain ==
    LET n    == ClosedCount + 1
        next == IF validPendingNextWisp(n) # None THEN meta.pending
                ELSE FindByIdempotencyKey(n)
    IN  When(meta.pending # None /\ validPendingNextWisp(n) = None, <<ClearPending>>)
        \o IF next = None THEN <<Pour(n, "recover", None)>>
           ELSE << Do("activate", next, None, ""), Ref("active", next), ClearPending >>

\* Mutant: a closed active wisp is taken for a processed one.
ClosedMeansProcessed ==
    IF meta.treason # "" THEN completeTerminalTransition
    ELSE IF Open(meta.active) THEN <<>>
    ELSE rebuildChain

\* Mutant: an active loop without a wisp is left alone.
NothingToRebuild ==
    IF meta.treason # "" THEN completeTerminalTransition
    ELSE When(Closed(meta.active) /\ meta.lpw # meta.active,
              <<Do("handle", meta.active, None, "")>>)

reconcileActive ==
    LET lost == meta.active # None /\ ~Exists(meta.active)
        w    == IF lost THEN recoverCurrentActiveWisp ELSE meta.active
    IN  IF meta.treason # "" THEN completeTerminalTransition
        ELSE IF w = None THEN rebuildChain
        ELSE When(lost, <<Ref("active", w)>>)
             \o When(Closed(w) /\ meta.lpw # w, <<Do("handle", w, None, "")>>)

\* The listing leaves closed roots out.
reconcileState ==
    IF root # "open" THEN <<>>
    ELSE CASE meta.state = ""                -> reconcileMissingState
           [] meta.state = "creating"        -> reconcileCreating
           [] meta.state = "terminated"      -> reconcileTerminatedNotClosed
           [] meta.state = "waiting_manual"  -> reconcileWaitingManual
           [] meta.state = "waiting_trigger" -> reconcileWaitingTrigger
           [] meta.state = "active"          -> reconcileActive

StartupReconcile == << Do("reconcile", None, None, ""), Do("index", None, None, "") >>

-----------------------------------------------------------------------------
Init ==
    /\ loop \in Loops
    /\ root = "none"
    /\ meta = [state |-> "", formula |-> "", treason |-> "", wreason |-> "",
               outcome |-> "", active |-> None, lpw |-> None, pending |-> None,
               gated |-> None]
    /\ wisp = <<>>
    /\ up = TRUE
    /\ index = "out"
    /\ needs = FALSE
    /\ todo = <<>>
    /\ told = {}
    /\ trouble = [crash |-> 0, fault |-> 0, reap |-> 0, reload |-> 0]

Idle == up /\ todo = <<>>

Begin(steps) ==
    /\ Idle
    /\ todo' = steps
    /\ UNCHANGED <<loop, root, meta, wisp, up, index, needs, told, trouble>>

Create  == root = "none" /\ Begin(CreateHandler)
Approve == meta.state = "waiting_manual" /\ Begin(ApproveHandler)
Stop    == meta.state \in Running /\ Begin(<<Do("stop", None, None, "")>>)

IterateHandler ==
    /\ meta.state = "waiting_manual"
    /\ ClosedCount < loop.max
    /\ Begin(<<Pour(ClosedCount + 1, "manual", None)>>)

\* The condition script passed: the next wisp is poured.
HandleTrigger ==
    /\ index = "in" /\ ~needs
    /\ meta.state = "waiting_trigger"
    /\ ClosedCount + 1 <= loop.max
    /\ Begin(<<Pour(ClosedCount + 1, "trigger", None)>>)

\* The tick of an indexed active loop, and the retry of a failed startup scan.
Tick ==
    \/ needs /\ Begin(StartupReconcile)
    \/ /\ index = "in" /\ ~needs
       /\ meta.state = "active"
       /\ meta.active # None
       /\ \/ Closed(meta.active) /\ Begin(<<Do("handle", meta.active, None, "")>>)
          \/ ~Exists(meta.active) /\ Begin(<<Do("reconcile", None, None, "")>>)

-----------------------------------------------------------------------------
(* The steps.  At(op) is the step to run next.                             *)

s0 == Head(todo)
At(op) == up /\ todo # <<>> /\ s0.op = op
Go == todo' = Tail(todo)

\* SetMetadata keeps the index in step with the state it writes.
Indexed(key, v) ==
    IF key # "state" \/ index = "nil" THEN index
    ELSE IF v \in Running THEN "in" ELSE "out"

SetMetadata ==
    /\ At("set")
    /\ meta' = [meta EXCEPT ![s0.key] = s0.v]
    /\ index' = Indexed(s0.key, s0.v)
    /\ Go
    /\ UNCHANGED <<loop, root, wisp, up, needs, told, trouble>>

SetReference ==
    /\ At("ref")
    /\ meta' = [meta EXCEPT ![s0.key] = s0.w]
    /\ Go
    /\ UNCHANGED <<loop, root, wisp, up, index, needs, told, trouble>>

EmitEvent ==
    /\ At("emit")
    /\ told' = told \cup {[kind |-> s0.key, n |-> s0.w, what |-> s0.v]}
    /\ Go
    /\ UNCHANGED <<loop, root, meta, wisp, up, index, needs, trouble>>

CreateConvergenceBead ==
    /\ At("create")
    /\ root' = "open"
    /\ Go
    /\ UNCHANGED <<loop, meta, wisp, up, index, needs, told, trouble>>

CloseRootBead ==
    /\ At("close_root")
    /\ root' = "closed"
    /\ index' = IF index = "nil" THEN "nil" ELSE "out"
    /\ Go
    /\ UNCHANGED <<loop, meta, wisp, up, needs, told, trouble>>

\* CloseBead on a wisp, DeleteBead and ActivateWisp.
SetWisp(st) ==
    /\ wisp' = [wisp EXCEPT ![s0.w].st = st]
    /\ Go
    /\ UNCHANGED <<loop, root, meta, up, index, needs, told, trouble>>

CloseWisp  == At("close_wisp") /\ Exists(s0.w) /\ SetWisp("closed")
DeleteBead == At("delete") /\ Exists(s0.w) /\ SetWisp("gone")
ActivateWisp ==
    /\ At("activate")
    /\ Exists(s0.w)
    /\ SetWisp(IF wisp[s0.w].st = "spec" THEN "live" ELSE wisp[s0.w].st)

\* pourWisp: the existing wisp with this key, or a new one.
Found(n) == FindByIdempotencyKey(n)
\* Mutant: the pour does not look its key up.
PouredBlindly(n, kind) ==
    Append(wisp, [iter |-> n, st |-> IF kind = "speculative" THEN "spec" ELSE "live"])

Poured(n, kind) ==
    IF Found(n) # None THEN wisp
    ELSE Append(wisp, [iter |-> n, st |-> IF kind = "speculative" THEN "spec" ELSE "live"])

PourWisp ==
    /\ At("pour")
    /\ meta.formula # ""
    /\ wisp' = Poured(s0.w, s0.key)
    /\ LET i == IF Found(s0.w) # None THEN Found(s0.w) ELSE Len(wisp) + 1
       IN  todo' = AfterPour(s0, i) \o Tail(todo)
    /\ UNCHANGED <<loop, root, meta, up, index, needs, told, trouble>>

EvaluateGate ==
    /\ At("gate")
    /\ \E outcome \in {"pass", "fail", "timeout"} :
           todo' = gateEvaluation(s0, outcome) \o Tail(todo)
    /\ UNCHANGED <<loop, root, meta, wisp, up, index, needs, told, trouble>>

\* The steps that read and branch.
Branch(s) ==
    CASE s.op = "handle"      -> HandleWispClosed(s.w)
      [] s.op = "settle"      -> prepareOutcome(s.w, s.x, s.v = "pour_failed")
      [] s.op = "reconcile"   -> reconcileState
      [] s.op = "stop"        -> stopDrain
      [] s.op = "stop_reread" -> IF meta.state = "terminated" THEN <<>>
                                 ELSE <<Do("stop_force", meta.active, None, "")>>
      [] s.op = "stop_force"  -> stopForce(s.w)
      [] s.op = "stop_commit" -> stopCommit(s.w, s.v = "forced")

Expand ==
    /\ up /\ todo # <<>>
    /\ s0.op \in {"handle", "settle", "reconcile", "stop", "stop_reread",
                  "stop_force", "stop_commit"}
    /\ todo' = Branch(s0) \o Tail(todo)
    /\ UNCHANGED <<loop, root, meta, wisp, up, index, needs, told, trouble>>

\* populateIndex ends a startup reconciliation.
PopulateIndex ==
    /\ At("index")
    /\ index' = IF root = "open" /\ meta.state \in Running THEN "in" ELSE "out"
    /\ needs' = FALSE
    /\ Go
    /\ UNCHANGED <<loop, root, meta, wisp, up, told, trouble>>

-----------------------------------------------------------------------------
(* Failure.  An aborted handler returns its error; a startup scan records  *)
(* it and goes on to the index, its last step.                             *)

Aborted == When(todo[Len(todo)].op = "index", <<todo[Len(todo)]>>)

\* What becomes of the handler whose current store call failed.
AfterFailure(s) ==
    CASE s.fail = "skip"     -> Tail(todo)
      [] s.fail = "rollback" -> closeBead
      [] s.fail = "burn"     -> burnSpeculativeWisp(s.x) \o Aborted
      [] s.fail = "abort"    -> Aborted

\* A speculative pour that fails does not stop the gate (speculativePourErr).
AfterPourFailure(s) ==
    IF s.key = "speculative" THEN <<Do("gate", s.x, None, "pour_failed")>> \o Tail(todo)
    ELSE AfterFailure(s)

\* The errors the handler meets without any fault of the store: a gate with no
\* condition, a wisp that is gone, a formula that was never written.
HandlerError ==
    /\ up /\ todo # <<>>
    /\ \/ s0.op = "error" /\ todo' = Aborted
       \/ s0.op \in {"activate", "delete", "close_wisp"} /\ ~Exists(s0.w) /\ todo' = AfterFailure(s0)
       \/ s0.op = "pour" /\ meta.formula = "" /\ todo' = AfterPourFailure(s0)
    /\ UNCHANGED <<loop, root, meta, wisp, up, index, needs, told, trouble>>

Strikes(kind) ==
    /\ trouble.crash + trouble.fault + trouble.reap + trouble.reload < MaxTroubles
    /\ trouble' = [trouble EXCEPT ![kind] = @ + 1]

\* A store call returns an error and has done nothing.
StoreFails ==
    /\ up /\ todo # <<>>
    /\ s0.op \in {"set", "ref", "create", "close_root", "close_wisp", "delete", "activate"}
    /\ Strikes("fault")
    /\ todo' = AfterFailure(s0)
    /\ UNCHANGED <<loop, root, meta, wisp, up, index, needs, told>>

\* A pour returns an error, having created the wisp or not; the callers other
\* than the creation and the reconciler look the key up before they give up.
PourFails ==
    /\ At("pour")
    /\ meta.formula # ""
    /\ Strikes("fault")
    /\ wisp' \in {wisp, Poured(s0.w, s0.key)}
    /\ LET i == IF Found(s0.w) # None THEN Found(s0.w)
                ELSE IF wisp' # wisp THEN Len(wisp') ELSE None
       IN  todo' = IF i # None /\ s0.key \in {"speculative", "manual", "trigger"}
                   THEN AfterPour(s0, i) \o Tail(todo)
                   ELSE AfterPourFailure(s0)
    /\ UNCHANGED <<loop, root, meta, up, index, needs, told>>

\* The scan's list, or the index's, fails: the next tick tries again.
ScanFails ==
    /\ At("index") \/ (up /\ todo = StartupReconcile)
    /\ Strikes("fault")
    /\ index' = "out"
    /\ needs' = TRUE
    /\ todo' = <<>>
    /\ UNCHANGED <<loop, root, meta, wisp, up, told>>

Crash ==
    /\ up
    /\ Strikes("crash")
    /\ up' = FALSE
    /\ todo' = <<>>
    /\ index' = "nil"
    /\ needs' = FALSE
    /\ UNCHANGED <<loop, root, meta, wisp, told>>

Restart ==
    /\ ~up
    /\ up' = TRUE
    /\ todo' = StartupReconcile
    /\ UNCHANGED <<loop, root, meta, wisp, index, needs, told, trouble>>

\* rebuildConvergenceHandler: a configuration reload replaces the scope.
Reload ==
    /\ Idle
    /\ Strikes("reload")
    /\ index' = "nil"
    /\ needs' = TRUE
    /\ UNCHANGED <<loop, root, meta, wisp, up, todo, told>>

\* The agent finishes the work it was assigned.
AgentCloses ==
    /\ \E i \in DOMAIN wisp :
           /\ wisp[i].st = "live"
           /\ wisp' = [wisp EXCEPT ![i].st = "closed"]
    /\ UNCHANGED <<loop, root, meta, up, index, needs, todo, told, trouble>>

\* Somebody cleans a wisp up.
Reap ==
    /\ Strikes("reap")
    /\ \E i \in DOMAIN wisp :
           /\ Exists(i)
           /\ wisp' = [wisp EXCEPT ![i].st = "gone"]
    /\ UNCHANGED <<loop, root, meta, up, index, needs, todo, told>>

-----------------------------------------------------------------------------
Command == Create \/ Approve \/ Stop \/ IterateHandler

StoreStep ==
    \/ SetMetadata \/ SetReference \/ EmitEvent \/ CreateConvergenceBead
    \/ CloseRootBead \/ CloseWisp \/ DeleteBead \/ ActivateWisp \/ PourWisp
    \/ EvaluateGate \/ Expand \/ PopulateIndex \/ HandlerError

Trouble == StoreFails \/ PourFails \/ ScanFails \/ Crash \/ Reload \/ Reap

Next ==
    \/ Command \/ HandleTrigger \/ Tick \/ StoreStep
    \/ Restart \/ AgentCloses \/ Trouble

Spec == Init /\ [][Next]_vars

\* The controller runs the handler it began, ticks and is restarted; an agent
\* finishes its wisp.  Operators and triggers promise nothing.
FairSpec ==
    /\ Spec
    /\ WF_vars(StoreStep)
    /\ WF_vars(Tick)
    /\ WF_vars(Restart)
    /\ WF_vars(AgentCloses)

-----------------------------------------------------------------------------
(* Properties.                                                             *)

CrashOnly == trouble.fault = 0 /\ trouble.reap = 0

Announced == \E e \in told : e.kind = "created"

\* The loops that never hold, once created: each closed wisp leads to the next
\* or to the end.
Straight ==
    loop.gate = "condition" /\ ~loop.trigger /\ loop.onTimeout # "manual" /\ Announced

\* Through crashes, failed calls and retried pours, an iteration has one wisp,
\* as the contract of PourWisp says ("If a wisp with this key already exists,
\* returns the existing wisp's ID").  It rests on a listing with closed wisps.
OneWispPerIteration ==
    \A i, j \in DOMAIN wisp :
        Exists(i) /\ Exists(j) /\ wisp[i].iter = wisp[j].iter => i = j

\* The same, said only of the store the package is written against.
KeysAreIdempotent == loop.listsClosed => OneWispPerIteration

\* Never two agents at work for one loop: speculative wisps stay unassigned
\* until the one before them is closed.
OneAgentAtWork ==
    trouble.reap = 0 => Cardinality({i \in DOMAIN wisp : wisp[i].st = "live"}) <= 1

\* A straight loop works on an iteration only when the gate has judged the one
\* before it (its outcome is persisted, then reported), whatever crashed.
NoIterationSkipped ==
    Straight /\ CrashOnly =>
        \A i, j \in DOMAIN wisp :
            wisp[i].st \in {"live", "closed"} /\ Exists(j) /\ wisp[j].iter < wisp[i].iter =>
                \/ IterOf(meta.gated) = wisp[j].iter
                \/ \E e \in told : e.kind = "iteration" /\ e.n = wisp[j].iter

\* No wisp of a straight loop is ever poured past max_iterations, whatever crashed
\* and not even to be deleted again: not by the handlers, not by a speculative
\* pour, and not by the reconciliation that rebuilds the chain.
StraightBudget ==
    CrashOnly /\ Straight => \A i \in DOMAIN wisp : wisp[i].iter <= loop.max

\* Events carry stable ids and may be repeated: all reports of one iteration
\* say the same, and so do all reports of the loop's end.
ReportsAgree ==
    CrashOnly /\ loop.listsClosed /\ ~loop.trigger =>
        \A d, e \in told : d.kind = e.kind /\ d.n = e.n => d.what = e.what

\* The terminated event is delivered at least once: a loop that was announced
\* and whose root is closed has announced its end, with the reason it stored.
EndIsAnnounced ==
    root = "closed" /\ Announced =>
        [kind |-> "terminated", n |-> 0, what |-> meta.treason] \in told

\* A straight loop that ends leaves no wisp for an agent to find and, unless an
\* operator stopped it, no finished wisp that was not reported.
NoWorkLeftBehind ==
    Straight /\ CrashOnly /\ root = "closed" =>
        \A i \in DOMAIN wisp :
            /\ ~Open(i)
            /\ Closed(i) /\ meta.treason # "stopped" =>
                   \E e \in told : e.kind = "iteration" /\ e.n = wisp[i].iter

\* A loop that has started ends or waits for somebody: no crash leaves it
\* active with nobody to move it on.
LoopSettles ==
    (root = "open" /\ meta.state = "active" /\ loop.listsClosed /\ loop.gate # "unset")
        ~> (root = "closed" \/ meta.state \in {"waiting_manual", "waiting_trigger"}
            \/ ~CrashOnly)
=============================================================================
