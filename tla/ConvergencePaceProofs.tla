------------------------ MODULE ConvergencePaceProofs ------------------------
(***************************************************************************)
(* The pace of a straight loop (one with a gate script, no trigger, and no *)
(* timeout that waits for an operator), however often its controller dies: *)
(* no iteration is skipped, none is poured past max_iterations, and a loop *)
(* that ends leaves no work behind.                                        *)
(*                                                                         *)
(* Each place in a handler has an assertion of its own, as in a proof      *)
(* outline: the rest of the handler is described step by step, and with it *)
(* what holds of the root, the wisps and the events when it is reached.    *)
(***************************************************************************)
EXTENDS ConvergenceLoopProofs

Has(i)      == i \in DOMAIN wisp /\ wisp[i].st # "gone"
Shut(i)     == i \in DOMAIN wisp /\ wisp[i].st = "closed"
Reported(n) == \E e \in told : e.kind = "iteration" /\ e.n = n

\* The iteration of the active wisp, and the wisps beyond it.
Last     == wisp[meta.active].iter
Later(i) == Has(i) /\ wisp[i].iter > Last

\* The gate has judged the active wisp, and the loop goes on.
GoesOn ==
    /\ meta.gated = meta.active
    /\ meta.outcome # "pass"
    /\ meta.outcome = "timeout" => loop.onTimeout # "terminate"

\* What holds wherever the controller is, or has died: the iterations before the
\* active wisp are reported; one after it is the next, and is worked on only when
\* the gate has judged; a loop with a reason to end has nothing open.
Paced ==
    /\ meta.state \in {"active", "terminated"}
    /\ Has(meta.active) /\ Last <= loop.max
    /\ \A j : Has(j) /\ wisp[j].iter < Last => Reported(wisp[j].iter)
    /\ \A i : Later(i) => /\ wisp[i].iter = Last + 1
                          /\ Shut(meta.active) /\ Last < loop.max
                          /\ (wisp[i].st = "spec" \/ GoesOn)
    /\ meta.state = "active" => IterOf(meta.lpw) < Last
    /\ Given(meta.treason) =>
           \A i : Has(i) => Shut(i) /\ (meta.treason = "stopped" \/ Reported(wisp[i].iter))

-----------------------------------------------------------------------------
(* The places.  At... says that the handler has come to a step, To... only *)
(* that the step lies ahead.                                               *)

First(q, op)    == q # << >> /\ Head(q).op = op
FirstRef(q, k)  == First(q, "ref") /\ Head(q).key = k
FirstSet(q, k)  == First(q, "set") /\ Head(q).key = k
FirstEmit(q, k) == First(q, "emit") /\ Head(q).key = k
Behind(q)       == \A k \in 1..Len(q) : q[k].op \in {"stop_reread", "index"}

OnGoing   == meta.state = "active" /\ ~Given(meta.treason)
Finished  == OnGoing /\ Shut(meta.active)
Solo      == \A i : Has(i) => wisp[i].iter <= Last
Bare      == \A i : Has(i) => Shut(i) /\ wisp[i].iter <= Last
AllTold   == \A i : Has(i) => Shut(i) /\ Reported(wisp[i].iter)
NextIs(x) == Has(x) /\ wisp[x].iter = Last + 1

\* Between handlers and at the end of one, no wisp is beyond the active one.
AtRest(q)   == Behind(q) /\ OnGoing /\ Solo
AtScan(q)   == First(q, "reconcile") /\ Behind(Tail(q))
AtHandle(q) == First(q, "handle") /\ Head(q).w = meta.active /\ Behind(Tail(q)) /\ Finished

\* The pour ahead and the gate: below max_iterations the next wisp is there.
AtPour(q) ==
    /\ First(q, "pour") /\ Head(q).key = "speculative" /\ Behind(Tail(q)) /\ Finished
    /\ Head(q).x = meta.active /\ Head(q).w = Last + 1 /\ Last < loop.max
Weighs(s) ==
    /\ Finished /\ s.w = meta.active /\ s.v # "pour_failed"
    /\ IF s.x = None THEN Last = loop.max ELSE NextIs(s.x)
AtGate(q)    == First(q, "gate") /\ Behind(Tail(q)) /\ Weighs(Head(q))
AtPending(q) == FirstRef(q, "pending") /\ (AtPour(Tail(q)) \/ AtGate(Tail(q)))
ToSettle(q)  == First(q, "settle") /\ Behind(Tail(q)) /\ Weighs(Head(q))
AtSettle(q)  == ToSettle(q) /\ meta.gated = meta.active
AtMark(q)    == /\ FirstRef(q, "gated") /\ Head(q).w = meta.active
                /\ ToSettle(Tail(q)) /\ meta.gated # meta.active
AtOutcome(q) == FirstSet(q, "outcome") /\ AtMark(Tail(q))

\* The loop iterates.
Tidies(q)   == FirstRef(q, "pending") /\ Behind(Tail(q))
AtTidy(q)   == Tidies(q) /\ OnGoing /\ Solo
AtDone(q)   == /\ FirstRef(q, "lpw") /\ IterOf(Head(q).w) < Last
               /\ Tidies(Tail(q)) /\ OnGoing /\ Solo
ToDone(q)   == FirstRef(q, "lpw") /\ Head(q).w = meta.active /\ Tidies(Tail(q))
ToNext(q)   == FirstRef(q, "active") /\ NextIs(Head(q).w) /\ ToDone(Tail(q)) /\ Finished
AtNext(q)   == ToNext(q) /\ Last < loop.max /\ Reported(Last)
AtReport(q) == FirstEmit(q, "iteration") /\ Head(q).w = Last /\ ToNext(Tail(q)) /\ Last < loop.max
AtActivate(q) == First(q, "activate") /\ NextIs(Head(q).w) /\ GoesOn /\ AtReport(Tail(q))

\* The loop has ended, or a reason to end is stored.
Quiet(s) ==
    \/ s.op \in {"emit", "close_root", "stop_reread", "index"} /\ ~Announces(s)
    \/ s.op = "ref" /\ s.key = "lpw"
Quiets(q)   == \A k \in 1..Len(q) : Quiet(q[k])
AtEnd(q)    == meta.state = "terminated" /\ Quiets(q)
Ending(q)   == q # << >> /\ Ends(Head(q)) /\ Quiets(Tail(q))
NearEnd(q)  == /\ (First(q, "emit") /\ ~Announces(Head(q))) \/ FirstSet(q, "wreason")
               /\ Ending(Tail(q))
AtEnding(q) == meta.state = "active" /\ Given(meta.treason) /\ (Ending(q) \/ NearEnd(q))

\* It is brought to an end: a wisp poured ahead is deleted first.
Concludes(q) ==
    /\ q # << >> /\ SetsReason(Head(q)) /\ Given(Head(q).v)
    /\ Ending(Tail(q)) \/ NearEnd(Tail(q))
AtReason(q) ==
    /\ Concludes(q) /\ OnGoing
    /\ \A i : Has(i) => Shut(i) /\ (Head(q).v = "stopped" \/ Reported(wisp[i].iter))
ToFarewell(q) == FirstEmit(q, "terminated") /\ Concludes(Tail(q))
AtFarewell(q) == ToFarewell(q) /\ OnGoing /\ AllTold
ToVerdict(q)  == FirstEmit(q, "iteration") /\ Head(q).w = Last /\ ToFarewell(Tail(q))
AtVerdict(q)  == ToVerdict(q) /\ Finished /\ Bare
AtUnpend(q)   == FirstRef(q, "pending") /\ ToVerdict(Tail(q)) /\ Finished /\ Bare
AtBurn(q) ==
    /\ First(q, "delete") /\ FirstRef(Tail(q), "pending") /\ ToVerdict(Tail(Tail(q)))
    /\ Finished /\ Later(Head(q).w)
    /\ \A i : Later(i) => i = Head(q).w /\ wisp[i].st = "spec"

\* An operator stops it.
AtStop(q)   == First(q, "stop") /\ Behind(Tail(q)) /\ OnGoing /\ Solo
AtForce(q)  == First(q, "stop_force") /\ Head(q).w = meta.active /\ Behind(Tail(q)) /\ OnGoing /\ Solo
Commits(q)  == First(q, "stop_commit") /\ Behind(Tail(q))
AtKill(q)   == First(q, "close_wisp") /\ Head(q).w = meta.active /\ Commits(Tail(q)) /\ OnGoing /\ Solo
AtCommit(q) == Commits(q) /\ OnGoing /\ Bare

Waits(q)    == AtRest(q) \/ AtScan(q) \/ AtHandle(q)
Gates(q)    == AtPour(q) \/ AtGate(q) \/ AtPending(q) \/ AtSettle(q) \/ AtMark(q) \/ AtOutcome(q)
Iterates(q) == AtTidy(q) \/ AtDone(q) \/ AtNext(q) \/ AtReport(q) \/ AtActivate(q)
Leaves(q)   == AtReason(q) \/ AtFarewell(q) \/ AtVerdict(q) \/ AtUnpend(q) \/ AtBurn(q)
Stops(q)    == AtStop(q) \/ AtForce(q) \/ AtKill(q) \/ AtCommit(q)

Place(q) ==
    Waits(q) \/ Gates(q) \/ Iterates(q) \/ AtEnd(q) \/ AtEnding(q) \/ Leaves(q) \/ Stops(q)

-----------------------------------------------------------------------------
(* The creation, up to the announcement.                                   *)

Unused == meta.lpw = None /\ ~Given(meta.treason) /\ wisp = << >>
New(i) == /\ meta.lpw = None /\ ~Given(meta.treason) /\ meta.state = "active"
          /\ i = 1 /\ Len(wisp) = 1 /\ wisp[1].iter = 1 /\ wisp[1].st \in {"live", "closed"}

ToCrown(q)   == q # << >> /\ Announces(Head(q)) /\ Tail(q) = << >>
AtCrown(q)   == ToCrown(q) /\ New(meta.active)
AtSeat(q)    == FirstRef(q, "active") /\ New(Head(q).w) /\ ToCrown(Tail(q))
ToFirst(q)   == First(q, "pour") /\ Head(q).key = "create" /\ Head(q).w = 1 /\ Tail(q) = << >>
AtFirst(q)   == ToFirst(q) /\ Unused /\ meta.state = "active"
ToActive(q)  == q # << >> /\ Sets(Head(q), "active") /\ ToFirst(Tail(q))
ToFormula(q) == FirstSet(q, "formula") /\ ToActive(Tail(q))
ToState(q)   == FirstSet(q, "state") /\ ToFormula(Tail(q))
ToBead(q)    == First(q, "create") /\ ToState(Tail(q))
AtBirth(q)   == Unused /\ (ToActive(q) \/ ToFormula(q) \/ ToState(q) \/ ToBead(q))

Birth(q) == AtBirth(q) \/ AtFirst(q) \/ AtSeat(q) \/ AtCrown(q)

Made ==
    /\ root = "none" => Unused
    /\ ~loop.trigger /\ todo # << >> /\ Creates(Head(todo)) => Birth(todo)

PaceInv ==
    CrashOnly => Made /\ (Straight => Paced /\ (up => Place(todo)))
-----------------------------------------------------------------------------
(* The wisps, and the rest of a handler.                                   *)

\* The wisps, as the handlers ask for them.
LEMMA WispsAre ==
    ASSUME TypeInv
    PROVE  /\ DOMAIN wisp = 1..Len(wisp) /\ Len(wisp) \in Nat
           /\ \A i : Has(i) => i \in 1..Len(wisp) /\ i # None /\ wisp[i].iter \in Nat /\ IterOf(i) = wisp[i].iter
           /\ \A i \in 0..Len(wisp) : /\ Exists(i) <=> Has(i)
                                      /\ Closed(i) <=> Shut(i)
                                      /\ Open(i) <=> Has(i) /\ ~Shut(i)
                                      /\ ~Has(i) => IterOf(i) = 0
           /\ \A i : Shut(i) => Has(i)
           /\ meta.active \in 0..Len(wisp) /\ meta.lpw \in 0..Len(wisp)
           /\ meta.pending \in 0..Len(wisp) /\ meta.gated \in 0..Len(wisp)
           /\ loop.max \in Nat \ {0}
<1>1. wisp \in Seq(Wisps)
  BY DEF TypeInv
<1>2. DOMAIN wisp = 1..Len(wisp) /\ Len(wisp) \in Nat /\ \A i \in 1..Len(wisp) : wisp[i] \in Wisps
  BY <1>1
<1>3. \A i \in 1..Len(wisp) : wisp[i].iter \in Nat
  BY <1>2 DEF Wisps
<1>4. \A i : Has(i) => i \in 1..Len(wisp) /\ i # None /\ wisp[i].iter \in Nat /\ IterOf(i) = wisp[i].iter
  BY <1>2, <1>3 DEF Has, IterOf, Exists, None
<1>5. \A i \in 0..Len(wisp) : /\ Exists(i) <=> Has(i)
                              /\ Closed(i) <=> Shut(i)
                              /\ Open(i) <=> Has(i) /\ ~Shut(i)
                              /\ ~Has(i) => IterOf(i) = 0
  BY <1>2 DEF Has, Shut, IterOf, Exists, Open, Closed, None
<1>6. \A i : Shut(i) => Has(i)
  BY DEF Has, Shut
<1>7. meta \in Metas(Len(wisp)) /\ loop \in Loops
  BY DEF TypeInv
<1>8. meta.active \in 0..Len(wisp) /\ meta.lpw \in 0..Len(wisp)
      /\ meta.pending \in 0..Len(wisp) /\ meta.gated \in 0..Len(wisp)
  BY <1>7 DEF Metas
<1>9. loop.max \in Nat \ {0}
  BY <1>7, LoopsAssumption
<1> QED BY <1>2, <1>4, <1>5, <1>6, <1>8, <1>9

\* Where the open wisp stands, said of the wisps themselves.
LEMMA OpenIs ==
    ASSUME TypeInv, Kept(Here)
    PROVE  /\ \A i, j : Has(i) /\ ~Shut(i) /\ Has(j) /\ ~Shut(j) => i = j
           /\ meta.active # None => Has(meta.active)
           /\ meta.state = "active" /\ Shut(meta.active) =>
                 \A i : Has(i) /\ ~Shut(i) => wisp[i].iter = Last + 1
           /\ \A i : Has(i) => Given(meta.formula)
<1>1. /\ \A i \in 0..Len(wisp) : /\ Exists(i) <=> i \in There(Here)
                                 /\ Open(i) <=> i \in Here.open
                                 /\ Closed(i) <=> i \in Here.shut
      /\ \A i \in There(Here) : Here.iter[i] = wisp[i].iter
      /\ Here.active = meta.active /\ Here.state = meta.state /\ Here.formula = meta.formula
  BY HereWisps, HereIs DEF There
<1>2. /\ \A i : Has(i) => i \in 0..Len(wisp)
      /\ \A i \in 0..Len(wisp) : /\ Exists(i) <=> Has(i)
                                 /\ Closed(i) <=> Shut(i)
                                 /\ Open(i) <=> Has(i) /\ ~Shut(i)
      /\ meta.active \in 0..Len(wisp) /\ \A i : Shut(i) => Has(i)
  BY WispsAre
<1>3. /\ \A i : Has(i) <=> i \in 0..Len(wisp) /\ i \in There(Here)
      /\ \A i : Has(i) /\ ~Shut(i) => i \in Here.open
      /\ Shut(meta.active) => meta.active \in Here.shut
  BY <1>1, <1>2
<1>4. OneOpen(Here) /\ Placed(Here)
  BY DEF Kept
<1>5. \A i, j : Has(i) /\ ~Shut(i) /\ Has(j) /\ ~Shut(j) => i = j
  BY <1>3, <1>4 DEF OneOpen
<1>6. meta.active # None => Has(meta.active)
  BY <1>1, <1>2, <1>3, <1>4 DEF Placed
<1>7. ASSUME meta.state = "active", Shut(meta.active), NEW i, Has(i), ~Shut(i)
      PROVE  wisp[i].iter = Last + 1
  <2>1. i \in Here.open /\ i \in There(Here) /\ meta.active \in There(Here) /\ Here.active \in Here.shut
    BY <1>1, <1>2, <1>3, <1>7
  <2>2. Here.open = {} \/ AllOpen(Here, Here.iter[Here.active] + 1)
    BY <1>1, <1>4, <1>7, <2>1 DEF Placed
  <2> QED BY <1>1, <2>1, <2>2 DEF AllOpen, Last
<1>8. ASSUME NEW i, Has(i) PROVE Given(meta.formula)
  <2>1. i \in There(Here)
    BY <1>3, <1>8
  <2>2. ~Given(meta.formula) => Empty(Here)
    BY <1>1, <1>4 DEF Placed
  <2> QED BY <2>1, <2>2 DEF Empty, There
<1> QED BY <1>5, <1>6, <1>7, <1>8

\* What trails behind.
LEMMA BehindIs ==
    ASSUME NEW S, NEW q \in Seq(S), q # << >>
    PROVE  /\ Behind(q) => Head(q).op \in {"stop_reread", "index"} /\ Behind(Tail(q))
           /\ Quiets(q) => Quiet(Head(q)) /\ Quiets(Tail(q))
<1>1. /\ Head(q) = q[1] /\ 1 \in 1..Len(q)
      /\ \A k \in 1..Len(Tail(q)) : k + 1 \in 1..Len(q) /\ Tail(q)[k] = q[k + 1]
  BY TailIs
<1>2. Behind(q) => Head(q).op \in {"stop_reread", "index"}
  BY <1>1 DEF Behind
<1>3. Behind(q) => Behind(Tail(q))
  BY <1>1 DEF Behind
<1>4. Quiets(q) => Quiet(Head(q))
  BY <1>1 DEF Quiets
<1>5. Quiets(q) => Quiets(Tail(q))
  BY <1>1 DEF Quiets
<1> QED BY <1>2, <1>3, <1>4, <1>5

\* What trails behind is quiet.
LEMMA BehindIsQuiet ==
    ASSUME NEW q, Behind(q)
    PROVE  Quiets(q)
BY DEF Behind, Quiets, Quiet, Announces

\* The steps of a sequence before others.
LEMMA JoinHead ==
    ASSUME NEW S, NEW p \in Seq(S), NEW r \in Seq(S), p # << >>
    PROVE  p \o r # << >> /\ Head(p \o r) = Head(p) /\ Tail(p \o r) = Tail(p) \o r
           /\ p \o r \in Seq(S)
<1>1. p \o r \in Seq(S) /\ Len(p \o r) = Len(p) + Len(r) /\ Len(p) \in Nat \ {0} /\ Len(r) \in Nat
  OBVIOUS
<1>2. p \o r # << >>
  BY <1>1
<1>3. Head(p \o r) = Head(p)
  BY <1>1, <1>2
<1>4. Tail(p \o r) \in Seq(S) /\ Len(Tail(p \o r)) = Len(p) + Len(r) - 1
  BY <1>1, <1>2
<1>5. Tail(p) \in Seq(S) /\ Len(Tail(p)) = Len(p) - 1
  OBVIOUS
<1>6. Tail(p) \o r \in Seq(S) /\ Len(Tail(p) \o r) = Len(p) + Len(r) - 1
  BY <1>1, <1>5
<1>7. ASSUME NEW k \in 1..Len(p) + Len(r) - 1
      PROVE  Tail(p \o r)[k] = (Tail(p) \o r)[k]
  <2>1. Tail(p \o r)[k] = (p \o r)[k + 1]
    BY <1>1, <1>2
  <2>2. CASE k <= Len(p) - 1
    <3>1. k + 1 \in 1..Len(p) /\ k \in 1..Len(Tail(p))
      BY <1>1, <1>5, <2>2
    <3>2. (p \o r)[k + 1] = p[k + 1]
      BY <3>1
    <3>3. (Tail(p) \o r)[k] = Tail(p)[k]
      BY <1>5, <3>1
    <3>4. Tail(p)[k] = p[k + 1]
      BY <1>1, <1>5, <3>1
    <3> QED BY <2>1, <3>2, <3>3, <3>4
  <2>3. CASE k > Len(p) - 1
    <3>1. (p \o r)[k + 1] = r[k + 1 - Len(p)]
      BY <1>1, <2>3
    <3>2. (Tail(p) \o r)[k] = r[k - (Len(p) - 1)]
      BY <1>1, <1>5, <2>3
    <3>3. k + 1 - Len(p) = k - (Len(p) - 1)
      BY <1>1
    <3> QED BY <2>1, <3>1, <3>2, <3>3
  <2> QED BY <1>1, <2>2, <2>3
<1>8. Tail(p \o r) = Tail(p) \o r
  BY <1>4, <1>6, <1>7, SeqEqual
<1> QED BY <1>1, <1>2, <1>3, <1>8
\* The place, by the step that is due.
LEMMA WhichPlace ==
    ASSUME TypeInv, todo # << >>, Place(todo)
    PROVE  /\ s0.op = "set" => AtOutcome(todo) \/ AtEnding(todo) \/ AtReason(todo)
           /\ s0.op = "ref" => \/ AtPending(todo) \/ AtMark(todo) \/ AtTidy(todo) \/ AtDone(todo)
                               \/ AtNext(todo) \/ AtUnpend(todo)
                               \/ AtEnd(todo) /\ s0.key = "lpw"
           /\ s0.op = "emit" => /\ ~Announces(s0)
                                /\ \/ AtReport(todo) \/ AtEnding(todo) \/ AtEnd(todo)
                                   \/ AtFarewell(todo) \/ AtVerdict(todo)
           /\ s0.op = "close_root" => AtEnd(todo)
           /\ s0.op = "close_wisp" => AtKill(todo)
           /\ s0.op = "delete" => AtBurn(todo)
           /\ s0.op = "activate" => AtActivate(todo)
           /\ s0.op = "pour" => AtPour(todo)
           /\ s0.op = "gate" => AtGate(todo)
           /\ s0.op = "handle" => AtHandle(todo)
           /\ s0.op = "settle" => AtSettle(todo)
           /\ s0.op = "reconcile" => AtScan(todo)
           /\ s0.op = "stop" => AtStop(todo)
           /\ s0.op = "stop_force" => AtForce(todo)
           /\ s0.op = "stop_commit" => AtCommit(todo)
           /\ s0.op \in {"stop_reread", "index"} => AtRest(todo) \/ AtEnd(todo)
           /\ s0.op \notin {"create", "error"}
<1>1. s0 = Head(todo) /\ todo \in Seq(Steps(Len(wisp)))
  BY DEF s0, TypeInv
<1>2. /\ Behind(todo) => s0.op \in {"stop_reread", "index"}
      /\ Quiets(todo) => Quiet(s0)
  BY <1>1, BehindIs
<1>3. CASE Waits(todo)
  BY <1>1, <1>2, <1>3 DEF Waits, AtRest, AtScan, AtHandle, First
<1>4. CASE Gates(todo)
  BY <1>1, <1>4 DEF Gates, AtPour, AtGate, AtPending, ToSettle, AtSettle, AtMark, AtOutcome, First, FirstRef, FirstSet
<1>5. CASE Iterates(todo)
  BY <1>1, <1>5 DEF Iterates, Tidies, AtTidy, AtDone, ToNext, AtNext, AtReport, AtActivate, First, FirstRef, FirstEmit, Announces
<1>6. CASE AtEnd(todo)
  BY <1>1, <1>2, <1>6 DEF AtEnd, Quiet, Announces
<1>7. CASE AtEnding(todo)
  BY <1>1, <1>7, SMTT(30) DEF AtEnding, Ending, NearEnd, Ends, SetsState, First, FirstSet
<1>8. CASE Leaves(todo)
  BY <1>1, <1>8 DEF Leaves, AtReason, Concludes, SetsReason, ToFarewell, AtFarewell, ToVerdict, AtVerdict, AtUnpend,
                    AtBurn, First, FirstRef, FirstEmit, Announces
<1>9. CASE Stops(todo)
  BY <1>1, <1>9 DEF Stops, AtStop, AtForce, AtKill, Commits, AtCommit, First
<1> QED BY <1>3, <1>4, <1>5, <1>6, <1>7, <1>8, <1>9 DEF Place

\* What the pace rests on is left alone.
Rested ==
    /\ loop' = loop /\ wisp' = wisp /\ \A e \in told : e \in told'
    /\ meta'.state = meta.state /\ meta'.treason = meta.treason /\ meta'.active = meta.active

\* A step that touches nothing the pace is about.
LEMMA PacedRests ==
    ASSUME Paced, Rested, meta'.lpw = meta.lpw \/ meta.state = "terminated",
           GoesOn => GoesOn'
    PROVE  Paced'
BY DEF Paced, Rested, Has, Shut, Last, Later, Reported, IterOf, Exists

\* Such a step leaves the assertions as they are.
LEMMA StateRests ==
    ASSUME Rested
    PROVE  /\ (OnGoing <=> OnGoing') /\ (Finished <=> Finished') /\ (Solo <=> Solo') /\ (Bare <=> Bare')
           /\ Last' = Last
           /\ AllTold => AllTold'
           /\ \A x : (NextIs(x) <=> NextIs(x)') /\ (Has(x) <=> Has(x)') /\ (Later(x) <=> Later(x)')
           /\ \A n : Reported(n) => Reported(n)'
BY DEF Rested, OnGoing, Finished, Solo, Bare, AllTold, NextIs, Has, Shut, Last, Later, Reported
-----------------------------------------------------------------------------
(* The steps of a handler.                                                 *)

\* What a reference written changes.
LEMMA RefWritten ==
    ASSUME LoopInv, SetReference
    PROVE  /\ todo # << >> /\ todo' = Tail(todo) /\ s0 = Head(todo) /\ todo \in Seq(Steps(Len(wisp)))
           /\ loop' = loop /\ wisp' = wisp /\ told' = told /\ root' = root
           /\ meta'.state = meta.state /\ meta'.treason = meta.treason /\ meta'.outcome = meta.outcome
           /\ meta'.active = IF s0.key = "active" THEN s0.w ELSE meta.active
           /\ meta'.lpw = IF s0.key = "lpw" THEN s0.w ELSE meta.lpw
           /\ meta'.gated = IF s0.key = "gated" THEN s0.w ELSE meta.gated
<1>1. /\ todo # << >> /\ s0.op = "ref" /\ meta' = [meta EXCEPT ![s0.key] = s0.w] /\ todo' = Tail(todo)
      /\ loop' = loop /\ wisp' = wisp /\ told' = told /\ root' = root
  BY DEF SetReference, At, Go
<1>2. meta \in Metas(Len(wisp)) /\ todo \in Seq(Steps(Len(wisp)))
  BY DEF LoopInv, TypeInv
<1>3. s0.key \in RefKeys /\ s0 = Head(todo)
  BY <1>1, HeadIs DEF Steps, s0
<1>4. meta' = [meta EXCEPT ![s0.key] = s0.w] /\ s0.key \in {"active", "lpw", "pending", "gated"}
  BY <1>1, <1>3 DEF RefKeys
<1>5. /\ meta'.state = meta.state /\ meta'.treason = meta.treason /\ meta'.outcome = meta.outcome
      /\ meta'.active = IF s0.key = "active" THEN s0.w ELSE meta.active
      /\ meta'.lpw = IF s0.key = "lpw" THEN s0.w ELSE meta.lpw
      /\ meta'.gated = IF s0.key = "gated" THEN s0.w ELSE meta.gated
  BY <1>2, <1>4 DEF Metas
<1> QED BY <1>1, <1>2, <1>3, <1>5

\* A reference is written.
LEMMA SetReferencePaced ==
    ASSUME LoopInv, LoopInv', Kept(Here), Paced, Place(todo), SetReference
    PROVE  Paced' /\ Place(todo)'
<1>1. /\ todo # << >> /\ todo' = Tail(todo) /\ s0 = Head(todo) /\ todo \in Seq(Steps(Len(wisp)))
      /\ loop' = loop /\ wisp' = wisp /\ told' = told /\ root' = root
      /\ meta'.state = meta.state /\ meta'.treason = meta.treason /\ meta'.outcome = meta.outcome
      /\ meta'.active = IF s0.key = "active" THEN s0.w ELSE meta.active
      /\ meta'.lpw = IF s0.key = "lpw" THEN s0.w ELSE meta.lpw
      /\ meta'.gated = IF s0.key = "gated" THEN s0.w ELSE meta.gated
  BY RefWritten
<1>2. \/ AtPending(todo) \/ AtMark(todo) \/ AtTidy(todo) \/ AtDone(todo)
      \/ AtNext(todo) \/ AtUnpend(todo)
      \/ AtEnd(todo) /\ s0.key = "lpw"
  BY <1>1, WhichPlace DEF SetReference, At, LoopInv
<1>3. s0.key # "active" => Rested
  BY <1>1 DEF Rested
<1>4. ASSUME s0.key = "pending" PROVE Paced' /\ Rested
  <2>1. Rested /\ (GoesOn => GoesOn') /\ meta'.lpw = meta.lpw
    BY <1>1, <1>3, <1>4 DEF GoesOn
  <2> QED BY <2>1, PacedRests
<1>5. CASE AtPending(todo)
  <2>1. Paced' /\ Rested /\ s0.key = "pending"
    BY <1>1, <1>4, <1>5 DEF AtPending, FirstRef
  <2>2. AtPour(Tail(todo)) => AtPour(todo)'
    BY <1>1, <2>1, StateRests DEF AtPour, First, Rested
  <2>3. AtGate(Tail(todo)) => AtGate(todo)'
    BY <1>1, <2>1, StateRests DEF AtGate, First, Rested, Weighs, NextIs, Has
  <2> QED BY <1>5, <2>1, <2>2, <2>3 DEF AtPending, Place, Gates
<1>6. CASE AtTidy(todo)
  <2>1. Paced' /\ Rested /\ s0.key = "pending"
    BY <1>1, <1>4, <1>6 DEF AtTidy, Tidies, FirstRef
  <2>2. AtRest(todo)'
    BY <1>1, <1>6, <2>1, StateRests DEF AtTidy, Tidies, AtRest
  <2> QED BY <2>1, <2>2 DEF Place, Waits
<1>7. CASE AtUnpend(todo)
  <2>1. Paced' /\ Rested /\ s0.key = "pending"
    BY <1>1, <1>4, <1>7 DEF AtUnpend, FirstRef
  <2>2. AtVerdict(todo)'
    BY <1>1, <1>7, <2>1, StateRests DEF AtUnpend, AtVerdict, ToVerdict
  <2> QED BY <2>1, <2>2 DEF Place, Leaves
<1>8. CASE AtEnd(todo) /\ s0.key = "lpw"
  <2>1. Rested /\ (GoesOn => GoesOn') /\ meta.state = "terminated"
    BY <1>1, <1>3, <1>8 DEF GoesOn, AtEnd
  <2>2. Paced'
    BY <2>1, PacedRests
  <2>3. AtEnd(todo)'
    BY <1>1, <1>8, BehindIs DEF AtEnd
  <2> QED BY <2>2, <2>3 DEF Place
<1>9. CASE AtMark(todo)
  <2>1. Rested /\ s0.key = "gated" /\ s0.w = meta.active /\ ~GoesOn
    BY <1>1, <1>3, <1>9 DEF AtMark, FirstRef, GoesOn
  <2>2. Paced'
    BY <1>1, <2>1, PacedRests
  <2>3. AtSettle(todo)'
    BY <1>1, <1>9, <2>1, StateRests DEF AtMark, ToSettle, AtSettle, First, Weighs, NextIs, Has, Rested
  <2> QED BY <2>2, <2>3 DEF Place, Gates
<1>10. CASE AtDone(todo)
  <2>1. Rested /\ s0.key = "lpw" /\ IterOf(s0.w) < Last
    BY <1>1, <1>3, <1>10 DEF AtDone, FirstRef
  <2>2. IterOf(meta.lpw)' < Last'
    BY <1>1, <2>1 DEF IterOf, Exists, Last
  <2>3. Paced'
    BY <1>1, <2>1, <2>2 DEF Paced, Has, Shut, Last, Later, Reported, GoesOn
  <2>4. AtTidy(todo)'
    BY <1>1, <1>10, <2>1, StateRests DEF AtDone, Tidies, AtTidy
  <2> QED BY <2>3, <2>4 DEF Place, Iterates
<1>11. CASE AtNext(todo)
  <2>1. /\ s0.key = "active" /\ Has(s0.w) /\ wisp[s0.w].iter = Last + 1
        /\ Last < loop.max /\ Reported(Last) /\ OnGoing /\ ToDone(Tail(todo))
        /\ Has(meta.active)
    BY <1>1, <1>11 DEF AtNext, ToNext, FirstRef, NextIs, Finished, Paced
  <2>2. /\ \A i : Has(i) => wisp[i].iter \in Nat /\ IterOf(i) = wisp[i].iter
        /\ loop.max \in Nat
    BY WispsAre DEF LoopInv
  <2>3. Last \in Nat /\ IterOf(meta.active) = Last
    BY <2>1, <2>2 DEF Last
  <2>4. Last' = Last + 1 /\ \A i : Has(i)' <=> Has(i)
    BY <1>1, <2>1 DEF Last, Has
  <2>5. \A i : Has(i) => wisp[i].iter <= Last + 1
    BY <2>2, <2>3 DEF Paced, Later
  <2>6. /\ Has(meta.active)' /\ Last' <= loop'.max /\ ~Given(meta'.treason) /\ meta'.state = "active"
    BY <1>1, <2>1, <2>2, <2>3, <2>4 DEF Has, OnGoing
  <2>7. (\A j : Has(j) /\ wisp[j].iter < Last => Reported(wisp[j].iter))'
    <3>1. ASSUME NEW j, Has(j), wisp[j].iter < Last + 1 PROVE Reported(wisp[j].iter)
      <4>1. wisp[j].iter < Last \/ wisp[j].iter = Last
        BY <2>2, <2>3, <3>1
      <4> QED BY <2>1, <3>1, <4>1 DEF Paced
    <3> QED BY <1>1, <2>4, <3>1 DEF Reported
  <2>8. Solo'
    BY <1>1, <2>4, <2>5 DEF Solo
  <2>9. \A i : ~Later(i)'
    BY <1>1, <2>2, <2>3, <2>4, <2>5 DEF Later
  <2>10. IterOf(meta.lpw)' < Last'
    <3>1. IterOf(meta.lpw) < Last
      BY <2>1 DEF Paced, OnGoing
    <3>2. IterOf(meta.lpw) \in Nat
      BY WispsAre DEF LoopInv
    <3>3. IterOf(meta.lpw)' = IterOf(meta.lpw)
      BY <1>1, <2>1 DEF IterOf, Exists
    <3> QED BY <2>3, <2>4, <3>1, <3>2, <3>3
  <2>11. Paced'
    BY <2>6, <2>7, <2>9, <2>10 DEF Paced
  <2>12. IterOf(Head(Tail(todo)).w) < Last + 1
    <3>1. Head(Tail(todo)).w = meta.active
      BY <2>1 DEF ToDone
    <3>2. Last < Last + 1
      BY <2>3
    <3> QED BY <2>3, <3>1, <3>2
  <2>13. AtDone(todo)'
    BY <1>1, <2>1, <2>4, <2>6, <2>8, <2>12 DEF AtDone, ToDone, OnGoing, IterOf, Exists
  <2> QED BY <2>11, <2>13 DEF Place, Iterates
<1> QED BY <1>2, <1>5, <1>6, <1>7, <1>8, <1>9, <1>10, <1>11
\* What a write changes.
LEMMA SetWritten ==
    ASSUME LoopInv, SetMetadata
    PROVE  /\ todo # << >> /\ todo' = Tail(todo) /\ s0 = Head(todo) /\ todo \in Seq(Steps(Len(wisp)))
           /\ loop' = loop /\ wisp' = wisp /\ told' = told /\ root' = root /\ s0.op = "set"
           /\ meta'.active = meta.active /\ meta'.lpw = meta.lpw /\ meta'.gated = meta.gated
           /\ meta'.state = IF s0.key = "state" THEN s0.v ELSE meta.state
           /\ meta'.treason = IF s0.key = "treason" THEN s0.v ELSE meta.treason
           /\ meta'.outcome = IF s0.key = "outcome" THEN s0.v ELSE meta.outcome
<1>1. /\ todo # << >> /\ s0.op = "set" /\ meta' = [meta EXCEPT ![s0.key] = s0.v] /\ todo' = Tail(todo)
      /\ loop' = loop /\ wisp' = wisp /\ told' = told /\ root' = root
  BY DEF SetMetadata, At, Go
<1>2. meta \in Metas(Len(wisp)) /\ todo \in Seq(Steps(Len(wisp)))
  BY DEF LoopInv, TypeInv
<1>3. s0.key \in SetKeys /\ s0 = Head(todo)
  BY <1>1, HeadIs DEF Steps, s0
<1>4. meta' = [meta EXCEPT ![s0.key] = s0.v] /\ s0.key \in {"state", "formula", "treason", "wreason", "outcome"}
  BY <1>1, <1>3 DEF SetKeys
<1>5. /\ meta'.active = meta.active /\ meta'.lpw = meta.lpw /\ meta'.gated = meta.gated
      /\ meta'.state = IF s0.key = "state" THEN s0.v ELSE meta.state
      /\ meta'.treason = IF s0.key = "treason" THEN s0.v ELSE meta.treason
      /\ meta'.outcome = IF s0.key = "outcome" THEN s0.v ELSE meta.outcome
  BY <1>2, <1>4 DEF Metas
<1> QED BY <1>1, <1>2, <1>3, <1>5

\* Metadata is written.
LEMMA SetMetadataPaced ==
    ASSUME LoopInv, LoopInv', Paced, Place(todo), SetMetadata
    PROVE  Paced' /\ Place(todo)'
<1>1. /\ todo # << >> /\ todo' = Tail(todo) /\ s0 = Head(todo) /\ todo \in Seq(Steps(Len(wisp)))
      /\ loop' = loop /\ wisp' = wisp /\ told' = told /\ root' = root /\ s0.op = "set"
      /\ meta'.active = meta.active /\ meta'.lpw = meta.lpw /\ meta'.gated = meta.gated
      /\ meta'.state = IF s0.key = "state" THEN s0.v ELSE meta.state
      /\ meta'.treason = IF s0.key = "treason" THEN s0.v ELSE meta.treason
      /\ meta'.outcome = IF s0.key = "outcome" THEN s0.v ELSE meta.outcome
  BY SetWritten
<1>2. AtOutcome(todo) \/ AtEnding(todo) \/ AtReason(todo)
  BY <1>1, WhichPlace DEF LoopInv
<1>3. s0.key \notin {"state", "treason"} => Rested
  BY <1>1 DEF Rested
<1>4. CASE AtOutcome(todo)
  <2>1. s0.key = "outcome" /\ meta.gated # meta.active /\ AtMark(Tail(todo))
    BY <1>1, <1>4 DEF AtOutcome, FirstSet, AtMark
  <2>2. Rested /\ ~GoesOn
    BY <1>3, <2>1 DEF GoesOn
  <2>3. Paced'
    BY <1>1, <2>2, PacedRests
  <2>4. AtMark(todo)'
    BY <1>1, <2>1, <2>2, StateRests DEF AtMark, ToSettle, First, FirstRef, Weighs, NextIs, Has, Rested
  <2> QED BY <2>3, <2>4 DEF Place, Gates
<1>5. CASE AtReason(todo)
  <2>1. /\ s0.key = "treason" /\ Given(s0.v) /\ OnGoing
        /\ Ending(Tail(todo)) \/ NearEnd(Tail(todo))
        /\ \A i : Has(i) => Shut(i) /\ (s0.v = "stopped" \/ Reported(wisp[i].iter))
    BY <1>1, <1>5 DEF AtReason, Concludes, SetsReason
  <2>2. meta'.treason = s0.v /\ meta'.state = meta.state /\ meta'.outcome = meta.outcome
    BY <1>1, <2>1
  <2>3. Paced'
    BY <1>1, <2>1, <2>2 DEF Paced, Has, Shut, Last, Later, Reported, GoesOn, IterOf, Exists
  <2>4. AtEnding(todo)'
    BY <1>1, <2>1, <2>2 DEF AtEnding, OnGoing
  <2> QED BY <2>3, <2>4 DEF Place
<1>6. CASE AtEnding(todo) /\ NearEnd(todo)
  <2>1. s0.key = "wreason" /\ Ending(Tail(todo)) /\ meta.state = "active" /\ Given(meta.treason)
    BY <1>1, <1>6 DEF AtEnding, NearEnd, First, FirstSet
  <2>2. Rested /\ (GoesOn => GoesOn')
    BY <1>1, <1>3, <2>1 DEF GoesOn
  <2>3. Paced'
    BY <1>1, <2>2, PacedRests
  <2>4. AtEnding(todo)'
    BY <1>1, <2>1, <2>2 DEF AtEnding, Rested
  <2> QED BY <2>3, <2>4 DEF Place
<1>7. CASE AtEnding(todo) /\ Ending(todo)
  <2>1. s0.key = "state" /\ s0.v = "terminated" /\ Quiets(Tail(todo))
    BY <1>1, <1>7 DEF Ending, Ends, SetsState
  <2>2. meta'.treason = meta.treason /\ meta'.state = "terminated" /\ meta'.outcome = meta.outcome
    BY <1>1, <2>1
  <2>3. Paced'
    BY <1>1, <2>2 DEF Paced, Has, Shut, Last, Later, Reported, GoesOn
  <2>4. AtEnd(todo)'
    BY <1>1, <2>1, <2>2 DEF AtEnd
  <2> QED BY <2>3, <2>4 DEF Place
<1> QED BY <1>2, <1>4, <1>5, <1>6, <1>7 DEF AtEnding

\* An event is emitted.
LEMMA EmitEventPaced ==
    ASSUME LoopInv, LoopInv', Kept(Here), Paced, Place(todo), EmitEvent
    PROVE  Paced' /\ Place(todo)'
<1>1. /\ todo # << >> /\ todo' = Tail(todo) /\ s0 = Head(todo) /\ todo \in Seq(Steps(Len(wisp)))
      /\ loop' = loop /\ wisp' = wisp /\ meta' = meta /\ s0.op = "emit"
      /\ told' = told \cup {[kind |-> s0.key, n |-> s0.w, what |-> s0.v]}
  BY DEF EmitEvent, At, Go, s0, LoopInv, TypeInv
<1>2. AtReport(todo) \/ AtEnding(todo) \/ AtEnd(todo) \/ AtFarewell(todo) \/ AtVerdict(todo)
  BY <1>1, WhichPlace DEF LoopInv
<1>3. Rested /\ (GoesOn => GoesOn') /\ meta'.lpw = meta.lpw
  BY <1>1 DEF Rested, GoesOn
<1>4. Paced'
  BY <1>3, PacedRests
<1>5. s0.key = "iteration" => \E e \in told' : e.kind = "iteration" /\ e.n = s0.w
  <2>1. [kind |-> s0.key, n |-> s0.w, what |-> s0.v] \in told'
    BY <1>1
  <2> QED BY <2>1
<1>6. CASE AtReport(todo)
  <2>1. /\ s0.key = "iteration" /\ s0.w = Last /\ ToNext(Tail(todo)) /\ Last < loop.max
    BY <1>1, <1>6 DEF AtReport, FirstEmit
  <2>2. (Reported(Last))'
    BY <1>1, <1>5, <2>1 DEF Reported, Last
  <2>3. (Last < loop.max)'
    BY <1>1, <2>1 DEF Last
  <2>4. ToNext(todo)'
    BY <1>1, <1>3, <2>1, StateRests DEF ToNext, NextIs, Has, ToDone, FirstRef, First
  <2>5. AtNext(todo)'
    BY <2>2, <2>3, <2>4 DEF AtNext
  <2> QED BY <1>4, <2>5 DEF Place, Iterates
<1>7. CASE AtEnding(todo)
  <2>1. Ending(Tail(todo)) /\ meta.state = "active" /\ Given(meta.treason)
    BY <1>1, <1>7 DEF AtEnding, NearEnd, Ending, Ends, SetsState
  <2>2. AtEnding(todo)'
    BY <1>1, <2>1 DEF AtEnding
  <2> QED BY <1>4, <2>2 DEF Place
<1>8. CASE AtEnd(todo)
  <2>1. AtEnd(todo)'
    BY <1>1, <1>8, BehindIs DEF AtEnd
  <2> QED BY <1>4, <2>1 DEF Place
<1>9. CASE AtFarewell(todo)
  <2>1. Concludes(Tail(todo)) /\ OnGoing' /\ AllTold'
    BY <1>3, <1>9, StateRests DEF AtFarewell, ToFarewell
  <2>2. AtReason(todo)'
    BY <1>1, <2>1 DEF AtReason, AllTold
  <2> QED BY <1>4, <2>2 DEF Place, Leaves
<1>10. CASE AtVerdict(todo)
  <2>1. /\ s0.key = "iteration" /\ s0.w = Last /\ ToFarewell(Tail(todo)) /\ OnGoing /\ Bare
    BY <1>1, <1>10 DEF AtVerdict, ToVerdict, FirstEmit, Finished
  <2>2. ASSUME NEW i, Has(i) PROVE Shut(i) /\ Reported(wisp[i].iter)'
    <3>1. Shut(i) /\ wisp[i].iter <= Last
      BY <2>1, <2>2 DEF Bare
    <3>2. wisp[i].iter \in Nat /\ Last \in Nat
      BY <2>2, WispsAre DEF LoopInv, Paced, Last
    <3>3. CASE wisp[i].iter < Last
      <4>1. Reported(wisp[i].iter)
        BY <2>2, <3>3 DEF Paced
      <4> QED BY <1>1, <3>1, <4>1 DEF Reported
    <3>4. CASE wisp[i].iter = Last
      BY <1>1, <1>5, <2>1, <3>1, <3>4 DEF Reported
    <3> QED BY <3>1, <3>2, <3>3, <3>4
  <2>3. AllTold'
    BY <1>1, <2>2 DEF AllTold, Has, Shut
  <2>4. AtFarewell(todo)'
    BY <1>1, <1>3, <2>1, <2>3, StateRests DEF AtFarewell, ToFarewell
  <2> QED BY <1>4, <2>4 DEF Place, Leaves
<1> QED BY <1>2, <1>6, <1>7, <1>8, <1>9, <1>10

\* The root is closed, or the index built.
LEMMA RootPaced ==
    ASSUME LoopInv, LoopInv', Paced, Place(todo), CloseRootBead \/ PopulateIndex
    PROVE  Paced' /\ Place(todo)'
<1>1. /\ todo # << >> /\ todo' = Tail(todo) /\ todo \in Seq(Steps(Len(wisp)))
      /\ loop' = loop /\ wisp' = wisp /\ meta' = meta /\ told' = told
      /\ s0.op \in {"close_root", "index"}
  BY DEF CloseRootBead, PopulateIndex, At, Go, s0, LoopInv, TypeInv
<1>2. Rested /\ (GoesOn => GoesOn') /\ meta'.lpw = meta.lpw
  BY <1>1 DEF Rested, GoesOn
<1>3. Paced'
  BY <1>2, PacedRests
<1>4. AtRest(todo) \/ AtEnd(todo)
  BY <1>1, WhichPlace DEF LoopInv
<1>5. AtRest(todo) => AtRest(todo)'
  BY <1>1, <1>2, BehindIs, StateRests DEF AtRest
<1>6. AtEnd(todo) => AtEnd(todo)'
  BY <1>1, BehindIs DEF AtEnd
<1> QED BY <1>3, <1>4, <1>5, <1>6 DEF Place, Waits
-----------------------------------------------------------------------------
(* A wisp changes.                                                         *)

\* Wisp i is put in state st, and nothing else changes.
LEMMA WispChanges ==
    ASSUME TypeInv, TypeInv', NEW i, Has(i), NEW st, Restated(i, st), told' = told, Has(meta.active)
    PROVE  /\ \A j : Has(j)' <=> IF j = i THEN st # "gone" ELSE Has(j)
           /\ \A j : Shut(j)' <=> IF j = i THEN st = "closed" ELSE Shut(j)
           /\ \A j : Has(j) => wisp'[j].iter = wisp[j].iter
           /\ \A j : Has(j) => wisp'[j].st = IF j = i THEN st ELSE wisp[j].st
           /\ Last' = Last /\ (GoesOn' <=> GoesOn) /\ (OnGoing' <=> OnGoing)
           /\ \A n : Reported(n)' <=> Reported(n)
           /\ loop' = loop /\ meta' = meta
           /\ IterOf(meta.lpw)' \in Nat /\ IterOf(meta.lpw)' <= IterOf(meta.lpw)
<1>1. /\ DOMAIN wisp = 1..Len(wisp) /\ DOMAIN wisp' = 1..Len(wisp')
      /\ Len(wisp') = Len(wisp) /\ loop' = loop /\ meta' = meta
      /\ \A j \in 1..Len(wisp) : wisp'[j].iter = wisp[j].iter /\ wisp'[j].st = IF j = i THEN st ELSE wisp[j].st
  BY DEF TypeInv, Restated
<1>2. \A j : Has(j)' <=> IF j = i THEN st # "gone" ELSE Has(j)
  BY <1>1 DEF Has
<1>3. \A j : Shut(j)' <=> IF j = i THEN st = "closed" ELSE Shut(j)
  BY <1>1 DEF Has, Shut
<1>4. \A j : Has(j) => /\ wisp'[j].iter = wisp[j].iter
                       /\ wisp'[j].st = IF j = i THEN st ELSE wisp[j].st
  BY <1>1 DEF Has
<1>5. Last' = Last /\ (GoesOn' <=> GoesOn) /\ (OnGoing' <=> OnGoing)
  BY <1>1, <1>4 DEF Last, GoesOn, OnGoing
<1>6. \A n : Reported(n)' <=> Reported(n)
  BY DEF Reported
<1>7. IterOf(meta.lpw)' \in Nat /\ IterOf(meta.lpw)' <= IterOf(meta.lpw)
  <2>1. meta.lpw \in 0..Len(wisp) /\ Len(wisp) \in Nat /\ IterOf(meta.lpw) \in Nat
    BY WispsAre
  <2>2. CASE meta.lpw = 0
    BY <1>1, <2>1, <2>2 DEF IterOf, Exists, None
  <2>3. CASE meta.lpw # 0
    <3>1. meta.lpw \in 1..Len(wisp)
      BY <2>1, <2>3
    <3>2. wisp[meta.lpw].iter \in Nat
      <4>1. wisp \in Seq(Wisps)
        BY DEF TypeInv
      <4>2. wisp[meta.lpw] \in Wisps
        BY <3>1, <4>1
      <4> QED BY <4>2 DEF Wisps
    <3>3. wisp'[meta.lpw].iter = wisp[meta.lpw].iter
      BY <1>1, <3>1
    <3>4. (Has(meta.lpw)' => Has(meta.lpw))
      BY <1>2, <1>1
    <3>5. Exists(meta.lpw)' => Exists(meta.lpw)
      BY <1>1, <3>1, <3>4 DEF Has, Exists
    <3> QED BY <1>1, <3>2, <3>3, <3>5 DEF IterOf
  <2> QED BY <2>2, <2>3
<1> QED BY <1>1, <1>2, <1>3, <1>4, <1>5, <1>6, <1>7

\* A wisp closes, other than one that is only poured ahead.
LEMMA ClosePaced ==
    ASSUME LoopInv, LoopInv', NEW i, Has(i), Restated(i, "closed"), told' = told, Paced,
           wisp[i].st = "spec" => ~Later(i)
    PROVE  /\ Paced' /\ Last' = Last
           /\ (OnGoing => OnGoing') /\ (Finished => Finished') /\ (Solo => Solo') /\ (Bare => Bare')
           /\ (AllTold => AllTold')
           /\ \A x : (Has(x)' <=> Has(x)) /\ (Shut(x) => Shut(x)') /\ (NextIs(x) => NextIs(x)')
           /\ \A x : Later(x)' <=> Later(x)
           /\ Shut(i)'
<1>1. /\ \A j : Has(j)' <=> IF j = i THEN "closed" # "gone" ELSE Has(j)
      /\ \A j : Shut(j)' <=> IF j = i THEN "closed" = "closed" ELSE Shut(j)
      /\ \A j : Has(j) => wisp'[j].iter = wisp[j].iter
      /\ \A j : Has(j) => wisp'[j].st = IF j = i THEN "closed" ELSE wisp[j].st
      /\ Last' = Last /\ (GoesOn' <=> GoesOn) /\ (OnGoing' <=> OnGoing)
      /\ \A n : Reported(n)' <=> Reported(n)
      /\ loop' = loop /\ meta' = meta
      /\ IterOf(meta.lpw)' \in Nat /\ IterOf(meta.lpw)' <= IterOf(meta.lpw)
  BY WispChanges DEF LoopInv, Paced
<1>2. \A j : (Has(j)' <=> Has(j)) /\ (Shut(j) => Shut(j)') /\ Shut(i)'
  BY <1>1
<1>3. \A x : Later(x)' <=> Later(x)
  BY <1>1, <1>2 DEF Later
<1>4. \A x : NextIs(x) => NextIs(x)'
  BY <1>1, <1>2 DEF NextIs
<1>5. (Finished => Finished') /\ (Solo => Solo') /\ (Bare => Bare')
  BY <1>1, <1>2 DEF Finished, Solo, Bare
<1>6. AllTold => AllTold'
  <2> SUFFICES ASSUME AllTold, NEW j, Has(j)' PROVE Shut(j)' /\ (Reported(wisp[j].iter))'
    BY DEF AllTold
  <2>1. Shut(j) /\ Reported(wisp[j].iter) /\ wisp'[j].iter = wisp[j].iter
    BY <1>1, <1>2 DEF AllTold
  <2> QED BY <1>2, <2>1 DEF Reported
<1>7. (\A j : Has(j) /\ wisp[j].iter < Last => Reported(wisp[j].iter))'
  <2> SUFFICES ASSUME NEW j, Has(j)', wisp'[j].iter < Last' PROVE (Reported(wisp[j].iter))'
    OBVIOUS
  <2>1. Reported(wisp[j].iter) /\ wisp'[j].iter = wisp[j].iter
    BY <1>1, <1>2 DEF Paced
  <2> QED BY <2>1 DEF Reported
<1>8. ASSUME NEW j, Later(j)' PROVE /\ wisp'[j].iter = Last' + 1
                                   /\ Shut(meta.active)' /\ Last' < loop'.max
                                   /\ (wisp'[j].st = "spec" \/ GoesOn')
  <2>1. /\ wisp[j].iter = Last + 1 /\ Shut(meta.active) /\ Last < loop.max
        /\ wisp[j].st = "spec" \/ GoesOn
    BY <1>3, <1>8 DEF Paced
  <2>2. wisp'[j].iter = wisp[j].iter /\ wisp'[j].st = IF j = i THEN "closed" ELSE wisp[j].st
    BY <1>1, <1>3, <1>8 DEF Later
  <2>3. Shut(meta.active)'
    BY <1>1, <2>1
  <2> QED BY <1>1, <1>3, <1>8, <2>1, <2>2, <2>3
<1>9. Given(meta'.treason) =>
          (\A j : Has(j) => Shut(j) /\ (meta.treason = "stopped" \/ Reported(wisp[j].iter)))'
  <2> SUFFICES ASSUME Given(meta.treason), NEW j, Has(j)'
               PROVE  (Shut(j) /\ (meta.treason = "stopped" \/ Reported(wisp[j].iter)))'
    BY <1>1
  <2>1. Shut(j) /\ (meta.treason = "stopped" \/ Reported(wisp[j].iter)) /\ wisp'[j].iter = wisp[j].iter
    BY <1>1, <1>2 DEF Paced
  <2> QED BY <1>1, <1>2, <2>1 DEF Reported
<1>10. meta'.state = "active" => IterOf(meta.lpw)' < Last'
  <2>1. IterOf(meta.lpw) \in Nat /\ Last \in Nat
    BY WispsAre DEF LoopInv, Paced, Last
  <2> QED BY <1>1, <2>1 DEF Paced
<1>11. /\ meta'.state \in {"active", "terminated"} /\ Has(meta.active)' /\ Last' <= loop'.max
  BY <1>1, <1>2 DEF Paced
<1>12. Paced'
  BY <1>7, <1>8, <1>9, <1>10, <1>11 DEF Paced
<1> QED BY <1>1, <1>2, <1>3, <1>4, <1>5, <1>6, <1>12

\* A stop closes the active wisp.
LEMMA CloseWispPaced ==
    ASSUME LoopInv, LoopInv', Kept(Here), Paced, Place(todo), CloseWisp
    PROVE  Paced' /\ Place(todo)'
<1>1. /\ todo # << >> /\ s0.op = "close_wisp" /\ Exists(s0.w) /\ SetWisp("closed")
  BY DEF CloseWisp, At
<1>2. AtKill(todo) /\ s0 = Head(todo)
  BY <1>1, WhichPlace DEF LoopInv, s0
<1>3. /\ Restated(s0.w, "closed") /\ todo' = Tail(todo) /\ told' = told
      /\ s0.w = meta.active /\ Has(meta.active) /\ meta' = meta
  BY <1>1, <1>2, SetsWisp DEF AtKill, SetWisp, Paced
<1>4. ~Later(meta.active)
  BY WispsAre DEF Later, Last, LoopInv
<1> DEFINE w == meta.active
<1>5. /\ Paced' /\ Last' = Last /\ OnGoing' /\ Solo'
      /\ \A x : (Has(x)' <=> Has(x)) /\ (Shut(x) => Shut(x)')
      /\ Shut(w)'
  <2>1. PICK i : i = meta.active
    OBVIOUS
  <2>2. Has(i) /\ Restated(i, "closed") /\ ~Later(i) /\ told' = told
    BY <1>3, <1>4, <2>1
  <2>3. /\ Paced' /\ Last' = Last /\ OnGoing' /\ Solo'
        /\ \A x : (Has(x)' <=> Has(x)) /\ (Shut(x) => Shut(x)')
        /\ Shut(i)'
    BY <1>2, <2>2, ClosePaced DEF AtKill
  <2>4. Shut(w)'
    BY <1>3, <2>1, <2>3 DEF Shut
  <2> QED BY <2>3, <2>4
<1>6. Bare'
  <2> SUFFICES ASSUME NEW j, Has(j)' PROVE Shut(j)'
    BY <1>5 DEF Bare, Solo
  <2>1. Has(j) /\ Has(w) /\ (Shut(j) => Shut(j)')
    BY <1>3, <1>5
  <2>2. CASE Shut(j)
    BY <2>1, <2>2
  <2>3. CASE ~Shut(j) /\ ~Shut(w)
    <3>1. j = w
      BY <2>1, <2>3, OpenIs DEF LoopInv
    <3> QED BY <1>3, <1>5, <3>1 DEF Shut
  <2>4. CASE ~Shut(j) /\ Shut(w)
    <3>1. wisp[j].iter = Last + 1
      BY <1>2, <2>1, <2>4, OpenIs DEF LoopInv, AtKill, OnGoing
    <3>2. wisp[j].iter <= Last /\ Last \in Nat
      BY <1>2, <2>1, WispsAre DEF AtKill, Solo, LoopInv, Last
    <3> QED BY <3>1, <3>2
  <2> QED BY <2>2, <2>3, <2>4
<1>7. AtCommit(todo)'
  BY <1>2, <1>3, <1>5, <1>6 DEF AtKill, AtCommit
<1> QED BY <1>5, <1>7 DEF Place, Stops
\* A wisp poured ahead is deleted: none is open.
LEMMA DeleteBeadPaced ==
    ASSUME LoopInv, LoopInv', Kept(Here), Paced, Place(todo), DeleteBead
    PROVE  Paced' /\ Place(todo)'
<1>1. /\ todo # << >> /\ s0.op = "delete" /\ Exists(s0.w) /\ SetWisp("gone")
  BY DEF DeleteBead, At
<1>2. AtBurn(todo) /\ s0 = Head(todo)
  BY <1>1, WhichPlace DEF LoopInv, s0
<1>3. /\ Restated(s0.w, "gone") /\ todo' = Tail(todo) /\ told' = told
      /\ Has(meta.active) /\ meta' = meta
  BY <1>1, <1>2, SetsWisp DEF SetWisp, Paced
<1>4. PICK x : x = s0.w
  OBVIOUS
<1>5. /\ Restated(x, "gone") /\ Later(x) /\ Has(x) /\ Finished
      /\ \A i : Later(i) => i = x
  BY <1>2, <1>3, <1>4 DEF AtBurn, Later
<1>6. /\ \A j : Has(j)' <=> j # x /\ Has(j)
      /\ \A j : Shut(j)' <=> j # x /\ Shut(j)
      /\ \A j : Has(j) => wisp'[j].iter = wisp[j].iter
      /\ Last' = Last /\ (GoesOn' <=> GoesOn) /\ (OnGoing' <=> OnGoing)
      /\ \A n : Reported(n)' <=> Reported(n)
      /\ loop' = loop /\ meta' = meta
      /\ IterOf(meta.lpw)' \in Nat /\ IterOf(meta.lpw)' <= IterOf(meta.lpw)
  BY <1>3, <1>5, WispChanges DEF LoopInv
<1>7. Last \in Nat /\ IterOf(meta.lpw) \in Nat /\ \A j : Has(j) => wisp[j].iter \in Nat
  BY <1>3, WispsAre DEF LoopInv, Last
<1>8. x # meta.active
  BY <1>5, <1>7 DEF Later, Last
<1>9. Finished' /\ Has(meta.active)'
  BY <1>3, <1>5, <1>6, <1>8 DEF Finished
<1>10. Bare'
  <2> SUFFICES ASSUME NEW j, Has(j)' PROVE Shut(j)' /\ wisp'[j].iter <= Last'
    BY DEF Bare
  <2>1. Has(j) /\ j # x /\ ~Later(j)
    BY <1>5, <1>6
  <2>2. wisp[j].iter <= Last
    BY <1>7, <2>1 DEF Later
  <2>3. Shut(j)
    <3>1. SUFFICES ASSUME ~Shut(j) PROVE FALSE
      OBVIOUS
    <3>2. wisp[j].iter = Last + 1
      BY <1>5, <2>1, <3>1, OpenIs DEF LoopInv, Finished, OnGoing
    <3> QED BY <1>7, <2>2, <3>2
  <2> QED BY <1>6, <2>1, <2>2, <2>3
<1>11. (\A j : Has(j) /\ wisp[j].iter < Last => Reported(wisp[j].iter))'
  <2> SUFFICES ASSUME NEW j, Has(j)', wisp'[j].iter < Last' PROVE (Reported(wisp[j].iter))'
    OBVIOUS
  <2>1. Reported(wisp[j].iter) /\ wisp'[j].iter = wisp[j].iter
    BY <1>6 DEF Paced
  <2> QED BY <1>3, <2>1 DEF Reported
<1>12. \A j : ~Later(j)'
  BY <1>5, <1>6 DEF Later
<1>13. IterOf(meta.lpw)' < Last'
  BY <1>5, <1>6, <1>7 DEF Paced, Finished, OnGoing
<1>14. Paced'
  BY <1>5, <1>6, <1>9, <1>11, <1>12, <1>13 DEF Paced, Finished, OnGoing
<1>15. AtUnpend(todo)'
  BY <1>2, <1>3, <1>6, <1>9, <1>10 DEF AtBurn, AtUnpend, ToVerdict
<1> QED BY <1>14, <1>15 DEF Place, Leaves

\* The next wisp is activated: the gate has judged.
LEMMA ActivateWispPaced ==
    ASSUME LoopInv, LoopInv', Kept(Here), Paced, Place(todo), ActivateWisp
    PROVE  Paced' /\ Place(todo)'
<1>1. PICK st : st = IF wisp[s0.w].st = "spec" THEN "live" ELSE wisp[s0.w].st
  OBVIOUS
<1>2. /\ todo # << >> /\ s0.op = "activate" /\ Exists(s0.w) /\ SetWisp(st)
  BY <1>1 DEF ActivateWisp, At
<1>3. AtActivate(todo) /\ s0 = Head(todo)
  BY <1>2, WhichPlace DEF LoopInv, s0
<1>4. PICK x : x = s0.w
  OBVIOUS
<1>5. Has(x) /\ wisp[x].iter = Last + 1 /\ GoesOn /\ AtReport(Tail(todo)) /\ Has(meta.active)
  BY <1>3, <1>4 DEF AtActivate, NextIs, Paced
<1>6. wisp[x] \in Wisps
  <2>1. wisp \in Seq(Wisps)
    BY DEF LoopInv, TypeInv
  <2> QED BY <1>5, <2>1 DEF Has
<1>7. st \in {"spec", "live", "closed", "gone"} /\ st # "gone" /\ (st = "closed" <=> wisp[x].st = "closed")
  BY <1>1, <1>4, <1>5, <1>6 DEF Wisps, Has
<1>8. /\ Restated(x, st) /\ todo' = Tail(todo) /\ told' = told /\ meta' = meta
  BY <1>2, <1>4, <1>7, SetsWisp DEF SetWisp
<1>9. /\ \A j : Has(j)' <=> Has(j)
      /\ \A j : Shut(j)' <=> Shut(j)
      /\ \A j : Has(j) => wisp'[j].iter = wisp[j].iter
      /\ Last' = Last /\ GoesOn' /\ (OnGoing' <=> OnGoing)
      /\ \A n : Reported(n)' <=> Reported(n)
      /\ loop' = loop /\ meta' = meta
      /\ IterOf(meta.lpw)' \in Nat /\ IterOf(meta.lpw)' <= IterOf(meta.lpw)
  <2>1. /\ \A j : Has(j)' <=> IF j = x THEN st # "gone" ELSE Has(j)
        /\ \A j : Shut(j)' <=> IF j = x THEN st = "closed" ELSE Shut(j)
        /\ \A j : Has(j) => wisp'[j].iter = wisp[j].iter
        /\ Last' = Last /\ (GoesOn' <=> GoesOn) /\ (OnGoing' <=> OnGoing)
        /\ \A n : Reported(n)' <=> Reported(n)
        /\ loop' = loop /\ meta' = meta
        /\ IterOf(meta.lpw)' \in Nat /\ IterOf(meta.lpw)' <= IterOf(meta.lpw)
    BY <1>5, <1>8, WispChanges DEF LoopInv
  <2>2. (st = "closed" <=> Shut(x)) /\ (st # "gone" <=> Has(x))
    BY <1>5, <1>7 DEF Shut, Has
  <2> QED BY <1>5, <2>1, <2>2
<1>10. Last \in Nat /\ IterOf(meta.lpw) \in Nat
  BY <1>5, WispsAre, SMTT(30) DEF LoopInv, Last
<1>11. (\A j : Has(j) /\ wisp[j].iter < Last => Reported(wisp[j].iter))'
  <2> SUFFICES ASSUME NEW j, Has(j)', wisp'[j].iter < Last' PROVE (Reported(wisp[j].iter))'
    OBVIOUS
  <2>1. Reported(wisp[j].iter) /\ wisp'[j].iter = wisp[j].iter
    BY <1>9 DEF Paced
  <2> QED BY <1>8, <2>1 DEF Reported
<1>12. ASSUME NEW j, Later(j)' PROVE wisp'[j].iter = Last' + 1 /\ Shut(meta.active)' /\ Last' < loop'.max
  <2>1. Later(j)
    BY <1>9, <1>12 DEF Later
  <2>2. wisp[j].iter = Last + 1 /\ Shut(meta.active) /\ Last < loop.max /\ Has(j)
    BY <2>1 DEF Paced, Later
  <2> QED BY <1>9, <2>2
<1>13. Finished /\ ToNext(Tail(Tail(todo))) /\ Last < loop.max
  BY <1>5 DEF AtReport, ToNext
<1>14. Finished' /\ ~Given(meta'.treason) /\ meta'.state = "active"
  BY <1>9, <1>13 DEF Finished, OnGoing
<1>15. IterOf(meta.lpw)' < Last'
  BY <1>9, <1>10, <1>13 DEF Paced, Finished, OnGoing
<1>16. Has(meta.active)' /\ Last' <= loop'.max
  BY <1>5, <1>9 DEF Paced
<1>17. Paced'
  BY <1>9, <1>11, <1>12, <1>14, <1>15, <1>16 DEF Paced
<1>18. (NextIs(Head(Tail(todo)).w) /\ ToDone(Tail(Tail(todo))))'
  <2>1. PICK y : y = Head(Tail(Tail(todo))).w
    OBVIOUS
  <2>2. Has(y) /\ wisp[y].iter = Last + 1
    BY <1>13, <2>1 DEF ToNext, NextIs
  <2>3. NextIs(y)'
    BY <1>9, <2>2 DEF NextIs
  <2>4. (NextIs(Head(Tail(todo)).w))'
    BY <1>8, <2>1, <2>3 DEF NextIs, Has
  <2>5. ToDone(Tail(Tail(todo)))'
    BY <1>8, <1>13 DEF ToNext, ToDone
  <2> QED BY <2>4, <2>5
<1>19. AtReport(todo)'
  BY <1>5, <1>8, <1>9, <1>13, <1>14, <1>18 DEF AtReport, ToNext, FirstRef, FirstEmit, First
<1> QED BY <1>17, <1>19 DEF Place, Iterates
\* An agent closes its wisp, wherever the controller is.
LEMMA AgentPaced ==
    ASSUME LoopInv, LoopInv', Kept(Here), Paced, AgentCloses
    PROVE  Paced' /\ (Place(todo) => Place(todo)')
<1>1. PICK i \in DOMAIN wisp : wisp[i].st = "live" /\ wisp' = [wisp EXCEPT ![i].st = "closed"]
  BY DEF AgentCloses
<1>2. UNCHANGED <<loop, meta, todo, told>>
  BY DEF AgentCloses
<1>3. wisp \in Seq(Wisps) /\ DOMAIN wisp = 1..Len(wisp) /\ Len(wisp) \in Nat
  BY DEF LoopInv, TypeInv
<1>4. Restated(i, "closed")
  <2>1. Len(wisp') = Len(wisp)
    BY <1>1, <1>3
  <2>2. \A j \in 1..Len(wisp) : wisp[j] \in Wisps
    BY <1>3
  <2>3. \A j \in 1..Len(wisp) : wisp'[j] = IF j = i THEN [wisp[i] EXCEPT !.st = "closed"] ELSE wisp[j]
    BY <1>1, <1>3
  <2>4. \A j \in 1..Len(wisp) : wisp'[j].iter = wisp[j].iter
    BY <2>2, <2>3 DEF Wisps
  <2>5. \A j \in 1..Len(wisp) : wisp'[j].st = IF j = i THEN "closed" ELSE wisp[j].st
    BY <2>2, <2>3 DEF Wisps
  <2> QED BY <1>2, <2>1, <2>4, <2>5 DEF Restated
<1>5. Has(i) /\ wisp[i].st # "spec" /\ ~Shut(i)
  BY <1>1 DEF Has, Shut
<1>6. /\ Paced' /\ Last' = Last
      /\ (OnGoing => OnGoing') /\ (Finished => Finished') /\ (Solo => Solo') /\ (Bare => Bare')
      /\ (AllTold => AllTold')
      /\ \A x : (Has(x)' <=> Has(x)) /\ (Shut(x) => Shut(x)') /\ (NextIs(x) => NextIs(x)')
      /\ \A x : Later(x)' <=> Later(x)
  BY <1>2, <1>4, <1>5, ClosePaced
<1>7. /\ \A x : Has(x) => wisp'[x].iter = wisp[x].iter
      /\ \A x : Has(x) /\ wisp[x].st = "spec" => wisp'[x].st = "spec"
      /\ GoesOn => GoesOn'
      /\ \A x \in 0..Len(wisp) : IterOf(x)' = IterOf(x)
  <2>1. \A x : Has(x) => wisp'[x].iter = wisp[x].iter /\ (x # i => wisp'[x].st = wisp[x].st)
    BY <1>3, <1>4 DEF Has, Restated
  <2>2. GoesOn => GoesOn'
    BY <1>2 DEF GoesOn
  <2>3. \A x \in 0..Len(wisp) : IterOf(x)' = IterOf(x)
    <3>1. ASSUME NEW x \in 0..Len(wisp) PROVE IterOf(x)' = IterOf(x)
      <4>1. CASE x = 0
        BY <4>1 DEF IterOf, Exists, None
      <4>2. CASE x # 0
        <5>1. x \in 1..Len(wisp)
          BY <1>3, <3>1, <4>2
        <5>2. wisp'[x].iter = wisp[x].iter /\ (wisp'[x].st = "gone" <=> wisp[x].st = "gone")
          BY <1>1, <1>4, <5>1 DEF Restated
        <5> QED BY <5>2 DEF IterOf, Exists
      <4> QED BY <4>1, <4>2
    <3> QED BY <3>1
  <2> QED BY <1>5, <2>1, <2>2, <2>3
<1>8. Waits(todo) => Waits(todo)'
  BY <1>2, <1>6 DEF Waits, AtRest, AtScan, AtHandle
<1>9. Gates(todo) => Gates(todo)'
  <2>2. AtPour(todo) => AtPour(todo)'
    BY <1>2, <1>6 DEF AtPour
  <2>3. AtGate(todo) => AtGate(todo)'
    BY <1>2, <1>6, <1>7 DEF AtGate, Weighs, NextIs, Has
  <2>4. AtPending(todo) => AtPending(todo)'
    BY <1>2, <1>6, <1>7 DEF AtPending, AtPour, AtGate, Weighs, NextIs, Has
  <2>5. ToSettle(todo) => ToSettle(todo)'
    BY <1>2, <1>6, <1>7 DEF ToSettle, Weighs, NextIs, Has
  <2>6. ToSettle(Tail(todo)) => ToSettle(Tail(todo))'
    BY <1>2, <1>6, <1>7 DEF ToSettle, Weighs, NextIs, Has
  <2>7. ToSettle(Tail(Tail(todo))) => ToSettle(Tail(Tail(todo)))'
    BY <1>2, <1>6, <1>7 DEF ToSettle, Weighs, NextIs, Has
  <2>8. /\ AtSettle(todo) => AtSettle(todo)'
        /\ AtMark(todo) => AtMark(todo)'
        /\ AtOutcome(todo) => AtOutcome(todo)'
    BY <1>2, <2>5, <2>6, <2>7 DEF AtSettle, AtMark, AtOutcome
  <2> QED BY <2>2, <2>3, <2>4, <2>8 DEF Gates
<1>10. Iterates(todo) => Iterates(todo)'
  <2>1. AtTidy(todo) => AtTidy(todo)'
    BY <1>2, <1>6 DEF AtTidy
  <2>2. ASSUME AtDone(todo) PROVE AtDone(todo)'
    <3>1. Head(todo).w \in 0..Len(wisp)
      <4>1. todo # << >> /\ s0 = Head(todo) /\ s0.op = "ref"
        BY <2>2 DEF AtDone, FirstRef, First, s0
      <4>2. s0 \in Steps(Len(wisp))
        BY <4>1, HeadIs
      <4> QED BY <4>1, <4>2 DEF Steps
    <3>2. PICK y : y = Head(todo).w
      OBVIOUS
    <3>3. IterOf(y)' = IterOf(y)
      BY <1>7, <3>1, <3>2
    <3>4. IterOf(Head(todo).w)' = IterOf(Head(todo).w)
      BY <1>2, <3>2, <3>3 DEF IterOf, Exists
    <3> QED BY <1>2, <1>6, <2>2, <3>4 DEF AtDone
  <2>3. ToNext(todo) => ToNext(todo)'
    BY <1>2, <1>6, <1>7 DEF ToNext, ToDone, NextIs, Has
  <2>4. ToNext(Tail(todo)) => ToNext(Tail(todo))'
    BY <1>2, <1>6, <1>7 DEF ToNext, ToDone, NextIs, Has
  <2>5. ToNext(Tail(Tail(todo))) => ToNext(Tail(Tail(todo)))'
    BY <1>2, <1>6, <1>7 DEF ToNext, ToDone, NextIs, Has
  <2>6. Reported(Last) => (Reported(Last))'
    BY <1>2, <1>6 DEF Reported
  <2>7. /\ AtNext(todo) => AtNext(todo)'
        /\ AtReport(todo) => AtReport(todo)'
        /\ AtReport(Tail(todo)) => AtReport(Tail(todo))'
    BY <1>2, <1>6, <2>3, <2>4, <2>5, <2>6 DEF AtNext, AtReport
  <2>8. AtActivate(todo) => AtActivate(todo)'
    BY <1>2, <1>6, <1>7, <2>7 DEF AtActivate, NextIs, Has
  <2> QED BY <2>1, <2>2, <2>7, <2>8 DEF Iterates
<1>11. (AtEnd(todo) => AtEnd(todo)') /\ (AtEnding(todo) => AtEnding(todo)')
  BY <1>2 DEF AtEnd, AtEnding
<1>12. Leaves(todo) => Leaves(todo)'
  <2>1. ASSUME AtReason(todo) PROVE AtReason(todo)'
    BY <1>5, <2>1 DEF AtReason
  <2>2. AtFarewell(todo) => AtFarewell(todo)'
    BY <1>2, <1>6 DEF AtFarewell
  <2>3. AtVerdict(todo) => AtVerdict(todo)'
    BY <1>2, <1>6 DEF AtVerdict, ToVerdict
  <2>4. AtUnpend(todo) => AtUnpend(todo)'
    BY <1>2, <1>6 DEF AtUnpend, ToVerdict
  <2>5. ASSUME AtBurn(todo) PROVE AtBurn(todo)'
    <3>1. /\ First(todo, "delete") /\ FirstRef(Tail(todo), "pending") /\ ToVerdict(Tail(Tail(todo)))
          /\ Finished
      BY <2>5 DEF AtBurn
    <3>2. /\ First(todo, "delete")' /\ FirstRef(Tail(todo), "pending")' /\ ToVerdict(Tail(Tail(todo)))'
          /\ Finished'
      BY <1>2, <1>6, <3>1 DEF ToVerdict
    <3>3. PICK y : y = Head(todo).w
      OBVIOUS
    <3>4. Later(y) /\ \A j : Later(j) => j = y /\ wisp[j].st = "spec"
      BY <2>5, <3>3 DEF AtBurn
    <3>5. Later(y)' /\ \A j : Later(j)' => j = y /\ wisp'[j].st = "spec"
      BY <1>6, <1>7, <3>4 DEF Later
    <3>6. (Later(Head(todo).w) /\ \A j : Later(j) => j = Head(todo).w /\ wisp[j].st = "spec")'
      BY <1>2, <3>3, <3>5 DEF Later, Has
    <3> QED BY <3>2, <3>6 DEF AtBurn
  <2> QED BY <2>1, <2>2, <2>3, <2>4, <2>5 DEF Leaves
<1>13. Stops(todo) => Stops(todo)'
  BY <1>2, <1>6 DEF Stops, AtStop, AtForce, AtKill, AtCommit
<1> QED BY <1>6, <1>8, <1>9, <1>10, <1>11, <1>12, <1>13 DEF Place
-----------------------------------------------------------------------------
(* The steps a handler goes on with.                                       *)

\* A sequence may be one of more kinds of steps.
LEMMA Wider ==
    ASSUME NEW S, NEW U, S \subseteq U, NEW t \in Seq(S)
    PROVE  t \in Seq(U)
OBVIOUS

\* Steps before others: the first, and the rest.
LEMMA OneThen ==
    ASSUME NEW S, NEW t \in Seq(S), NEW a
    PROVE  <<a>> \o t # << >> /\ Head(<<a>> \o t) = a /\ Tail(<<a>> \o t) = t
<1>1. t \in Seq(S \cup {a})
  BY Wider
<1>2. <<a>> \in Seq(S \cup {a}) /\ <<a>> # << >> /\ Head(<<a>>) = a
  OBVIOUS
<1>3. Tail(<<a>>) = << >>
  OBVIOUS
<1> QED BY <1>1, <1>2, <1>3, JoinHead, ConcatEmptySeq

\* Two steps before others.
LEMMA TwoThen ==
    ASSUME NEW S, NEW t \in Seq(S), NEW a, NEW b
    PROVE  <<a, b>> \o t # << >> /\ Head(<<a, b>> \o t) = a /\ Tail(<<a, b>> \o t) = <<b>> \o t
<1>1. t \in Seq(S \cup {a, b})
  BY Wider
<1>2. <<a, b>> \in Seq(S \cup {a, b}) /\ <<a, b>> # << >> /\ Head(<<a, b>>) = a
  OBVIOUS
<1>3. Tail(<<a, b>>) = <<b>>
  OBVIOUS
<1> QED BY <1>1, <1>2, <1>3, JoinHead

\* Three.
LEMMA ThreeThen ==
    ASSUME NEW S, NEW t \in Seq(S), NEW a, NEW b, NEW c
    PROVE  <<a, b, c>> \o t # << >> /\ Head(<<a, b, c>> \o t) = a /\ Tail(<<a, b, c>> \o t) = <<b, c>> \o t
<1>1. t \in Seq(S \cup {a, b, c})
  BY Wider
<1>2. <<a, b, c>> \in Seq(S \cup {a, b, c}) /\ <<a, b, c>> # << >> /\ Head(<<a, b, c>>) = a
  OBVIOUS
<1>3. Tail(<<a, b, c>>) = <<b, c>>
  OBVIOUS
<1> QED BY <1>1, <1>2, <1>3, JoinHead

\* Four.
LEMMA FourThen ==
    ASSUME NEW S, NEW t \in Seq(S), NEW a, NEW b, NEW c, NEW d
    PROVE  <<a, b, c, d>> \o t # << >> /\ Head(<<a, b, c, d>> \o t) = a /\ Tail(<<a, b, c, d>> \o t) = <<b, c, d>> \o t
<1>1. t \in Seq(S \cup {a, b, c, d})
  BY Wider
<1>2. <<a, b, c, d>> \in Seq(S \cup {a, b, c, d}) /\ <<a, b, c, d>> # << >> /\ Head(<<a, b, c, d>>) = a
  OBVIOUS
<1>3. Tail(<<a, b, c, d>>) = <<b, c, d>>
  OBVIOUS
<1> QED BY <1>1, <1>2, <1>3, JoinHead

\* Five.
LEMMA FiveThen ==
    ASSUME NEW S, NEW t \in Seq(S), NEW a, NEW b, NEW c, NEW d, NEW e
    PROVE  <<a, b, c, d, e>> \o t # << >> /\ Head(<<a, b, c, d, e>> \o t) = a /\ Tail(<<a, b, c, d, e>> \o t) = <<b, c, d, e>> \o t
<1>1. t \in Seq(S \cup {a, b, c, d, e})
  BY Wider
<1>2. <<a, b, c, d, e>> \in Seq(S \cup {a, b, c, d, e}) /\ <<a, b, c, d, e>> # << >> /\ Head(<<a, b, c, d, e>>) = a
  OBVIOUS
<1>3. Tail(<<a, b, c, d, e>>) = <<b, c, d, e>>
  OBVIOUS
<1> QED BY <1>1, <1>2, <1>3, JoinHead

\* Six.
LEMMA SixThen ==
    ASSUME NEW S, NEW t \in Seq(S), NEW a, NEW b, NEW c, NEW d, NEW e, NEW f
    PROVE  <<a, b, c, d, e, f>> \o t # << >> /\ Head(<<a, b, c, d, e, f>> \o t) = a /\ Tail(<<a, b, c, d, e, f>> \o t) = <<b, c, d, e, f>> \o t
<1>1. t \in Seq(S \cup {a, b, c, d, e, f})
  BY Wider
<1>2. <<a, b, c, d, e, f>> \in Seq(S \cup {a, b, c, d, e, f}) /\ <<a, b, c, d, e, f>> # << >> /\ Head(<<a, b, c, d, e, f>>) = a
  OBVIOUS
<1>3. Tail(<<a, b, c, d, e, f>>) = <<b, c, d, e, f>>
  OBVIOUS
<1> QED BY <1>1, <1>2, <1>3, JoinHead

\* Nothing before others.
LEMMA NoneThen ==
    ASSUME NEW S, NEW t \in Seq(S)
    PROVE  << >> \o t = t
BY ConcatEmptySeq

\* One part after another.
LEMMA JoinParts ==
    ASSUME NEW S, NEW p \in Seq(S), NEW r \in Seq(S), NEW t \in Seq(S)
    PROVE  (p \o r) \o t = p \o (r \o t) /\ r \o t \in Seq(S)
BY ConcatAssociative
\* A wisp poured ahead is the next one, and nobody works on it yet.
LEMMA AddPaced ==
    ASSUME LoopInv, LoopInv', Paced, Finished, Last < loop.max,
           wisp' = Append(wisp, [iter |-> Last + 1, st |-> "spec"]), UNCHANGED <<loop, meta, told>>
    PROVE  /\ Paced' /\ Finished' /\ Last' = Last
           /\ \A m : m = Len(wisp) + 1 => NextIs(m)'
           /\ \A i : Has(i) => Has(i)' /\ wisp'[i] = wisp[i]
<1>1. /\ DOMAIN wisp = 1..Len(wisp) /\ Len(wisp) \in Nat /\ Has(meta.active)
      /\ \A i : Has(i) => i \in 1..Len(wisp) /\ wisp[i].iter \in Nat
      /\ meta.lpw \in 0..Len(wisp) /\ IterOf(meta.lpw) \in Nat
  <2>1. TypeInv /\ Has(meta.active)
    BY DEF LoopInv, Paced
  <2>2. IterOf(meta.lpw) \in Nat
    BY <2>1, WispsAre
  <2> QED BY <2>1, <2>2, WispsAre
<1>2. wisp \in Seq(Wisps)
  BY DEF LoopInv, TypeInv
<1>3. PICK m : m = Len(wisp) + 1
  OBVIOUS
<1>4. PICK r : r = [iter |-> Last + 1, st |-> "spec"]
  OBVIOUS
<1>5. r.iter = Last + 1 /\ r.st = "spec"
  BY <1>4
<1>6. /\ DOMAIN wisp' = 1..m /\ wisp'[m] = r /\ \A i \in 1..Len(wisp) : wisp'[i] = wisp[i]
  BY <1>1, <1>2, <1>3, <1>4
<1>7. \A i : Has(i)' <=> Has(i) \/ i = m
  BY <1>1, <1>3, <1>5, <1>6 DEF Has
<1>8. \A i : Shut(i)' <=> Shut(i)
  BY <1>1, <1>3, <1>5, <1>6 DEF Shut
<1>9. \A i : Has(i) => i # m /\ wisp'[i] = wisp[i]
  BY <1>1, <1>3, <1>6
<1>10. Last' = Last /\ Last \in Nat /\ (GoesOn' <=> GoesOn) /\ Finished'
  BY <1>1, <1>8, <1>9 DEF Last, GoesOn, Finished, OnGoing
<1>11. NextIs(m)'
  BY <1>5, <1>6, <1>7, <1>10 DEF NextIs
<1>12. \A k : k = Len(wisp) + 1 => NextIs(k)'
  BY <1>3, <1>11
<1>13. (\A j : Has(j) /\ wisp[j].iter < Last => Reported(wisp[j].iter))'
  <2> SUFFICES ASSUME NEW j, Has(j)', wisp'[j].iter < Last' PROVE (Reported(wisp[j].iter))'
    OBVIOUS
  <2>1. j # m
    <3>1. SUFFICES ASSUME j = m PROVE FALSE
      OBVIOUS
    <3>2. wisp'[j].iter = Last + 1 /\ wisp'[j].iter < Last
      BY <1>5, <1>6, <1>10, <3>1
    <3>3. Last + 1 < Last /\ Last \in Nat
      BY <1>10, <3>2
    <3>4. ASSUME NEW n \in Nat PROVE ~(n + 1 < n)
      OBVIOUS
    <3> QED BY <3>3, <3>4
  <2>2. Reported(wisp[j].iter) /\ wisp'[j].iter = wisp[j].iter
    BY <1>7, <1>9, <1>10, <2>1 DEF Paced
  <2> QED BY <2>2 DEF Reported
<1>14. ASSUME NEW j, Later(j)'
       PROVE  /\ wisp'[j].iter = Last' + 1 /\ Shut(meta.active)' /\ Last' < loop'.max
              /\ (wisp'[j].st = "spec" \/ GoesOn')
  <2>1. Shut(meta.active)' /\ Last' < loop'.max
    BY <1>10 DEF Finished
  <2>2. CASE j = m
    BY <1>5, <1>6, <1>10, <2>1, <2>2
  <2>3. CASE j # m
    <3>1. Later(j) /\ wisp'[j] = wisp[j]
      BY <1>7, <1>9, <1>10, <1>14, <2>3 DEF Later
    <3> QED BY <1>10, <2>1, <3>1 DEF Paced
  <2> QED BY <2>2, <2>3
<1>15. IterOf(meta.lpw)' = IterOf(meta.lpw)
  <2>1. CASE meta.lpw = 0
    BY <2>1 DEF IterOf, Exists, None
  <2>2. CASE meta.lpw # 0
    <3>1. meta.lpw \in 1..Len(wisp)
      BY <1>1, <2>2
    <3> QED BY <1>6, <3>1 DEF IterOf, Exists
  <2> QED BY <2>1, <2>2
<1>16. Paced'
  BY <1>7, <1>10, <1>13, <1>14, <1>15 DEF Paced, Finished, OnGoing
<1> QED BY <1>7, <1>9, <1>10, <1>12, <1>16

\* The next wisp is poured ahead.
LEMMA PourWispPaced ==
    ASSUME LoopInv, LoopInv', Paced, Place(todo), PourWisp
    PROVE  Paced' /\ Place(todo)'
<1>1. /\ todo # << >> /\ s0.op = "pour" /\ wisp' = Poured(s0.w, s0.key) /\ UNCHANGED <<loop, meta, told>>
      /\ s0 = Head(todo)
  BY DEF PourWisp, At, s0
<1>2. PICK i : i = (IF Found(s0.w) # None THEN Found(s0.w) ELSE Len(wisp) + 1)
  OBVIOUS
<1>3. todo' = AfterPour(s0, i) \o Tail(todo)
  BY <1>2 DEF PourWisp
<1>4. AtPour(todo)
  BY <1>1, WhichPlace DEF LoopInv
<1>5. /\ s0.key = "speculative" /\ Behind(Tail(todo)) /\ Finished
      /\ s0.x = meta.active /\ s0.w = Last + 1 /\ Last < loop.max
  BY <1>1, <1>4 DEF AtPour
<1>6. Tail(todo) \in Seq(Steps(Len(wisp)))
  BY <1>1, HeadIs
<1>7. Paced' /\ NextIs(i)' /\ Finished' /\ i # None
  <2>1. CASE Found(s0.w) # None
    <3>1. Rested /\ wisp' = wisp /\ i = FindByIdempotencyKey(s0.w)
      BY <1>1, <1>2, <2>1 DEF Poured, Rested, Found
    <3>2. Paced' /\ Finished'
      BY <1>1, <1>5, <3>1, PacedRests, StateRests DEF GoesOn
    <3>3. i \in Children /\ wisp[i].iter = s0.w
      BY <1>2, <2>1, <3>1, FindIs DEF LoopInv, Found
    <3>4. i \in DOMAIN wisp /\ wisp[i].st # "gone" /\ i # None
      BY <3>3 DEF Children, Open, Closed, Exists
    <3>5. NextIs(i)
      BY <1>5, <3>3, <3>4 DEF NextIs, Has
    <3>6. NextIs(i)'
      BY <3>1, <3>5, StateRests
    <3> QED BY <3>2, <3>4, <3>6
  <2>2. CASE Found(s0.w) = None
    <3>1. wisp' = Append(wisp, [iter |-> Last + 1, st |-> "spec"])
      BY <1>1, <1>5, <2>2 DEF Poured
    <3>2. i = Len(wisp) + 1 /\ Len(wisp) \in Nat
      BY <1>2, <2>2, WispsAre DEF LoopInv
    <3>3. Paced' /\ Finished' /\ NextIs(i)'
      BY <1>1, <1>5, <3>1, <3>2, AddPaced
    <3> QED BY <3>2, <3>3 DEF None
  <2> QED BY <2>1, <2>2
<1>8. PICK pe : pe = OrBurn(Ref("pending", i), i) /\ pe.op = "ref" /\ pe.key = "pending"
  BY RefBits
<1>9. PICK ga : ga = Gate(s0.x, i) /\ ga.op = "gate" /\ ga.w = s0.x /\ ga.x = i /\ ga.v # "pour_failed"
  BY CallBits
<1>10. AfterPour(s0, i) = <<pe, ga>>
  BY <1>5, <1>8, <1>9, Zenon DEF AfterPour, Gate
<1>11. PICK t \in Seq(Steps(Len(wisp))) : t = Tail(todo)
  BY <1>6
<1>12. /\ todo' = <<pe, ga>> \o t /\ Behind(t)
  BY <1>3, <1>5, <1>10, <1>11
<1>13. /\ todo' # << >> /\ Head(todo') = pe /\ Tail(todo') = <<ga>> \o t
  BY <1>12, TwoThen
<1>14. AtGate(Tail(todo))'
  <2>1. Tail(todo') # << >> /\ Head(Tail(todo')) = ga /\ Tail(Tail(todo')) = t
    BY <1>13, OneThen
  <2>2. Finished' /\ ga.w = meta'.active /\ ga.v # "pour_failed" /\ ga.x # None /\ NextIs(ga.x)'
    BY <1>1, <1>5, <1>7, <1>9 DEF NextIs, Has
  <2>3. Weighs(Head(Tail(todo)))'
    BY <2>1, <2>2 DEF Weighs, NextIs, Has
  <2> QED BY <1>9, <1>12, <2>1, <2>3 DEF AtGate, First
<1>15. AtPending(todo)'
  BY <1>8, <1>13, <1>14 DEF AtPending, FirstRef, First
<1> QED BY <1>7, <1>15 DEF Place, Gates
-----------------------------------------------------------------------------
(* The steps that branch.                                                  *)

\* A step that reads leads to a place if its steps are one.
LEMMA SamePlace ==
    ASSUME UNCHANGED <<loop, meta, wisp, told>>, NEW q, todo' = q
    PROVE  (Paced => Paced') /\ (Place(q) => Place(todo)')
<1>1. Rested /\ (GoesOn <=> GoesOn') /\ meta' = meta
  BY DEF Rested, GoesOn
<1>2. Paced => Paced'
  BY <1>1, PacedRests
<1>3. /\ (OnGoing <=> OnGoing') /\ (Finished <=> Finished') /\ (Solo <=> Solo') /\ (Bare <=> Bare')
      /\ Last' = Last /\ (AllTold => AllTold')
  BY <1>1, StateRests
<1>4. Waits(q) => Waits(todo)'
  BY <1>1, <1>3 DEF Waits, AtRest, AtScan, AtHandle
<1>5. Gates(q) => Gates(todo)'
  <2>1. AtPour(q) => AtPour(todo)'
    BY <1>1, <1>3 DEF AtPour
  <2>2. AtGate(q) => AtGate(todo)'
    BY <1>1, <1>3 DEF AtGate, Weighs, NextIs, Has
  <2>3. AtPour(Tail(q)) => AtPour(Tail(todo))'
    BY <1>1, <1>3 DEF AtPour
  <2>4. AtGate(Tail(q)) => AtGate(Tail(todo))'
    <3>1. PICK r : r = Tail(q)
      OBVIOUS
    <3>2. Tail(todo)' = r
      BY <3>1
    <3>3. AtGate(r) => AtGate(Tail(todo))'
      BY <1>1, <1>3, <3>2 DEF AtGate, Weighs, NextIs, Has
    <3> QED BY <3>1, <3>3
  <2>5. AtPending(q) => AtPending(todo)'
    BY <2>3, <2>4 DEF AtPending
  <2>6. ToSettle(q) => ToSettle(todo)'
    BY <1>1, <1>3 DEF ToSettle, Weighs, NextIs, Has
  <2>7. ToSettle(Tail(q)) => ToSettle(Tail(todo))'
    <3>1. PICK r : r = Tail(q)
      OBVIOUS
    <3>2. Tail(todo)' = r
      BY <3>1
    <3>3. ToSettle(r) => ToSettle(Tail(todo))'
      BY <1>1, <1>3, <3>2 DEF ToSettle, Weighs, NextIs, Has
    <3> QED BY <3>1, <3>3
  <2>8. ToSettle(Tail(Tail(q))) => ToSettle(Tail(Tail(todo)))'
    <3>1. PICK r : r = Tail(Tail(q))
      OBVIOUS
    <3>2. Tail(Tail(todo))' = r
      BY <3>1
    <3>3. ToSettle(r) => ToSettle(Tail(Tail(todo)))'
      BY <1>1, <1>3, <3>2 DEF ToSettle, Weighs, NextIs, Has
    <3> QED BY <3>1, <3>3
  <2>9. /\ AtSettle(q) => AtSettle(todo)'
        /\ AtMark(q) => AtMark(todo)'
        /\ AtOutcome(q) => AtOutcome(todo)'
    BY <1>1, <2>6, <2>7, <2>8 DEF AtSettle, AtMark, AtOutcome
  <2> QED BY <2>1, <2>2, <2>5, <2>9 DEF Gates
<1>6. Iterates(q) => Iterates(todo)'
  <2>1. AtTidy(q) => AtTidy(todo)'
    BY <1>1, <1>3 DEF AtTidy
  <2>2. AtDone(q) => AtDone(todo)'
    BY <1>1, <1>3 DEF AtDone, IterOf, Exists
  <2>3. AtNext(q) => AtNext(todo)'
    BY <1>1, <1>3 DEF AtNext, ToNext, ToDone, NextIs, Has, Reported
  <2>4. AtReport(q) => AtReport(todo)'
    BY <1>1, <1>3 DEF AtReport, ToNext, ToDone, NextIs, Has
  <2>5. AtActivate(q) => AtActivate(todo)'
    BY <1>1, <1>3 DEF AtActivate, AtReport, ToNext, ToDone, NextIs, Has
  <2> QED BY <2>1, <2>2, <2>3, <2>4, <2>5 DEF Iterates
<1>7. (AtEnd(q) => AtEnd(todo)') /\ (AtEnding(q) => AtEnding(todo)')
  BY <1>1 DEF AtEnd, AtEnding
<1>8. Leaves(q) => Leaves(todo)'
  <2>1. AtReason(q) => AtReason(todo)'
    BY <1>1, <1>3 DEF AtReason, Has, Shut, Reported
  <2>2. AtFarewell(q) => AtFarewell(todo)'
    BY <1>1, <1>3 DEF AtFarewell
  <2>3. /\ AtVerdict(q) => AtVerdict(todo)'
        /\ AtUnpend(q) => AtUnpend(todo)'
    BY <1>1, <1>3 DEF AtVerdict, AtUnpend, ToVerdict
  <2>4. AtBurn(q) => AtBurn(todo)'
    BY <1>1, <1>3 DEF AtBurn, ToVerdict, Later, Has
  <2> QED BY <2>1, <2>2, <2>3, <2>4 DEF Leaves
<1>9. Stops(q) => Stops(todo)'
  BY <1>1, <1>3 DEF Stops, AtStop, AtForce, AtKill, AtCommit
<1> QED BY <1>2, <1>4, <1>5, <1>6, <1>7, <1>8, <1>9 DEF Place

\* The gate: an outcome that is there is replayed, or one is written.
LEMMA GatePlace ==
    ASSUME TypeInv, Straight, NEW s, Weighs(s), NEW S, NEW t \in Seq(S), Behind(t),
           NEW outcome
    PROVE  Place(gateEvaluation(s, outcome) \o t)
<1>1. loop.gate = "condition" /\ s.w = meta.active
  BY DEF Straight, Weighs
<1>2. PICK se : se = Do("settle", s.w, s.x, s.v) /\ se.op = "settle" /\ se.w = s.w /\ se.x = s.x /\ se.v = s.v
  BY DoBits
<1>3. Weighs(se)
  BY <1>2 DEF Weighs
<1>4. ToSettle(<<se>> \o t)
  BY <1>2, <1>3, OneThen DEF ToSettle, First
<1>5. CASE meta.gated = s.w
  <2>1. gateEvaluation(s, outcome) = <<se>>
    BY <1>2, <1>5 DEF gateEvaluation
  <2>2. AtSettle(<<se>> \o t)
    BY <1>1, <1>4, <1>5 DEF AtSettle
  <2> QED BY <2>1, <2>2 DEF Place, Gates
<1>6. CASE meta.gated # s.w
  <2>1. PICK a : a = OrBurn(Set("outcome", outcome), s.x) /\ a.op = "set" /\ a.key = "outcome"
    BY SetBits
  <2>2. PICK b : b = OrBurn(Ref("gated", s.w), s.x) /\ b.op = "ref" /\ b.key = "gated" /\ b.w = s.w
    BY RefBits
  <2>3. gateEvaluation(s, outcome) = <<a, b, se>>
    BY <1>1, <1>2, <1>6, <2>1, <2>2 DEF gateEvaluation
  <2>4. AtMark(<<b, se>> \o t)
    BY <1>1, <1>4, <1>6, <2>2, TwoThen DEF AtMark, FirstRef, First
  <2>5. AtOutcome(<<a, b, se>> \o t)
    <3>1. /\ <<a, b, se>> \o t # << >> /\ Head(<<a, b, se>> \o t) = a
          /\ Tail(<<a, b, se>> \o t) = <<b, se>> \o t
      BY ThreeThen
    <3> QED BY <2>1, <2>4, <3>1 DEF AtOutcome, FirstSet, First
  <2> QED BY <2>3, <2>5 DEF Place, Gates
<1> QED BY <1>5, <1>6

\* The gate judges the active wisp.
LEMMA EvaluateGatePaced ==
    ASSUME LoopInv, LoopInv', Straight, Paced, Place(todo), EvaluateGate
    PROVE  Paced' /\ Place(todo)'
<1>1. /\ todo # << >> /\ s0.op = "gate" /\ UNCHANGED <<loop, meta, wisp, told>> /\ s0 = Head(todo)
  BY DEF EvaluateGate, At, s0
<1>2. PICK outcome : todo' = gateEvaluation(s0, outcome) \o Tail(todo)
  BY DEF EvaluateGate
<1>3. Weighs(s0) /\ Behind(Tail(todo)) /\ Tail(todo) \in Seq(Steps(Len(wisp))) /\ TypeInv
  BY <1>1, WhichPlace, HeadIs DEF LoopInv, AtGate
<1>4. PICK q : q = todo'
  OBVIOUS
<1>5. Place(q)
  BY <1>2, <1>3, <1>4, GatePlace
<1> QED BY <1>1, <1>4, <1>5, SamePlace
\* The parts of an event.
LEMMA EmitBits ==
    ASSUME NEW key, NEW w, NEW v
    PROVE  /\ Emit(key, w, v).op = "emit" /\ Emit(key, w, v).key = key
           /\ Emit(key, w, v).w = w /\ Emit(key, w, v).v = v
BY StepFields DEF Emit

\* Quiet steps, one after the other.
LEMMA QuietJoin ==
    ASSUME NEW S, NEW p \in Seq(S), NEW t \in Seq(S), Quiets(p), Quiets(t)
    PROVE  Quiets(p \o t)
BY JoinIs DEF Quiets

\* Two quiet steps before quiet ones.
LEMMA QuietPair ==
    ASSUME NEW S, NEW t \in Seq(S), Quiets(t), NEW a, NEW b, Quiet(a), Quiet(b)
    PROVE  Quiets(<<a, b>> \o t) /\ Quiets(<<a>> \o t)
<1>1. t \in Seq(S \cup {a, b}) /\ <<a, b>> \in Seq(S \cup {a, b}) /\ <<a>> \in Seq(S \cup {a, b})
  BY Wider
<1>2. Quiets(<<a, b>>)
  <2>1. \A k \in 1..Len(<<a, b>>) : <<a, b>>[k] = a \/ <<a, b>>[k] = b
    OBVIOUS
  <2> QED BY <2>1 DEF Quiets
<1>3. Quiets(<<a>>)
  <2>1. \A k \in 1..Len(<<a>>) : <<a>>[k] = a
    OBVIOUS
  <2> QED BY <2>1 DEF Quiets
<1>4. Quiets(<<a, b>> \o t)
  BY <1>1, <1>2, QuietJoin
<1>5. Quiets(<<a>> \o t)
  BY <1>1, <1>3, QuietJoin
<1> QED BY <1>4, <1>5

\* The writes that end a loop.
LEMMA TerminateSteps ==
    ASSUME NEW S, NEW t \in Seq(S), Behind(t), NEW w, NEW reason, Given(reason), IterOf(w) = Last
    PROVE  ToVerdict(terminate(w, reason) \o t)
<1>1. PICK a : a = Emit("iteration", IterOf(w), reason) /\ a.op = "emit" /\ a.key = "iteration" /\ a.w = Last
  BY EmitBits
<1>2. PICK b : b = Emit("terminated", 0, reason) /\ b.op = "emit" /\ b.key = "terminated"
  BY EmitBits
<1>3. PICK c : c = Set("treason", reason) /\ c.op = "set" /\ c.key = "treason" /\ c.v = reason
  BY SetBits
<1>4. PICK d : d = Set("state", "terminated") /\ d.op = "set" /\ d.key = "state" /\ d.v = "terminated"
  BY SetBits
<1>5. PICK e : e = CloseRoot /\ e.op = "close_root"
  BY CallBits
<1>6. PICK f : f = Ref("lpw", w) /\ f.op = "ref" /\ f.key = "lpw"
  BY RefBits
<1>7. terminate(w, reason) = <<a, b, c, d, e, f>>
  BY <1>1, <1>2, <1>3, <1>4, <1>5, <1>6 DEF terminate
<1>8. Quiets(<<e, f>> \o t)
  <2>1. Quiet(e) /\ Quiet(f) /\ Quiets(t)
    BY <1>5, <1>6, BehindIsQuiet DEF Quiet, Announces
  <2> QED BY <2>1, QuietPair
<1>9. Ending(<<d, e, f>> \o t)
  <2>1. <<d, e, f>> \o t # << >> /\ Head(<<d, e, f>> \o t) = d /\ Tail(<<d, e, f>> \o t) = <<e, f>> \o t
    BY ThreeThen
  <2> QED BY <1>4, <1>8, <2>1 DEF Ending, Ends, SetsState
<1>10. Concludes(<<c, d, e, f>> \o t)
  <2>1. /\ <<c, d, e, f>> \o t # << >> /\ Head(<<c, d, e, f>> \o t) = c
        /\ Tail(<<c, d, e, f>> \o t) = <<d, e, f>> \o t
    BY FourThen
  <2> QED BY <1>3, <1>9, <2>1 DEF Concludes, SetsReason
<1>11. ToFarewell(<<b, c, d, e, f>> \o t)
  <2>1. /\ <<b, c, d, e, f>> \o t # << >> /\ Head(<<b, c, d, e, f>> \o t) = b
        /\ Tail(<<b, c, d, e, f>> \o t) = <<c, d, e, f>> \o t
    BY FiveThen
  <2> QED BY <1>2, <1>10, <2>1 DEF ToFarewell, FirstEmit, First
<1>12. ToVerdict(<<a, b, c, d, e, f>> \o t)
  <2>1. /\ <<a, b, c, d, e, f>> \o t # << >> /\ Head(<<a, b, c, d, e, f>> \o t) = a
        /\ Tail(<<a, b, c, d, e, f>> \o t) = <<b, c, d, e, f>> \o t
    BY SixThen
  <2> QED BY <1>1, <1>11, <2>1 DEF ToVerdict, FirstEmit, First
<1> QED BY <1>7, <1>12

\* The loop is brought to an end.
LEMMA LeavePlace ==
    ASSUME TypeInv, Kept(Here), Paced, NEW s, Weighs(s), ~GoesOn \/ Last = loop.max,
           NEW S, NEW t \in Seq(S), Behind(t), NEW reason, Given(reason)
    PROVE  Place((burnSpeculativeWisp(s.x) \o terminate(s.w, reason)) \o t)
<1>1. Finished /\ s.w = meta.active /\ Has(meta.active) /\ IterOf(s.w) = Last
  BY WispsAre DEF Weighs, Paced, Last
<1>2. ToVerdict(terminate(s.w, reason) \o t)
  BY <1>1, TerminateSteps
<1>3. PICK p : p = terminate(s.w, reason)
  OBVIOUS
<1>4. \E U : p \in Seq(U)
  <2>1. PICK a, b, c, d, e, f : p = <<a, b, c, d, e, f>>
    BY <1>3, Zenon DEF terminate
  <2>2. p \in Seq({a, b, c, d, e, f})
    BY <2>1
  <2> QED BY <2>2
<1>5. /\ Last \in Nat /\ loop.max \in Nat /\ \A i : Has(i) => wisp[i].iter \in Nat
      /\ \A i : Shut(i) => Has(i)
  BY <1>1, WispsAre DEF Last
<1>6. \A i : Has(i) /\ ~Shut(i) => Later(i)
  BY <1>1, <1>5, OpenIs DEF Finished, OnGoing, Later
<1>7. \A i : Later(i) => Last < loop.max
  BY DEF Paced
<1>8. CASE s.x = None
  <2>1. Last = loop.max
    BY <1>8 DEF Weighs
  <2>2. \A i : ~Later(i)
    BY <1>5, <1>7, <2>1
  <2>3. Bare
    BY <1>5, <1>6, <2>2 DEF Bare, Later
  <2>4. AtVerdict(p \o t)
    BY <1>1, <1>2, <1>3, <2>3 DEF AtVerdict
  <2>5. burnSpeculativeWisp(s.x) = << >>
    BY <1>8 DEF burnSpeculativeWisp, When
  <2>6. << >> \o p = p
    BY <1>4, NoneThen
  <2> QED BY <1>3, <2>4, <2>5, <2>6 DEF Place, Leaves
<1>9. CASE s.x # None
  <2>1. NextIs(s.x) /\ Later(s.x)
    BY <1>5, <1>9 DEF Weighs, NextIs, Later
  <2>2. ~GoesOn
    BY <1>5, <1>7, <2>1
  <2>3. \A i : Later(i) => wisp[i].st = "spec"
    BY <2>2 DEF Paced
  <2>4. \A i : Later(i) => i = s.x
    <3>1. \A i : Later(i) => Has(i) /\ ~Shut(i)
      BY <2>3 DEF Later, Shut
    <3> QED BY <2>1, <3>1, OpenIs
  <2>5. PICK a : a = Call("delete", s.x) /\ a.op = "delete" /\ a.w = s.x
    BY CallBits
  <2>6. PICK b : b = ClearPending /\ b.op = "ref" /\ b.key = "pending"
    BY CallBits
  <2>7. burnSpeculativeWisp(s.x) = <<a, b>>
    BY <1>9, <2>5, <2>6, Zenon DEF burnSpeculativeWisp, When, Call
  <2>8. (<<a, b>> \o p) \o t = <<a, b>> \o (p \o t)
    <3>1. PICK U : p \in Seq(U)
      BY <1>4
    <3>2. /\ <<a, b>> \in Seq((U \cup S) \cup {a, b}) /\ p \in Seq((U \cup S) \cup {a, b})
          /\ t \in Seq((U \cup S) \cup {a, b})
      BY <3>1, Wider
    <3> QED BY <3>2, JoinParts
  <2>9. \E U : p \o t \in Seq(U)
    <3>1. PICK U : p \in Seq(U)
      BY <1>4
    <3>2. p \in Seq(U \cup S) /\ t \in Seq(U \cup S)
      BY <3>1, Wider
    <3> QED BY <3>2, JoinParts
  <2>10. PICK r : r = p \o t
    OBVIOUS
  <2>11. /\ <<a, b>> \o r # << >> /\ Head(<<a, b>> \o r) = a /\ Tail(<<a, b>> \o r) = <<b>> \o r
         /\ <<b>> \o r # << >> /\ Head(<<b>> \o r) = b /\ Tail(<<b>> \o r) = r
    BY <2>9, <2>10, OneThen, TwoThen, SMTT(30)
  <2>12. ToVerdict(r)
    BY <1>2, <1>3, <2>10
  <2>13. FirstRef(<<b>> \o r, "pending")
    BY <2>6, <2>11 DEF FirstRef, First
  <2>14. AtBurn(<<a, b>> \o r)
    BY <1>1, <2>1, <2>3, <2>4, <2>5, <2>11, <2>12, <2>13 DEF AtBurn, First
  <2> QED BY <1>3, <2>7, <2>8, <2>10, <2>14 DEF Place, Leaves
<1> QED BY <1>8, <1>9

\* The loop iterates.
LEMMA IteratePlace ==
    ASSUME TypeInv, Paced, NEW s, Weighs(s), GoesOn, Last < loop.max,
           NEW S, NEW t \in Seq(S), Behind(t)
    PROVE  Place(iterate(s.w, s.x) \o t)
<1>1. /\ Finished /\ s.w = meta.active /\ Has(meta.active) /\ IterOf(s.w) = Last
      /\ Last \in Nat /\ loop.max \in Nat
  BY WispsAre DEF Weighs, Paced, Last
<1>2. NextIs(s.x)
  BY <1>1 DEF Weighs
<1>3. PICK a : a = Call("activate", s.x) /\ a.op = "activate" /\ a.w = s.x
  BY CallBits
<1>4. PICK b : b = Emit("iteration", IterOf(s.w), "iterate") /\ b.op = "emit" /\ b.key = "iteration" /\ b.w = Last
  BY <1>1, EmitBits
<1>5. PICK c : c = Ref("active", s.x) /\ c.op = "ref" /\ c.key = "active" /\ c.w = s.x
  BY RefBits
<1>6. PICK d : d = Ref("lpw", s.w) /\ d.op = "ref" /\ d.key = "lpw" /\ d.w = s.w
  BY RefBits
<1>7. PICK e : e = ClearPending /\ e.op = "ref" /\ e.key = "pending"
  BY CallBits
<1>8. iterate(s.w, s.x) = <<a, b, c, d, e>>
  BY <1>3, <1>4, <1>5, <1>6, <1>7, Zenon DEF iterate, Call
<1>9. Tidies(<<e>> \o t)
  BY <1>7, OneThen DEF Tidies, FirstRef, First
<1>10. ToDone(<<d, e>> \o t)
  BY <1>1, <1>6, <1>9, TwoThen DEF ToDone, FirstRef, First
<1>11. ToNext(<<c, d, e>> \o t)
  <2>1. <<c, d, e>> \o t # << >> /\ Head(<<c, d, e>> \o t) = c /\ Tail(<<c, d, e>> \o t) = <<d, e>> \o t
    BY ThreeThen
  <2> QED BY <1>1, <1>2, <1>5, <1>10, <2>1 DEF ToNext, FirstRef, First
<1>12. AtReport(<<b, c, d, e>> \o t)
  <2>1. /\ <<b, c, d, e>> \o t # << >> /\ Head(<<b, c, d, e>> \o t) = b
        /\ Tail(<<b, c, d, e>> \o t) = <<c, d, e>> \o t
    BY FourThen
  <2> QED BY <1>4, <1>11, <2>1 DEF AtReport, FirstEmit, First
<1>13. AtActivate(<<a, b, c, d, e>> \o t)
  <2>1. /\ <<a, b, c, d, e>> \o t # << >> /\ Head(<<a, b, c, d, e>> \o t) = a
        /\ Tail(<<a, b, c, d, e>> \o t) = <<b, c, d, e>> \o t
    BY FiveThen
  <2> QED BY <1>2, <1>3, <1>12, <2>1 DEF AtActivate, First
<1> QED BY <1>8, <1>13 DEF Place, Iterates

\* The reasons a loop ends for.
LEMMA ReasonsAreGiven == Given("approved") /\ Given("no_convergence") /\ Given("stopped")
BY Zenon DEF Given

\* What the outcome means.
LEMMA SettlePlace ==
    ASSUME TypeInv, Straight, Kept(Here), Paced, NEW s, Weighs(s), meta.gated = meta.active,
           NEW S, NEW t \in Seq(S), Behind(t)
    PROVE  Place(prepareOutcome(s.w, s.x, s.v = "pour_failed") \o t)
<1>1. /\ s.v # "pour_failed" /\ ~loop.trigger /\ loop.onTimeout # "manual"
      /\ IterOf(s.w) = Last /\ Last \in Nat /\ loop.max \in Nat /\ Last <= loop.max
  BY WispsAre DEF Weighs, Straight, Paced, Last
<1>2. PICK p : p = prepareOutcome(s.w, s.x, FALSE)
  OBVIOUS
<1>3. prepareOutcome(s.w, s.x, s.v = "pour_failed") = p
  BY <1>1, <1>2 DEF prepareOutcome
<1>4. CASE meta.outcome = "pass"
  <2>1. p = burnSpeculativeWisp(s.x) \o terminate(s.w, "approved")
    BY <1>1, <1>2, <1>4 DEF prepareOutcome
  <2>2. ~GoesOn \/ Last = loop.max
    BY <1>4 DEF GoesOn
  <2>3. Place((burnSpeculativeWisp(s.x) \o terminate(s.w, "approved")) \o t)
    BY <2>2, ReasonsAreGiven, LeavePlace
  <2> QED BY <1>3, <2>1, <2>3
<1>5. CASE meta.outcome # "pass" /\ ((meta.outcome = "timeout" /\ loop.onTimeout = "terminate") \/ Last = loop.max)
  <2>1. p = burnSpeculativeWisp(s.x) \o terminate(s.w, "no_convergence")
    BY <1>1, <1>2, <1>5 DEF prepareOutcome
  <2>2. ~GoesOn \/ Last = loop.max
    BY <1>5 DEF GoesOn
  <2>3. Place((burnSpeculativeWisp(s.x) \o terminate(s.w, "no_convergence")) \o t)
    BY <2>2, ReasonsAreGiven, LeavePlace
  <2> QED BY <1>3, <2>1, <2>3
<1>6. CASE meta.outcome # "pass" /\ ~(meta.outcome = "timeout" /\ loop.onTimeout = "terminate") /\ Last # loop.max
  <2>1. p = iterate(s.w, s.x)
    BY <1>1, <1>2, <1>6 DEF prepareOutcome
  <2>2. GoesOn /\ Last < loop.max
    BY <1>1, <1>6 DEF GoesOn
  <2> QED BY <1>3, <2>1, <2>2, IteratePlace
<1> QED BY <1>4, <1>5, <1>6
\* A step before others that are in place.
LEMMA StalePlace ==
    ASSUME NEW S, NEW t \in Seq(S), NEW b, NEW c,
           AtPour(<<b>> \o t) \/ AtGate(<<b>> \o t)
    PROVE  Place((When(c, <<ClearPending>>) \o <<b>>) \o t)
<1>1. PICK a : a = ClearPending /\ a.op = "ref" /\ a.key = "pending"
  BY CallBits
<1>2. CASE c
  <2>1. When(c, <<ClearPending>>) = <<a>>
    BY <1>1, <1>2 DEF When
  <2>2. <<a>> \o <<b>> = <<a, b>>
    <3>1. a \in {a, b} /\ b \in {a, b}
      OBVIOUS
    <3> QED BY <3>1, PairIs
  <2>3. /\ <<a, b>> \o t # << >> /\ Head(<<a, b>> \o t) = a /\ Tail(<<a, b>> \o t) = <<b>> \o t
    BY TwoThen
  <2>4. AtPending(<<a, b>> \o t)
    BY <1>1, <2>3 DEF AtPending, FirstRef, First
  <2> QED BY <2>1, <2>2, <2>4 DEF Place, Gates
<1>3. CASE ~c
  <2>1. When(c, <<ClearPending>>) = << >>
    BY <1>3 DEF When
  <2>2. << >> \o <<b>> = <<b>>
    OBVIOUS
  <2> QED BY <2>1, <2>2 DEF Place, Gates
<1> QED BY <1>2, <1>3

\* The active wisp is handled.
LEMMA HandlePlace ==
    ASSUME TypeInv, Straight, Paced, Finished, NEW S, NEW t \in Seq(S), Behind(t)
    PROVE  Place(HandleWispClosed(meta.active) \o t)
<1> DEFINE w == meta.active
           n == IterOf(w)
           spec == validPendingNextWisp(n + 1)
           stale == When(meta.pending # None /\ spec = None, <<ClearPending>>)
<1>1. /\ w \in 0..Len(wisp) /\ Exists(w) /\ n = Last /\ Last \in Nat /\ loop.max \in Nat
      /\ Last <= loop.max /\ IterOf(meta.lpw) < Last /\ IterOf(meta.lpw) \in Nat
      /\ meta.pending \in 0..Len(wisp)
  <2>1. Has(w) /\ Last <= loop.max /\ IterOf(meta.lpw) < Last
    BY DEF Paced, Finished, OnGoing
  <2>2. IterOf(meta.lpw) \in Nat
    BY WispsAre
  <2> QED BY <2>1, <2>2, WispsAre DEF Last
<1>2. loop.gate = "condition" /\ ~loop.trigger /\ meta.state = "active"
  BY DEF Straight, Finished, OnGoing
<1>3. spec # None => NextIs(spec)
  <2>1. spec # None => /\ spec = meta.pending /\ Open(meta.pending)
                       /\ wisp[meta.pending].iter = n + 1
    BY DEF validPendingNextWisp
  <2> QED BY <1>1, <2>1, WispsAre DEF NextIs
<1>4. PICK ga : ga = Gate(w, spec) /\ ga.op = "gate" /\ ga.w = w /\ ga.x = spec /\ ga.v # "pour_failed"
  BY CallBits
<1>5. PICK po : po = Pour(n + 1, "speculative", w) /\ po.op = "pour" /\ po.key = "speculative"
                /\ po.x = w /\ po.w = n + 1
  BY DoBits
<1> HIDE DEF n, spec
<1>6. ~(n <= IterOf(meta.lpw))
  BY <1>1
<1>7. \/ n < loop.max /\ spec = None /\ HandleWispClosed(w) = stale \o <<po>>
      \/ ~(n < loop.max /\ spec = None) /\ HandleWispClosed(w) = stale \o <<ga>>
  <2>1. meta.state # "terminated" /\ loop.gate # "unset"
    BY <1>2
  <2> QED BY <1>1, <1>2, <1>4, <1>5, <1>6, <2>1, Zenon DEF HandleWispClosed, n, spec, Gate
<1>8. CASE n < loop.max /\ spec = None
  <2>1. <<po>> \o t # << >> /\ Head(<<po>> \o t) = po /\ Tail(<<po>> \o t) = t
    BY OneThen
  <2>2. AtPour(<<po>> \o t)
    BY <1>1, <1>5, <1>8, <2>1 DEF AtPour, First
  <2>3. Place((stale \o <<po>>) \o t)
    BY <2>2, StalePlace
  <2> QED BY <1>7, <1>8, <2>3
<1>9. CASE ~(n < loop.max /\ spec = None)
  <2>1. <<ga>> \o t # << >> /\ Head(<<ga>> \o t) = ga /\ Tail(<<ga>> \o t) = t
    BY OneThen
  <2>2. Weighs(ga)
    BY <1>1, <1>3, <1>4, <1>9 DEF Weighs
  <2>3. AtGate(<<ga>> \o t)
    BY <1>4, <2>1, <2>2 DEF AtGate, First
  <2>4. Place((stale \o <<ga>>) \o t)
    BY <2>3, StalePlace
  <2> QED BY <1>7, <1>9, <2>4
<1> QED BY <1>8, <1>9

\* An end that was interrupted is completed.
LEMMA CompletePlace ==
    ASSUME meta.state = "active", Given(meta.treason), NEW S, NEW t \in Seq(S), Behind(t)
    PROVE  Place(completeTerminalTransition \o t)
<1> DEFINE c == HighestClosed # None
<1>1. PICK a : a = Emit("terminated", 0, meta.treason) /\ a.op = "emit" /\ a.key = "terminated"
  BY EmitBits
<1>2. PICK b : b = Set("state", "terminated") /\ b.op = "set" /\ b.key = "state" /\ b.v = "terminated"
  BY SetBits
<1>3. PICK d : d = CloseRoot /\ d.op = "close_root"
  BY CallBits
<1>4. PICK e : e = BestEffort(Ref("lpw", HighestClosed)) /\ e.op = "ref" /\ e.key = "lpw"
  BY RefBits
<1>5. completeTerminalTransition = <<a, b, d>> \o When(c, <<e>>)
  BY <1>1, <1>2, <1>3, <1>4 DEF completeTerminalTransition
<1> HIDE DEF c
<1>6. PICK r : r = When(c, <<e>>) /\ (r = <<e>> \/ r = << >>)
  BY DEF When
<1>7. PICK U : U = S \cup {a, b, d, e}
  OBVIOUS
<1>8. <<a, b, d>> \in Seq(U) /\ r \in Seq(U) /\ t \in Seq(U)
  <2>1. a \in U /\ b \in U /\ d \in U /\ e \in U /\ S \subseteq U
    BY <1>7
  <2>2. <<a, b, d>> \in Seq(U) /\ <<e>> \in Seq(U) /\ << >> \in Seq(U)
    BY <2>1
  <2>3. t \in Seq(U)
    BY <2>1, Wider
  <2> QED BY <1>6, <2>2, <2>3
<1>9. PICK y : y = r \o t
  OBVIOUS
<1>10. (<<a, b, d>> \o r) \o t = <<a, b, d>> \o y /\ y \in Seq(U)
  BY <1>8, <1>9, JoinParts
<1>11. Quiets(y)
  <2>1. Quiet(e) /\ Quiets(t)
    BY <1>4, BehindIsQuiet DEF Quiet
  <2>2. Quiets(<<e>> \o t)
    BY <2>1, QuietPair
  <2>3. << >> \o t = t
    BY NoneThen
  <2> QED BY <1>6, <1>9, <2>1, <2>2, <2>3
<1>12. /\ <<a, b, d>> \o y # << >> /\ Head(<<a, b, d>> \o y) = a /\ Tail(<<a, b, d>> \o y) = <<b, d>> \o y
       /\ <<b, d>> \o y # << >> /\ Head(<<b, d>> \o y) = b /\ Tail(<<b, d>> \o y) = <<d>> \o y
  <2>1. /\ <<a, b, d>> \o y # << >> /\ Head(<<a, b, d>> \o y) = a
        /\ Tail(<<a, b, d>> \o y) = <<b, d>> \o y
    BY <1>10, ThreeThen
  <2>2. /\ <<b, d>> \o y # << >> /\ Head(<<b, d>> \o y) = b /\ Tail(<<b, d>> \o y) = <<d>> \o y
    BY <1>10, TwoThen
  <2> QED BY <2>1, <2>2
<1>13. Quiets(<<d>> \o y)
  BY <1>3, <1>10, <1>11, QuietPair DEF Quiet, Announces
<1>14. Ending(<<b, d>> \o y)
  BY <1>2, <1>12, <1>13 DEF Ending, Ends, SetsState
<1>15. AtEnding(<<a, b, d>> \o y)
  BY <1>1, <1>12, <1>14 DEF AtEnding, NearEnd, First, Announces
<1> QED BY <1>5, <1>6, <1>10, <1>15 DEF Place

\* A loop that ended is closed.
LEMMA NotClosedPlace ==
    ASSUME meta.state = "terminated", NEW S, NEW t \in Seq(S), Behind(t)
    PROVE  Place(reconcileTerminatedNotClosed \o t)
<1>1. PICK v : v = IF meta.treason = "" THEN "no_convergence" ELSE meta.treason
  BY Zenon
<1>2. PICK a : a = Emit("terminated", 0, v) /\ a.op = "emit" /\ a.key = "terminated"
  BY EmitBits
<1>3. PICK d : d = CloseRoot /\ d.op = "close_root"
  BY CallBits
<1>4. reconcileTerminatedNotClosed = <<a, d>>
  BY <1>1, <1>2, <1>3, Zenon DEF reconcileTerminatedNotClosed
<1>5. Quiet(a) /\ Quiet(d) /\ Quiets(t)
  BY <1>2, <1>3, BehindIsQuiet DEF Quiet, Announces
<1>6. Quiets(<<a, d>> \o t)
  BY <1>5, QuietPair
<1> QED BY <1>4, <1>6 DEF Place, AtEnd

\* What trails behind a loop that goes on is rest.
LEMMA RestPlace ==
    ASSUME TypeInv, Kept(Here), Paced, OnGoing, ~Shut(meta.active), NEW t, Behind(t)
    PROVE  Place(t)
<1>1. \A i : ~Later(i)
  BY DEF Paced
<1>2. \A i : Has(i) => wisp[i].iter \in Nat
  BY WispsAre
<1>3. Has(meta.active) /\ Last \in Nat
  BY <1>2 DEF Paced, Last
<1>4. Solo
  BY <1>1, <1>2, <1>3 DEF Solo, Later
<1> QED BY <1>4 DEF Place, Waits, AtRest

\* The loop is reconciled.
LEMMA ReconcilePlace ==
    ASSUME LoopInv, Straight, Kept(Here), Paced, NEW S, NEW t \in Seq(S), Behind(t)
    PROVE  Place(reconcileState \o t)
<1> DEFINE w == meta.active
<1>1. TypeInv /\ Announced /\ root \in {"none", "open", "closed"} /\ root # "none" /\ Quiets(t)
  BY BehindIsQuiet DEF LoopInv, TypeInv, Straight, EndHasReason
<1>2. << >> \o t = t
  BY NoneThen
<1>3. CASE root # "open"
  <2>1. meta.state = "terminated"
    BY <1>1, <1>3 DEF LoopInv, ClosedIsOver
  <2>2. reconcileState = << >>
    BY <1>3, Zenon DEF reconcileState
  <2> QED BY <1>1, <1>2, <2>1, <2>2 DEF Place, AtEnd
<1>4. CASE root = "open" /\ meta.state = "terminated"
  <2>1. reconcileState = reconcileTerminatedNotClosed
    BY <1>4, Zenon DEF reconcileState
  <2> QED BY <1>4, <2>1, NotClosedPlace
<1>5. CASE root = "open" /\ meta.state = "active"
  <2>1. reconcileState = reconcileActive
    BY <1>5, Zenon DEF reconcileState
  <2>2. Has(w) /\ w \in 0..Len(wisp) /\ w # None /\ Exists(w) /\ (Closed(w) <=> Shut(w))
    BY <1>1, WispsAre DEF Paced
  <2>3. CASE Given(meta.treason)
    <3>1. reconcileActive = completeTerminalTransition
      BY <2>3, Zenon DEF reconcileActive, Given
    <3> QED BY <1>5, <2>1, <2>3, <3>1, CompletePlace
  <2>4. CASE ~Given(meta.treason)
    <3>1. OnGoing
      BY <1>5, <2>4 DEF OnGoing
    <3>2. PICK h : h = Call("handle", w) /\ h.op = "handle" /\ h.w = w
      BY CallBits
    <3>3. reconcileActive = << >> \o When(Closed(w) /\ meta.lpw # w, <<h>>)
      BY <2>2, <2>4, <3>2, Zenon DEF reconcileActive, When, Call, Given
    <3>4. meta.lpw # w
      <4>1. SUFFICES ASSUME meta.lpw = w PROVE FALSE
        OBVIOUS
      <4>2. IterOf(w) < Last /\ IterOf(w) = Last /\ Last \in Nat
        BY <1>1, <1>5, <2>2, <4>1, WispsAre DEF Paced, Last
      <4> QED BY <4>2
    <3>5. CASE Shut(w)
      <4>1. reconcileActive = << >> \o <<h>> /\ << >> \o <<h>> = <<h>>
        BY <2>2, <3>3, <3>4, <3>5 DEF When
      <4>2. <<h>> \o t # << >> /\ Head(<<h>> \o t) = h /\ Tail(<<h>> \o t) = t
        BY OneThen
      <4>3. AtHandle(<<h>> \o t)
        BY <3>1, <3>2, <3>5, <4>2 DEF AtHandle, First, Finished
      <4> QED BY <2>1, <4>1, <4>3 DEF Place, Waits
    <3>6. CASE ~Shut(w)
      <4>1. reconcileActive = << >> \o << >> /\ << >> \o << >> = << >>
        BY <2>2, <3>3, <3>6 DEF When
      <4>2. Place(t)
        BY <1>1, <3>1, <3>6, RestPlace
      <4> QED BY <1>2, <2>1, <4>1, <4>2
    <3> QED BY <3>5, <3>6
  <2> QED BY <2>3, <2>4
<1> QED BY <1>3, <1>4, <1>5 DEF Paced
-----------------------------------------------------------------------------
(* The branches of a stop.                                                 *)

\* One more step that trails behind.
LEMMA BehindOne ==
    ASSUME NEW S, NEW t \in Seq(S), Behind(t), NEW a, a.op = "stop_reread"
    PROVE  Behind(<<a>> \o t)
<1>1. <<a>> \in Seq(S \cup {a}) /\ t \in Seq(S \cup {a})
  BY Wider
<1>2. \A k \in 1..Len(<<a>>) : <<a>>[k] = a
  OBVIOUS
<1> QED BY <1>1, <1>2, JoinIs DEF Behind

\* A stop begins: the active wisp is drained, or closed by force.
LEMMA StopDrainPlace ==
    ASSUME TypeInv, Paced, OnGoing, Solo, NEW S, NEW t \in Seq(S), Behind(t)
    PROVE  Place(stopDrain \o t)
<1> DEFINE w == meta.active
<1>1. Has(w) /\ Exists(w) /\ (Closed(w) <=> Shut(w))
  BY WispsAre DEF Paced
<1>2. PICK h : h = Call("handle", w) /\ h.op = "handle" /\ h.w = w
  BY CallBits
<1>3. PICK r : r = Call("stop_reread", None) /\ r.op = "stop_reread"
  BY CallBits
<1>4. PICK f : f = Call("stop_force", w) /\ f.op = "stop_force" /\ f.w = w
  BY CallBits
<1>5. stopDrain = IF Closed(w) THEN <<h, r>> ELSE <<f>>
  BY <1>1, <1>2, <1>3, <1>4, Zenon DEF stopDrain, Call
<1>6. CASE Closed(w)
  <2>1. /\ <<h, r>> \o t # << >> /\ Head(<<h, r>> \o t) = h /\ Tail(<<h, r>> \o t) = <<r>> \o t
    BY TwoThen
  <2>2. Behind(<<r>> \o t)
    BY <1>3, BehindOne
  <2>3. AtHandle(<<h, r>> \o t)
    BY <1>1, <1>2, <1>6, <2>1, <2>2 DEF AtHandle, First, Finished
  <2> QED BY <1>5, <1>6, <2>3 DEF Place, Waits
<1>7. CASE ~Closed(w)
  <2>1. <<f>> \o t # << >> /\ Head(<<f>> \o t) = f /\ Tail(<<f>> \o t) = t
    BY OneThen
  <2>2. AtForce(<<f>> \o t)
    BY <1>4, <2>1 DEF AtForce, First
  <2> QED BY <1>5, <1>7, <2>2 DEF Place, Stops
<1> QED BY <1>6, <1>7

\* The loop is looked at again once the wisp is drained.
LEMMA RereadPlace ==
    ASSUME NEW S, NEW t \in Seq(S), (OnGoing /\ Solo /\ Behind(t)) \/ AtEnd(t)
    PROVE  Place((IF meta.state = "terminated" THEN << >>
                  ELSE <<Do("stop_force", meta.active, None, "")>>) \o t)
<1>1. PICK f : f = Call("stop_force", meta.active) /\ f.op = "stop_force" /\ f.w = meta.active
  BY CallBits
<1>2. PICK p : p = IF meta.state = "terminated" THEN << >> ELSE <<f>>
  OBVIOUS
<1>3. p = IF meta.state = "terminated" THEN << >> ELSE <<Do("stop_force", meta.active, None, "")>>
  BY <1>1, <1>2, Zenon DEF Call
<1>4. CASE AtEnd(t)
  <2>1. p = << >> /\ << >> \o t = t
    BY <1>2, <1>4, NoneThen DEF AtEnd
  <2>2. Place(p \o t)
    BY <1>4, <2>1 DEF Place
  <2> QED BY <1>3, <2>2, Zenon
<1>5. CASE OnGoing /\ Solo /\ Behind(t)
  <2>1. p = <<f>>
    BY <1>2, <1>5 DEF OnGoing
  <2>2. <<f>> \o t # << >> /\ Head(<<f>> \o t) = f /\ Tail(<<f>> \o t) = t
    BY OneThen
  <2>3. AtForce(<<f>> \o t)
    BY <1>1, <1>5, <2>2 DEF AtForce, First
  <2>4. Place(p \o t)
    BY <2>1, <2>3 DEF Place, Stops
  <2> QED BY <1>3, <2>4, Zenon
<1> QED BY <1>4, <1>5

\* The wisp is read again: an open one is closed.
LEMMA ForcePlace ==
    ASSUME TypeInv, Kept(Here), Paced, OnGoing, Solo, NEW S, NEW t \in Seq(S), Behind(t)
    PROVE  Place(stopForce(meta.active) \o t)
<1> DEFINE w == meta.active
<1>1. /\ Has(w) /\ Exists(w) /\ (Open(w) <=> ~Shut(w)) /\ Last \in Nat
      /\ \A i : Has(i) => wisp[i].iter \in Nat
  BY WispsAre DEF Paced, Last
<1>2. PICK a : a = Call("close_wisp", w) /\ a.op = "close_wisp" /\ a.w = w
  BY CallBits
<1>3. PICK b : b = Do("stop_commit", w, None, "forced") /\ b.op = "stop_commit"
  BY DoBits
<1>4. PICK c : c = Call("stop_commit", w) /\ c.op = "stop_commit"
  BY CallBits
<1>5. stopForce(w) = IF Open(w) THEN <<a, b>> ELSE <<c>>
  BY <1>1, <1>2, <1>3, <1>4, Zenon DEF stopForce, Call
<1>6. CASE Open(w)
  <2>1. /\ <<a, b>> \o t # << >> /\ Head(<<a, b>> \o t) = a /\ Tail(<<a, b>> \o t) = <<b>> \o t
    BY TwoThen
  <2>2. <<b>> \o t # << >> /\ Head(<<b>> \o t) = b /\ Tail(<<b>> \o t) = t
    BY OneThen
  <2>3. AtKill(<<a, b>> \o t)
    BY <1>2, <1>3, <2>1, <2>2 DEF AtKill, Commits, First
  <2> QED BY <1>5, <1>6, <2>3 DEF Place, Stops
<1>7. CASE ~Open(w)
  <2>1. <<c>> \o t # << >> /\ Head(<<c>> \o t) = c /\ Tail(<<c>> \o t) = t
    BY OneThen
  <2>2. \A i : Has(i) /\ ~Shut(i) => wisp[i].iter = Last + 1
    BY <1>1, <1>7, OpenIs DEF OnGoing
  <2>3. Bare
    BY <1>1, <2>2 DEF Bare, Solo
  <2>4. AtCommit(<<c>> \o t)
    BY <1>4, <2>1, <2>3 DEF AtCommit, Commits, First
  <2> QED BY <1>5, <1>7, <2>4 DEF Place, Stops
<1> QED BY <1>6, <1>7

\* A part that is there or not.
LEMMA WhenPart ==
    ASSUME NEW S, NEW a \in S, NEW c, Quiet(a)
    PROVE  When(c, <<a>>) \in Seq(S) /\ Quiets(When(c, <<a>>))
<1>1. Quiets(<<a>>) /\ Quiets(<< >>) /\ <<a>> \in Seq(S) /\ << >> \in Seq(S)
  <2>1. \A k \in 1..Len(<<a>>) : <<a>>[k] = a
    OBVIOUS
  <2>2. 1..Len(<< >>) = {}
    OBVIOUS
  <2> QED BY <2>1, <2>2 DEF Quiets
<1> QED BY <1>1 DEF When

\* The stop is carried out.
LEMMA CommitPlace ==
    ASSUME OnGoing, Bare, NEW w, NEW forced \in BOOLEAN, NEW S, NEW t \in Seq(S), Behind(t)
    PROVE  Place(stopCommit(w, forced) \o t)
<1> DEFINE final == IF forced THEN w ELSE meta.lpw
<1>1. PICK m : m = ""
  BY Zenon
<1>2. PICK a : a = Set("treason", "stopped") /\ a.op = "set" /\ a.key = "treason" /\ a.v = "stopped"
  BY SetBits
<1>3. PICK b : b = Set("wreason", m) /\ b.op = "set" /\ b.key = "wreason"
  BY SetBits
<1>4. PICK d : d = Set("state", "terminated") /\ d.op = "set" /\ d.key = "state" /\ d.v = "terminated"
  BY SetBits
<1>5. PICK e : e = Emit("terminated", 0, "stopped") /\ e.op = "emit" /\ e.key = "terminated"
  BY EmitBits
<1>6. PICK f : f = CloseRoot /\ f.op = "close_root"
  BY CallBits
<1>7. PICK g : g = Emit("iteration", ClosedCount, "stopped") /\ g.op = "emit" /\ g.key = "iteration"
  BY EmitBits
<1>8. PICK h : h = Ref("lpw", final) /\ h.op = "ref" /\ h.key = "lpw"
  BY RefBits
<1>9. PICK x : x = When(forced, <<g>>)
  OBVIOUS
<1>10. PICK y : y = When(final # None, <<h>>)
  OBVIOUS
<1>11. stopCommit(w, forced) = <<a, b, d>> \o x \o <<e, f>> \o y
  BY <1>1, <1>2, <1>3, <1>4, <1>5, <1>6, <1>7, <1>8, <1>9, <1>10, Zenon DEF stopCommit
<1>12. Quiet(e) /\ Quiet(f) /\ Quiet(g) /\ Quiet(h) /\ Quiets(t)
  BY <1>5, <1>6, <1>7, <1>8, BehindIsQuiet DEF Quiet, Announces
<1>13. a.op = "set" /\ a.key = "treason" /\ a.v = "stopped" /\ FirstSet(<<b>>, "wreason") /\ Ends(d)
  <2>1. <<b>> # << >> /\ Head(<<b>>) = b
    OBVIOUS
  <2> QED BY <1>2, <1>3, <1>4, <2>1 DEF FirstSet, First, Ends, SetsState
<1> HIDE DEF final
<1>14. PICK U : U = S \cup {a, b, d, e, f, g, h}
  OBVIOUS
<1>15. /\ a \in U /\ b \in U /\ d \in U /\ e \in U /\ f \in U /\ g \in U /\ h \in U
       /\ S \subseteq U
  BY <1>14
<1> HIDE <1>2, <1>3, <1>4, <1>5, <1>6, <1>7, <1>8, <1>14
<1>16. t \in Seq(U) /\ <<a, b, d>> \in Seq(U) /\ <<e, f>> \in Seq(U)
  BY <1>15, Wider
<1>17. x \in Seq(U) /\ Quiets(x) /\ y \in Seq(U) /\ Quiets(y)
  BY <1>9, <1>10, <1>12, <1>15, WhenPart
<1>18. PICK p \in Seq(U) : p = <<a, b, d>>
  BY <1>16
<1>19. PICK r \in Seq(U) : r = <<e, f>>
  BY <1>16
<1>20. PICK z : z = x \o (r \o (y \o t))
  OBVIOUS
<1>21. /\ y \o t \in Seq(U) /\ r \o (y \o t) \in Seq(U) /\ z \in Seq(U)
       /\ p \o x \in Seq(U) /\ (p \o x) \o r \in Seq(U)
  BY <1>16, <1>17, <1>20
<1>22. (((p \o x) \o r) \o y) \o t = p \o z
  <2> DEFINE J(k, l) == k \o l
  <2>1. ASSUME NEW k \in Seq(U), NEW l \in Seq(U) PROVE J(k, l) \in Seq(U)
    BY <2>1
  <2>2. ASSUME NEW k \in Seq(U), NEW l \in Seq(U), NEW n \in Seq(U) PROVE J(J(k, l), n) = J(k, J(l, n))
    BY <2>2, JoinParts, SMTT(30)
  <2>3. z = J(x, J(r, J(y, t)))
    BY <1>20
  <2> HIDE DEF J
  <2>4. p \in Seq(U) /\ x \in Seq(U) /\ r \in Seq(U) /\ y \in Seq(U) /\ t \in Seq(U)
    BY <1>16, <1>17, <1>18, <1>19
  <2>5. J(p, x) \in Seq(U) /\ J(J(p, x), r) \in Seq(U) /\ J(y, t) \in Seq(U) /\ J(r, J(y, t)) \in Seq(U)
    BY <2>1, <2>4
  <2>6. J(J(J(J(p, x), r), y), t) = J(J(J(p, x), r), J(y, t))
    BY <2>2, <2>4, <2>5
  <2>7. J(J(J(p, x), r), J(y, t)) = J(J(p, x), J(r, J(y, t)))
    BY <2>2, <2>4, <2>5
  <2>8. J(J(p, x), J(r, J(y, t))) = J(p, z)
    BY <2>2, <2>3, <2>4, <2>5
  <2> QED BY <2>6, <2>7, <2>8, Zenon DEF J
<1>23. Quiets(z)
  <2>1. Quiets(y \o t)
    BY <1>12, <1>16, <1>17, QuietJoin
  <2>2. Quiets(r \o (y \o t))
    BY <1>12, <1>19, <1>21, <2>1, QuietPair
  <2> QED BY <1>17, <1>20, <1>21, <2>2, QuietJoin
<1>24. /\ <<a, b, d>> \o z # << >> /\ Head(<<a, b, d>> \o z) = a
       /\ Tail(<<a, b, d>> \o z) = <<b, d>> \o z
  BY <1>21, ThreeThen
<1>25. /\ <<b, d>> \o z # << >> /\ Head(<<b, d>> \o z) = b /\ Tail(<<b, d>> \o z) = <<d>> \o z
  BY <1>21, TwoThen
<1>26. <<d>> \o z # << >> /\ Head(<<d>> \o z) = d /\ Tail(<<d>> \o z) = z
  BY <1>21, OneThen
<1>27. Ending(<<d>> \o z)
  BY <1>13, <1>23, <1>26 DEF Ending
<1>28. NearEnd(<<b, d>> \o z)
  <2>1. b.op = "set" /\ b.key = "wreason"
    BY <1>3
  <2> QED BY <1>25, <1>27, <2>1 DEF NearEnd, FirstSet, First
<1>29. Given("stopped")
  BY ReasonsAreGiven
<1>30. Concludes(<<a, b, d>> \o z)
  BY <1>13, <1>24, <1>28, <1>29 DEF Concludes, SetsReason
<1>31. AtReason(<<a, b, d>> \o z)
  BY <1>13, <1>24, <1>30 DEF AtReason, Bare
<1> QED BY <1>11, <1>18, <1>19, <1>22, <1>31 DEF Place, Leaves

\* A handler takes one of its branches.
LEMMA ExpandPaced ==
    ASSUME LoopInv, LoopInv', Straight, Kept(Here), Paced, Place(todo), Expand
    PROVE  Paced' /\ Place(todo)'
<1>1. /\ todo # << >> /\ UNCHANGED <<loop, meta, wisp, told>> /\ s0 = Head(todo)
      /\ todo' = Branch(s0) \o Tail(todo)
      /\ s0.op \in {"handle", "settle", "reconcile", "stop", "stop_reread", "stop_force", "stop_commit"}
  BY DEF Expand, s0
<1>2. TypeInv /\ Tail(todo) \in Seq(Steps(Len(wisp))) /\ todo \in Seq(Steps(Len(wisp)))
  BY <1>1, HeadIs DEF LoopInv
<1>3. PICK t \in Seq(Steps(Len(wisp))) : t = Tail(todo)
  BY <1>2
<1>4. Place(Branch(s0) \o t)
  <2>1. CASE s0.op = "handle"
    <3>1. Branch(s0) = HandleWispClosed(s0.w)
      BY <2>1, Zenon DEF Branch
    <3>2. s0.w = meta.active /\ Finished /\ Behind(t)
      BY <1>1, <1>2, <1>3, <2>1, WhichPlace DEF AtHandle
    <3> QED BY <1>2, <3>1, <3>2, HandlePlace
  <2>2. CASE s0.op = "settle"
    <3>1. Branch(s0) = prepareOutcome(s0.w, s0.x, s0.v = "pour_failed")
      BY <2>2, Zenon DEF Branch
    <3>2. Weighs(s0) /\ Behind(t) /\ meta.gated = meta.active
      BY <1>1, <1>2, <1>3, <2>2, WhichPlace DEF AtSettle, ToSettle
    <3> QED BY <1>2, <3>1, <3>2, SettlePlace
  <2>3. CASE s0.op = "reconcile"
    <3>1. Branch(s0) = reconcileState
      BY <2>3, Zenon DEF Branch
    <3>2. Behind(t)
      BY <1>1, <1>2, <1>3, <2>3, WhichPlace DEF AtScan
    <3> QED BY <3>1, <3>2, ReconcilePlace
  <2>4. CASE s0.op = "stop"
    <3>1. Branch(s0) = stopDrain
      BY <2>4, Zenon DEF Branch
    <3>2. Behind(t) /\ OnGoing /\ Solo
      BY <1>1, <1>2, <1>3, <2>4, WhichPlace DEF AtStop
    <3> QED BY <1>2, <3>1, <3>2, StopDrainPlace
  <2>5. CASE s0.op = "stop_reread"
    <3>1. Branch(s0) = IF meta.state = "terminated" THEN << >>
                       ELSE <<Do("stop_force", meta.active, None, "")>>
      BY <2>5, Zenon DEF Branch
    <3>2. AtRest(todo) \/ AtEnd(todo)
      BY <1>1, <1>2, <2>5, WhichPlace
    <3>3. (OnGoing /\ Solo /\ Behind(t)) \/ AtEnd(t)
      BY <1>1, <1>2, <1>3, <3>2, BehindIs DEF AtRest, AtEnd
    <3>4. PICK p : p = IF meta.state = "terminated" THEN << >>
                       ELSE <<Do("stop_force", meta.active, None, "")>>
      BY Zenon
    <3>5. Place(p \o t)
      BY <3>3, <3>4, RereadPlace, Zenon
    <3> QED BY <3>1, <3>4, <3>5, Zenon
  <2>6. CASE s0.op = "stop_force"
    <3>1. Branch(s0) = stopForce(s0.w)
      BY <2>6, Zenon DEF Branch
    <3>2. s0.w = meta.active /\ Behind(t) /\ OnGoing /\ Solo
      BY <1>1, <1>2, <1>3, <2>6, WhichPlace DEF AtForce
    <3> QED BY <1>2, <3>1, <3>2, ForcePlace
  <2>7. CASE s0.op = "stop_commit"
    <3>1. Branch(s0) = stopCommit(s0.w, s0.v = "forced")
      BY <2>7, Zenon DEF Branch
    <3>2. Behind(t) /\ OnGoing /\ Bare
      BY <1>1, <1>2, <1>3, <2>7, WhichPlace DEF AtCommit, Commits
    <3>3. (s0.v = "forced") \in BOOLEAN
      OBVIOUS
    <3> QED BY <3>1, <3>2, <3>3, CommitPlace
  <2> QED BY <1>1, <2>1, <2>2, <2>3, <2>4, <2>5, <2>6, <2>7
<1>5. PICK q : q = Branch(s0) \o t
  OBVIOUS
<1>6. todo' = q /\ Place(q)
  BY <1>1, <1>3, <1>4, <1>5
<1> QED BY <1>1, <1>6, SamePlace
-----------------------------------------------------------------------------
(* The steps of a straight loop.                                           *)

\* Nothing has failed, and nobody has removed a wisp.
LEMMA OnlyCrashes ==
    ASSUME Counts, [Next]_vars, CrashOnly'
    PROVE  CrashOnly /\ ~StoreFails /\ ~PourFails /\ ~ScanFails /\ ~Reap
<1>1. trouble'.fault = 0 /\ trouble'.reap = 0
  BY DEF CrashOnly
<1>2. trouble.reap = 0 /\ ~Reap
  BY <1>1, CountsNext
<1>3. StoreFails \/ PourFails \/ ScanFails => trouble' = [trouble EXCEPT !["fault"] = @ + 1]
  BY DEF StoreFails, PourFails, ScanFails, Strikes
<1>4. trouble' # [trouble EXCEPT !["fault"] = @ + 1]
  BY <1>1 DEF Counts
<1>5. trouble.fault = 0
  <2>1. CASE UNCHANGED trouble
    BY <1>1, <2>1
  <2>2. CASE trouble' = [trouble EXCEPT !["crash"] = @ + 1] \/ trouble' = [trouble EXCEPT !["reload"] = @ + 1]
    BY <1>1, <2>2 DEF Counts
  <2>3. CASE Trouble
    BY <1>2, <1>3, <1>4, <2>2, <2>3 DEF Trouble, Crash, Reload, Strikes
  <2>4. CASE Command \/ HandleTrigger \/ Tick
    BY <2>1, <2>4 DEF Command, HandleTrigger, Tick, Create, Approve, Stop, IterateHandler, Begin
  <2>5. CASE StoreStep
    BY <2>1, <2>5 DEF StoreStep, SetMetadata, SetReference, EmitEvent, CreateConvergenceBead,
                      CloseRootBead, CloseWisp, DeleteBead, ActivateWisp, SetWisp, PourWisp,
                      EvaluateGate, Expand, PopulateIndex, HandlerError
  <2>6. CASE Restart \/ AgentCloses \/ UNCHANGED vars
    BY <2>1, <2>6 DEF Restart, AgentCloses, vars
  <2> QED BY <2>3, <2>4, <2>5, <2>6 DEF Next
<1> QED BY <1>2, <1>3, <1>4, <1>5 DEF CrashOnly

\* Between handlers.
LEMMA IdlePlace ==
    ASSUME Place(<< >>)
    PROVE  (OnGoing /\ Solo) \/ meta.state = "terminated"
<1>1. ~Gates(<< >>) /\ ~Iterates(<< >>)
  BY DEF Gates, AtPour, AtGate, AtPending, ToSettle, AtSettle, AtMark, AtOutcome, First, FirstRef, FirstSet,
         Iterates, Tidies, AtTidy, AtDone, ToNext, AtNext, AtReport, AtActivate, FirstEmit
<1>2. ~Leaves(<< >>) /\ ~Stops(<< >>) /\ ~AtEnding(<< >>)
  BY DEF Leaves, AtReason, Concludes, ToFarewell, AtFarewell, ToVerdict, AtVerdict, AtUnpend, AtBurn,
         First, FirstRef, FirstEmit, FirstSet, Stops, AtStop, AtForce, AtKill, Commits, AtCommit,
         AtEnding, Ending, NearEnd
<1> QED BY <1>1, <1>2 DEF Place, Waits, AtRest, AtScan, AtHandle, First, AtEnd

\* One step, and nothing after it.
LEMMA LoneStep ==
    ASSUME NEW a
    PROVE  <<a>> # << >> /\ Head(<<a>>) = a /\ Behind(Tail(<<a>>))
<1>1. <<a>> # << >> /\ Head(<<a>>) = a /\ Tail(<<a>>) = << >> /\ 1..Len(<< >>) = {}
  OBVIOUS
<1> QED BY <1>1 DEF Behind

\* A scan begins in any place.
LEMMA ScanPlace == Place(StartupReconcile)
<1>1. PICK a : a = Call("reconcile", None) /\ a.op = "reconcile"
  BY CallBits
<1>2. PICK b : b = Call("index", None) /\ b.op = "index"
  BY CallBits
<1>3. StartupReconcile = <<a, b>>
  BY <1>1, <1>2, Zenon DEF StartupReconcile, Call
<1>4. <<a, b>> # << >> /\ Head(<<a, b>>) = a /\ Tail(<<a, b>>) = <<b>>
  OBVIOUS
<1>5. Len(<<b>>) = 1 /\ <<b>>[1] = b /\ \A k \in 1..1 : k = 1
  OBVIOUS
<1>6. Behind(<<b>>)
  BY <1>2, <1>5 DEF Behind
<1>7. AtScan(<<a, b>>)
  BY <1>1, <1>4, <1>6 DEF AtScan, First
<1> QED BY <1>3, <1>7 DEF Place, Waits

\* The handlers that begin.
LEMMA BeginPaced ==
    ASSUME LoopInv, Straight, Paced, up => Place(todo), Command \/ HandleTrigger \/ Tick
    PROVE  Paced' /\ Place(todo)'
<1>1. /\ Announced /\ root # "none" /\ meta.state \in {"active", "terminated"} /\ TypeInv
      /\ Has(meta.active)
  BY DEF Straight, LoopInv, EndHasReason, Paced
<1>2. PICK q : q = todo'
  OBVIOUS
<1>3. /\ UNCHANGED <<loop, meta, wisp, told>> /\ Idle
  BY DEF Command, HandleTrigger, Tick, Create, Approve, Stop, IterateHandler, Begin
<1>4. meta.state = "active" => OnGoing /\ Solo
  BY <1>3, IdlePlace DEF Idle
<1>5. Place(q)
  <2>1. CASE Command
    <3>1. Stop
      BY <1>1, <2>1 DEF Command, Create, Approve, IterateHandler
    <3>2. meta.state = "active"
      BY <1>1, <3>1 DEF Stop, Running
    <3>3. PICK a : a = Call("stop", None) /\ a.op = "stop"
      BY CallBits
    <3>4. q = <<a>>
      BY <1>2, <3>1, <3>3, Zenon DEF Stop, Begin, Call
    <3>5. AtStop(<<a>>)
      BY <1>4, <3>2, <3>3, LoneStep DEF AtStop, First
    <3> QED BY <3>4, <3>5 DEF Place, Stops
  <2>2. CASE HandleTrigger
    BY <1>1, <2>2 DEF HandleTrigger
  <2>3. CASE Tick
    <3>1. PICK a : a = Call("handle", meta.active) /\ a.op = "handle" /\ a.w = meta.active
      BY CallBits
    <3>2. \/ q = StartupReconcile
          \/ meta.state = "active" /\ Closed(meta.active) /\ q = <<a>>
          \/ ~Exists(meta.active)
      BY <1>2, <2>3, <3>1, Zenon DEF Tick, Begin, Call
    <3>3. Exists(meta.active) /\ (Closed(meta.active) => Shut(meta.active))
      BY <1>1, WispsAre
    <3>4. ASSUME meta.state = "active", Shut(meta.active) PROVE Place(<<a>>)
      <4>1. AtHandle(<<a>>)
        BY <1>4, <3>1, <3>4, LoneStep DEF AtHandle, First, Finished
      <4> QED BY <4>1 DEF Place, Waits
    <3> QED BY <3>2, <3>3, <3>4, ScanPlace
  <2> QED BY <2>1, <2>2, <2>3
<1> QED BY <1>2, <1>3, <1>5, SamePlace

\* No handler of a straight loop meets an error.
LEMMA NoError ==
    ASSUME LoopInv, Kept(Here), Paced, Place(todo)
    PROVE  ~HandlerError /\ ~CreateConvergenceBead
<1>1. TypeInv
  BY DEF LoopInv
<1>2. ASSUME CreateConvergenceBead PROVE FALSE
  BY <1>1, <1>2, WhichPlace DEF CreateConvergenceBead, At
<1>3. ASSUME HandlerError PROVE FALSE
  <2>1. todo # << >> /\ s0 = Head(todo)
    BY <1>3 DEF HandlerError, s0
  <2>2. CASE s0.op = "error"
    BY <1>1, <2>1, <2>2, WhichPlace
  <2>3. CASE s0.op \in {"activate", "delete", "close_wisp"} /\ ~Exists(s0.w)
    <3>1. AtActivate(todo) \/ AtBurn(todo) \/ AtKill(todo)
      BY <1>1, <2>1, <2>3, WhichPlace
    <3>2. Has(s0.w)
      BY <2>1, <3>1 DEF AtActivate, AtBurn, AtKill, NextIs, Later, Paced
    <3> QED BY <1>1, <2>3, <3>2, WispsAre DEF Has, Exists
  <2>4. CASE s0.op = "pour" /\ ~Given(meta.formula)
    BY <1>1, <2>4, OpenIs DEF Paced
  <2>5. \/ s0.op = "error"
        \/ s0.op \in {"activate", "delete", "close_wisp"} /\ ~Exists(s0.w)
        \/ s0.op = "pour" /\ ~Given(meta.formula)
    BY <1>3, Zenon DEF HandlerError, Given
  <2> QED BY <2>2, <2>3, <2>4, <2>5
<1> QED BY <1>2, <1>3

\* Every step of a straight loop keeps its pace.
LEMMA StraightNext ==
    ASSUME LoopInv, LoopInv', Counts, Kept(Here), Straight, CrashOnly', Paced, up => Place(todo),
           [Next]_vars
    PROVE  Paced' /\ (up' => Place(todo)')
<1>1. ~StoreFails /\ ~PourFails /\ ~ScanFails /\ ~Reap
  BY OnlyCrashes
<1>2. CASE Command \/ HandleTrigger \/ Tick
  BY <1>2, BeginPaced
<1>3. CASE StoreStep
  <2>1. up
    BY <1>3 DEF StoreStep, SetMetadata, SetReference, EmitEvent, CreateConvergenceBead,
                CloseRootBead, CloseWisp, DeleteBead, ActivateWisp, PourWisp,
                EvaluateGate, Expand, PopulateIndex, HandlerError, At
  <2>2. ~HandlerError /\ ~CreateConvergenceBead
    BY <2>1, NoError
  <2> QED BY <1>3, <2>1, <2>2, SetMetadataPaced, SetReferencePaced, EmitEventPaced, RootPaced,
             CloseWispPaced, DeleteBeadPaced, ActivateWispPaced, PourWispPaced, EvaluateGatePaced,
             ExpandPaced DEF StoreStep
<1>4. CASE AgentCloses
  <2>1. up' = up
    BY <1>4 DEF AgentCloses
  <2> QED BY <1>4, <2>1, AgentPaced
<1>5. CASE Restart \/ Crash \/ Reload \/ UNCHANGED vars
  <2>1. /\ UNCHANGED <<loop, meta, wisp, told>>
        /\ todo' = StartupReconcile \/ (up' = up /\ todo' = todo) \/ up' = FALSE
    BY <1>5 DEF Restart, Crash, Reload, vars
  <2>2. PICK q : q = todo'
    OBVIOUS
  <2>3. Paced' /\ (Place(q) => Place(todo)')
    BY <2>1, <2>2, SamePlace
  <2>4. q = StartupReconcile => Place(q)
    BY ScanPlace
  <2> QED BY <2>1, <2>2, <2>3, <2>4
<1> QED BY <1>1, <1>2, <1>3, <1>4, <1>5 DEF Next, Trouble
-----------------------------------------------------------------------------
(* The creation.                                                           *)

\* The handler is a creation.
Begets(q) == q # << >> /\ Creates(Head(q))

\* Steps that create nothing.
LEMMA NotBegetting ==
    ASSUME NEW S, NEW p \in Seq(S), Uncreating(p)
    PROVE  ~Begets(p)
<1>1. p # << >> => Head(p) = p[1] /\ 1 \in 1..Len(p)
  OBVIOUS
<1> QED BY <1>1 DEF Begets, Uncreating

\* Steps that create nothing, before others.
LEMMA JoinCreates ==
    ASSUME NEW S, NEW p \in Seq(S), NEW r \in Seq(S), Uncreating(p), Uncreating(r)
    PROVE  ~Begets(p \o r)
<1>1. Uncreating(p \o r) /\ p \o r \in Seq(S)
  BY JoinIs DEF Uncreating
<1> QED BY <1>1, NotBegetting

\* What is left of a creation is one.
LEMMA TailBegets ==
    ASSUME LoopInv, todo # << >>, Begets(Tail(todo))
    PROVE  Begets(todo)
<1>1. todo \in Seq(Steps(Len(wisp))) /\ CreationIsWhole(todo, Now)
  BY DEF LoopInv, TypeInv, Orderly
<1>2. /\ Tail(todo) \in Seq(Steps(Len(wisp))) /\ Head(todo) = todo[1] /\ 1 \in 1..Len(todo)
      /\ \A k \in 1..Len(Tail(todo)) : k + 1 \in 1..Len(todo) /\ Tail(todo)[k] = todo[k + 1]
  BY <1>1, TailIs
<1>3. PICK r \in Seq(Steps(Len(wisp))) : r = Tail(todo) /\ r # << >> /\ Creates(Head(r))
  BY <1>2 DEF Begets
<1>4. Head(r) = r[1] /\ 1 \in 1..Len(r)
  BY <1>3
<1>5. PICK m \in 1..Len(todo) : r[1] = todo[m]
  BY <1>2, <1>3, <1>4
<1>6. Creates(todo[m])
  BY <1>3, <1>4, <1>5
<1>7. Creates(todo[1])
  BY <1>1, <1>2, <1>6 DEF CreationIsWhole
<1> QED BY <1>2, <1>7 DEF Begets

\* What follows a step that branches creates nothing.
LEMMA BranchBegets ==
    ASSUME LoopInv, todo # << >>, s0.op \in Calls, NEW n \in Nat, n >= Len(wisp),
           NEW p \in Seq(Steps(n)), Uncreating(p)
    PROVE  ~Begets(p \o Tail(todo))
<1>1. /\ Len(wisp) \in Nat /\ todo \in Seq(Steps(Len(wisp))) /\ s0 = todo[1]
      /\ Tail(todo) \in Seq(Steps(Len(wisp))) /\ Orderly(todo, Now)
  BY HeadIs DEF LoopInv
<1>2. Trailing(Tail(todo))
  BY <1>1, TailOfCall
<1>3. Uncreating(Tail(todo))
  BY <1>2 DEF Uncreating, Trailing, Creates, Announces
<1>4. Steps(Len(wisp)) \subseteq Steps(n)
  BY <1>1, TypesGrow
<1>5. Tail(todo) \in Seq(Steps(n))
  BY <1>1, <1>4, Wider
<1> QED BY <1>3, <1>5, JoinCreates

\* A handler that gives up creates nothing.
LEMMA FailureBegets ==
    ASSUME LoopInv, todo # << >>, s0.op \in {"activate", "delete", "close_wisp", "pour"}
    PROVE  ~Begets(AfterFailure(s0))
<1>1. /\ Len(wisp) \in Nat /\ s0 = todo[1] /\ s0 \in Steps(Len(wisp)) /\ 1 \in 1..Len(todo)
      /\ s0 = Head(todo)
  BY HeadIs DEF s0
<1>2. Aborted \in Seq(Steps(Len(wisp))) /\ Flat(Aborted)
  BY AbortedIs
<1>3. s0.fail \in Fails /\ s0.x \in 0..Len(wisp)
  BY <1>1 DEF Steps
<1>4. CASE s0.fail = "abort"
  <2>1. AfterFailure(s0) = Aborted
    BY <1>4, Zenon DEF AfterFailure
  <2>2. Uncreating(Aborted)
    BY <1>2, FlatFits DEF Fits
  <2> QED BY <1>2, <2>1, <2>2, NotBegetting
<1>5. CASE s0.fail = "burn"
  <2>1. AfterFailure(s0) = burnSpeculativeWisp(s0.x) \o Aborted
    BY <1>5, Zenon DEF AfterFailure
  <2>2. burnSpeculativeWisp(s0.x) \in Seq(Steps(Len(wisp))) /\ Flat(burnSpeculativeWisp(s0.x))
    BY <1>1, <1>3, BurnIs
  <2>3. Uncreating(Aborted) /\ Uncreating(burnSpeculativeWisp(s0.x))
    BY <1>2, <2>2, FlatFits DEF Fits
  <2> QED BY <1>2, <2>1, <2>2, <2>3, JoinCreates
<1>6. CASE s0.fail = "rollback"
  <2>1. AfterFailure(s0) = closeBead
    BY <1>6, Zenon DEF AfterFailure
  <2>2. ~Now.announced
    <3>1. Creates(s0)
      BY <1>1, <1>6 DEF LoopInv, Orderly, FailuresAreMarked
    <3> QED BY <1>1, <3>1 DEF LoopInv, Orderly, CreationIsWhole
  <2>3. closeBead \in Seq(Steps(Len(wisp))) /\ Uncreating(closeBead)
    BY <1>1, <2>2, CloseBeadFits DEF Fits
  <2> QED BY <2>1, <2>3, NotBegetting
<1>7. CASE s0.fail = "skip"
  <2>1. AfterFailure(s0) = Tail(todo)
    BY <1>7, Zenon DEF AfterFailure
  <2>2. ~Begets(todo)
    BY <1>1, <1>7 DEF Begets, Creates, Announces
  <2> QED BY <2>1, <2>2, TailBegets
<1> QED BY <1>3, <1>4, <1>5, <1>6, <1>7 DEF Fails

\* An error leads to no creation.
LEMMA ErrorBegets ==
    ASSUME LoopInv, HandlerError
    PROVE  ~Begets(todo')
<1>1. todo # << >>
  BY DEF HandlerError
<1>2. CASE todo' = Aborted
  <2>1. Aborted \in Seq(Steps(Len(wisp))) /\ Flat(Aborted)
    BY <1>1, AbortedIs
  <2>2. Uncreating(Aborted)
    BY <2>1, FlatFits DEF Fits
  <2> QED BY <1>2, <2>1, <2>2, NotBegetting
<1>3. CASE s0.op \in {"activate", "delete", "close_wisp", "pour"} /\ todo' = AfterFailure(s0)
  BY <1>1, <1>3, FailureBegets
<1>4. CASE s0.op = "pour" /\ todo' = AfterPourFailure(s0)
  <2>1. CASE s0.key # "speculative"
    BY <1>3, <1>4, <2>1 DEF AfterPourFailure
  <2>2. CASE s0.key = "speculative"
    <3>1. PICK l : l = Do("gate", s0.x, None, "pour_failed") /\ l.op = "gate"
      BY DoBits
    <3>2. AfterPourFailure(s0) = <<l>> \o Tail(todo)
      BY <2>2, <3>1 DEF AfterPourFailure
    <3>3. Tail(todo) \in Seq(Steps(Len(wisp)))
      BY <1>1, HeadIs
    <3>4. Head(<<l>> \o Tail(todo)) = l
      BY <3>3, OneThen
    <3> QED BY <1>4, <3>1, <3>2, <3>4 DEF Begets, Creates, Announces
  <2> QED BY <2>1, <2>2
<1> QED BY <1>2, <1>3, <1>4, Zenon DEF HandlerError

\* A branch of a handler creates nothing.
LEMMA ExpandBegets ==
    ASSUME LoopInv, Expand \/ EvaluateGate
    PROVE  ~Begets(todo')
<1>1. todo # << >>
  BY DEF Expand, EvaluateGate, At
<1>2. Len(wisp) \in Nat /\ s0 \in Steps(Len(wisp)) /\ Len(wisp) >= Len(wisp) /\ TypeInv
  BY <1>1, HeadIs DEF LoopInv
<1>3. CASE Expand
  <2>1. s0.op \in Branches /\ todo' = Branch(s0) \o Tail(todo)
    BY <1>3 DEF Expand, Branches
  <2>2. Branch(s0) \in Seq(Steps(Len(wisp))) /\ Uncreating(Branch(s0))
    BY <1>1, <2>1, BranchFits DEF Fits
  <2>3. s0.op \in Calls
    BY <2>1 DEF Calls
  <2> QED BY <1>1, <1>2, <2>1, <2>2, <2>3, BranchBegets
<1>4. CASE EvaluateGate
  <2>1. s0.op = "gate"
    BY <1>4 DEF EvaluateGate, At
  <2>2. PICK outcome \in {"pass", "fail", "timeout"} : todo' = gateEvaluation(s0, outcome) \o Tail(todo)
    BY <1>4 DEF EvaluateGate
  <2>3. gateEvaluation(s0, outcome) \in Seq(Steps(Len(wisp))) /\ Uncreating(gateEvaluation(s0, outcome))
    BY <1>2, <2>1, GateFits DEF Fits
  <2>4. s0.op \in Calls
    BY <2>1 DEF Calls
  <2> QED BY <1>1, <1>2, <2>2, <2>3, <2>4, BranchBegets
<1> QED BY <1>3, <1>4

\* The handler of a creation that waits for no trigger.
LEMMA CreateBirth ==
    ASSUME ~loop.trigger
    PROVE  ToBead(CreateHandler)
<1>1. PICK a : a = Call("create", None) /\ a.op = "create"
  BY CallBits
<1>2. PICK b : b = OrRollback(Set("state", "creating")) /\ b.op = "set" /\ b.key = "state"
  BY SetBits
<1>3. PICK d : d = OrRollback(Set("formula", "set")) /\ d.op = "set" /\ d.key = "formula"
  BY SetBits
<1>4. PICK g : g = OrRollback(Set("state", "active")) /\ g.op = "set" /\ g.key = "state" /\ g.v = "active"
  BY SetBits
<1>5. PICK po : /\ po = OrRollback(Pour(1, "create", None)) /\ po.op = "pour" /\ po.key = "create"
                /\ po.w = 1
  BY DoBits
<1>6. CreateHandler = <<a, b, d>> \o <<g, po>>
  BY <1>1, <1>2, <1>3, <1>4, <1>5, Zenon DEF CreateHandler, Call
<1>7. <<g, po>> \in Seq({g, po})
  OBVIOUS
<1>8. /\ <<a, b, d>> \o <<g, po>> # << >> /\ Head(<<a, b, d>> \o <<g, po>>) = a
      /\ Tail(<<a, b, d>> \o <<g, po>>) = <<b, d>> \o <<g, po>>
  BY <1>7, ThreeThen
<1>9. /\ <<b, d>> \o <<g, po>> # << >> /\ Head(<<b, d>> \o <<g, po>>) = b
      /\ Tail(<<b, d>> \o <<g, po>>) = <<d>> \o <<g, po>>
  BY <1>7, TwoThen
<1>10. /\ <<d>> \o <<g, po>> # << >> /\ Head(<<d>> \o <<g, po>>) = d
       /\ Tail(<<d>> \o <<g, po>>) = <<g, po>>
  BY <1>7, OneThen
<1>11. <<g, po>> # << >> /\ Head(<<g, po>>) = g /\ Tail(<<g, po>>) = <<po>>
  OBVIOUS
<1>12. <<po>> # << >> /\ Head(<<po>>) = po /\ Tail(<<po>>) = << >>
  OBVIOUS
<1>13. ToFirst(<<po>>)
  BY <1>5, <1>12 DEF ToFirst, First
<1>14. ToActive(<<g, po>>)
  BY <1>4, <1>11, <1>13 DEF ToActive, Sets, SetsState
<1>15. ToFormula(<<d>> \o <<g, po>>)
  BY <1>3, <1>10, <1>14 DEF ToFormula, FirstSet, First
<1>16. ToState(<<b, d>> \o <<g, po>>)
  BY <1>2, <1>9, <1>15 DEF ToState, FirstSet, First
<1> QED BY <1>1, <1>6, <1>8, <1>16 DEF ToBead, First

\* A single step that creates nothing.
LEMMA LoneBegets ==
    ASSUME NEW a, a.op \notin {"create", "emit"}, a.fail = "abort"
    PROVE  ~Begets(<<a>>)
<1>1. Head(<<a>>) = a
  OBVIOUS
<1> QED BY <1>1 DEF Begets, Creates, Announces

\* Handlers that begin.
LEMMA BeginBirth ==
    ASSUME LoopInv, Made, Command \/ HandleTrigger \/ Tick, ~loop.trigger, Begets(todo')
    PROVE  Birth(todo)'
<1>1. Len(wisp) \in Nat
  BY DEF LoopInv, TypeInv
<1>2. ~Begets(StartupReconcile) /\ ~Begets(ApproveHandler)
  BY <1>1, StartupFits, ApproveFits, NotBegetting DEF Fits
<1>3. ASSUME NEW op, op \notin {"create", "emit"}, NEW w PROVE ~Begets(<<Call(op, w)>>)
  <2>1. PICK a : a = Call(op, w) /\ a.op = op /\ a.fail = "abort"
    BY CallBits
  <2> QED BY <1>3, <2>1, LoneBegets
<1>4. ASSUME NEW n, NEW key PROVE ~Begets(<<Pour(n, key, None)>>)
  <2>1. PICK a : a = Pour(n, key, None) /\ a.op = "pour" /\ a.fail = "abort"
    BY DoBits
  <2> QED BY <2>1, LoneBegets
<1>5. Create
  <2>1. ~Approve
    BY <1>2 DEF Approve, Begin
  <2>2. ~Stop
    <3>1. Stop => todo' = <<Call("stop", None)>>
      BY Zenon DEF Stop, Begin, Call
    <3>2. ~Begets(<<Call("stop", None)>>)
      BY <1>3
    <3> QED BY <3>1, <3>2
  <2>3. ~IterateHandler
    BY <1>4 DEF IterateHandler, Begin
  <2>4. ~HandleTrigger
    BY <1>4 DEF HandleTrigger, Begin
  <2>5. ~Tick
    <3>1. Tick => \/ todo' = StartupReconcile \/ todo' = <<Call("handle", meta.active)>>
                  \/ todo' = <<Call("reconcile", None)>>
      BY Zenon DEF Tick, Begin, Call
    <3>2. ~Begets(<<Call("handle", meta.active)>>) /\ ~Begets(<<Call("reconcile", None)>>)
      BY <1>3
    <3> QED BY <1>2, <3>1, <3>2
  <2> QED BY <2>1, <2>2, <2>3, <2>4, <2>5 DEF Command
<1>6. root = "none" /\ UNCHANGED <<meta, wisp>> /\ todo' = CreateHandler
  BY <1>5 DEF Create, Begin
<1>7. Unused /\ ToBead(todo')
  BY <1>6, CreateBirth DEF Made
<1>8. Unused'
  BY <1>6, <1>7 DEF Unused
<1> QED BY <1>7, <1>8 DEF Birth, AtBirth

\* The metadata of a creation.
LEMMA SetBirth ==
    ASSUME LoopInv, SetMetadata, Birth(todo)
    PROVE  Birth(todo)'
<1>1. /\ todo # << >> /\ todo' = Tail(todo) /\ s0 = Head(todo)
      /\ wisp' = wisp /\ s0.op = "set" /\ meta'.lpw = meta.lpw
      /\ meta'.state = IF s0.key = "state" THEN s0.v ELSE meta.state
      /\ meta'.treason = IF s0.key = "treason" THEN s0.v ELSE meta.treason
  BY SetWritten
<1>2. Unused /\ (ToActive(todo) \/ ToFormula(todo) \/ ToState(todo))
  BY <1>1 DEF Birth, AtBirth, AtFirst, ToFirst, AtSeat, FirstRef, AtCrown, ToCrown, First, Announces, ToBead
<1>3. s0.key # "treason"
  BY <1>1, <1>2 DEF ToActive, ToFormula, ToState, Sets, SetsState, FirstSet
<1>4. Unused'
  BY <1>1, <1>2, <1>3 DEF Unused
<1>5. CASE ToActive(todo)
  <2>1. ToFirst(todo') /\ meta'.state = "active"
    BY <1>1, <1>5 DEF ToActive, Sets, SetsState
  <2> QED BY <1>4, <2>1 DEF Birth, AtFirst
<1>6. CASE ToFormula(todo) \/ ToState(todo)
  <2>1. ToActive(todo') \/ ToFormula(todo')
    BY <1>1, <1>6 DEF ToFormula, ToState
  <2> QED BY <1>4, <2>1 DEF Birth, AtBirth
<1> QED BY <1>2, <1>5, <1>6

\* The first wisp becomes the active one.
LEMMA RefBirth ==
    ASSUME LoopInv, SetReference, Birth(todo)
    PROVE  Birth(todo)'
<1>1. /\ todo # << >> /\ todo' = Tail(todo) /\ s0 = Head(todo) /\ wisp' = wisp
      /\ meta'.state = meta.state /\ meta'.treason = meta.treason
      /\ meta'.active = IF s0.key = "active" THEN s0.w ELSE meta.active
      /\ meta'.lpw = IF s0.key = "lpw" THEN s0.w ELSE meta.lpw
  BY RefWritten
<1>2. s0.op = "ref"
  BY Zenon DEF SetReference, At
<1>3. AtSeat(todo)
  BY <1>1, <1>2, Zenon DEF Birth, AtBirth, AtFirst, ToFirst, AtCrown, ToCrown, First, Announces, ToBead, ToActive,
                    ToFormula, ToState, FirstSet, Sets, SetsState
<1>4. s0.key = "active" /\ New(s0.w) /\ ToCrown(todo')
  BY <1>1, <1>3 DEF AtSeat, FirstRef
<1>5. New(meta.active)'
  BY <1>1, <1>4 DEF New
<1> QED BY <1>4, <1>5 DEF Birth, AtCrown

\* The bead is created.
LEMMA BeadBirth ==
    ASSUME CreateConvergenceBead, Birth(todo)
    PROVE  Birth(todo)'
<1>1. /\ todo # << >> /\ todo' = Tail(todo) /\ s0 = Head(todo) /\ UNCHANGED <<meta, wisp>> /\ s0.op = "create"
  BY DEF CreateConvergenceBead, At, Go, s0
<1>2. Unused /\ ToBead(todo)
  BY <1>1 DEF Birth, AtBirth, AtFirst, ToFirst, AtCrown, ToCrown, First, Announces, ToActive, AtSeat, FirstRef,
              ToFormula, ToState, FirstSet, Sets, SetsState
<1>3. Unused' /\ ToState(todo')
  BY <1>1, <1>2, ZenonT(40) DEF Unused, ToBead
<1> QED BY <1>3 DEF Birth, AtBirth

\* The steps that are no part of a creation, and its last.
LEMMA NoBirth ==
    ASSUME todo # << >>, Birth(todo)
    PROVE  /\ s0.op \in {"create", "set", "pour", "ref", "emit"}
           /\ s0.op = "emit" => AtCrown(todo)
           /\ s0.op = "pour" => AtFirst(todo)
<1>1. s0 = Head(todo)
  BY DEF s0
<1> QED BY <1>1 DEF Birth, AtBirth, AtFirst, ToFirst, AtCrown, ToCrown, First, Announces, ToActive, AtSeat,
                    FirstRef, ToFormula, ToState, FirstSet, Sets, SetsState, ToBead

\* The first wisp is poured.
LEMMA PourBirth ==
    ASSUME LoopInv, PourWisp, Made, ~loop.trigger, Begets(todo')
    PROVE  Birth(todo)'
<1>1. /\ todo # << >> /\ s0.op = "pour" /\ UNCHANGED <<loop, meta>> /\ wisp' = Poured(s0.w, s0.key)
  BY DEF PourWisp, At
<1>2. PICK i : i = (IF Found(s0.w) # None THEN Found(s0.w) ELSE Len(wisp) + 1)
  OBVIOUS
<1>3. todo' = AfterPour(s0, i) \o Tail(todo)
  BY <1>2 DEF PourWisp
<1>4. /\ Len(wisp) \in Nat /\ s0 \in Steps(Len(wisp)) /\ s0 = todo[1] /\ 1 \in 1..Len(todo)
      /\ s0 = Head(todo)
  BY <1>1, HeadIs DEF s0
<1>5. s0.w \in Nat /\ s0.x \in 0..Len(wisp) /\ s0.key \in PourKeys
  BY <1>1, <1>4 DEF Steps
<1>6. /\ wisp' \in Seq(Wisps) /\ Len(wisp') >= Len(wisp) /\ Len(wisp') \in Nat
      /\ Found(s0.w) # None => wisp' = wisp
      /\ Found(s0.w) = None => Len(wisp') = Len(wisp) + 1
  BY <1>1, <1>5, PouredIs
<1>7. Found(s0.w) \in 0..Len(wisp)
  BY FindIs DEF LoopInv, Found
<1>8. i \in 0..Len(wisp')
  BY <1>2, <1>4, <1>6, <1>7
<1>9. s0.key = "create"
  <2> SUFFICES ASSUME s0.key # "create" PROVE FALSE
    OBVIOUS
  <2>1. s0.x \in 0..Len(wisp')
    BY <1>4, <1>5, <1>6
  <2>2. AfterPour(s0, i) \in Seq(Steps(Len(wisp'))) /\ Uncreating(AfterPour(s0, i))
    BY <1>5, <1>6, <1>8, <2>1, AfterPourFits DEF Fits
  <2>3. s0.op \in Calls
    BY <1>1 DEF Calls
  <2> QED BY <1>1, <1>3, <1>6, <2>2, <2>3, BranchBegets
<1>10. Creates(s0)
  BY <1>1, <1>4, <1>9 DEF LoopInv, Orderly, FailuresAreMarked, Creates
<1>11. AtFirst(todo)
  <2>1. Birth(todo)
    BY <1>1, <1>4, <1>10 DEF Made
  <2> QED BY <1>1, <2>1, NoBirth
<1>12. s0.w = 1 /\ Tail(todo) = << >> /\ Unused /\ meta.state = "active" /\ wisp = << >>
  BY <1>4, <1>11 DEF AtFirst, ToFirst, Unused
<1>13. Found(s0.w) = None /\ i = 1
  <2>1. Len(wisp) = 0
    BY <1>12
  <2> QED BY <1>2, <1>7, <2>1 DEF None
<1>14. wisp' = <<[iter |-> 1, st |-> "live"]>>
  <2>1. wisp' = Append(<< >>, [iter |-> 1, st |-> "live"])
    BY <1>1, <1>9, <1>12, <1>13 DEF Poured
  <2> QED BY <2>1
<1>15. New(i)'
  <2>1. Len(wisp') = 1 /\ wisp'[1].iter = 1 /\ wisp'[1].st = "live"
    BY <1>14
  <2>2. meta' = meta /\ meta.lpw = None /\ ~Given(meta.treason)
    BY <1>1, <1>12 DEF Unused
  <2> QED BY <1>12, <1>13, <2>1, <2>2 DEF New
<1>16. PICK r : r = OrRollback(Ref("active", i)) /\ r.op = "ref" /\ r.key = "active" /\ r.w = i
  BY RefBits
<1>17. PICK cr : cr = Created /\ Announces(cr)
  BY <1>4, CreatedIs
<1>18. AfterPour(s0, i) = <<r, cr>>
  BY <1>9, <1>16, <1>17, Zenon DEF AfterPour, Created
<1>19. PICK q : q = todo'
  OBVIOUS
<1>20. q = <<r, cr>>
  <2>1. <<r, cr>> \o << >> = <<r, cr>>
    OBVIOUS
  <2> QED BY <1>3, <1>12, <1>18, <1>19, <2>1
<1>21. q # << >> /\ Head(q) = r /\ Tail(q) = <<cr>> /\ <<cr>> # << >> /\ Head(<<cr>>) = cr /\ Tail(<<cr>>) = << >>
  BY <1>20
<1>22. ToCrown(<<cr>>)
  BY <1>17, <1>21 DEF ToCrown
<1>23. AtSeat(todo)'
  BY <1>15, <1>16, <1>19, <1>21, <1>22 DEF AtSeat, FirstRef, First, New
<1> QED BY <1>23 DEF Birth

\* An agent closes the first wisp while the loop is being created.
LEMMA AgentBirth ==
    ASSUME LoopInv, AgentCloses, Birth(todo)
    PROVE  Birth(todo)'
<1>1. PICK i \in DOMAIN wisp : wisp[i].st = "live" /\ wisp' = [wisp EXCEPT ![i].st = "closed"]
  BY DEF AgentCloses
<1>2. UNCHANGED <<meta, todo>>
  BY DEF AgentCloses
<1>3. wisp \in Seq(Wisps)
  BY DEF LoopInv, TypeInv
<1>4. ~Unused
  BY <1>1 DEF Unused
<1>5. ASSUME NEW x, New(x) PROVE New(x)'
  <2>1. DOMAIN wisp = 1..1 /\ i = 1
    BY <1>3, <1>5 DEF New
  <2>2. wisp[1] \in Wisps
    BY <1>3, <2>1
  <2>3. Len(wisp') = 1 /\ wisp'[1].iter = 1 /\ wisp'[1].st = "closed"
    BY <1>1, <1>3, <1>5, <2>1, <2>2 DEF New, Wisps
  <2> QED BY <1>2, <1>5, <2>3 DEF New
<1>6. AtSeat(todo) \/ AtCrown(todo)
  BY <1>4 DEF Birth, AtBirth, AtFirst
<1>7. CASE AtCrown(todo)
  <2>1. PICK a : a = meta.active
    OBVIOUS
  <2>2. New(a)'
    BY <1>5, <1>7, <2>1 DEF AtCrown
  <2> QED BY <1>2, <1>7, <2>1, <2>2 DEF Birth, AtCrown, New
<1>8. CASE AtSeat(todo)
  <2>1. PICK a : a = Head(todo).w
    OBVIOUS
  <2>2. New(a)'
    BY <1>5, <1>8, <2>1 DEF AtSeat
  <2> QED BY <1>2, <1>8, <2>1, <2>2 DEF Birth, AtSeat, New
<1> QED BY <1>6, <1>7, <1>8

\* The steps that leave the configuration and the events alone.
LEMMA SameTold ==
    ASSUME [Next]_vars
    PROVE  loop' = loop /\ (told' = told \/ EmitEvent)
<1>1. CASE Command \/ HandleTrigger \/ Tick
  BY <1>1 DEF Command, HandleTrigger, Tick, Create, Approve, Stop, IterateHandler, Begin
<1>2. CASE StoreStep
  BY <1>2 DEF StoreStep, SetMetadata, SetReference, EmitEvent, CreateConvergenceBead,
              CloseRootBead, CloseWisp, DeleteBead, ActivateWisp, SetWisp, PourWisp,
              EvaluateGate, Expand, PopulateIndex, HandlerError
<1>3. CASE Restart \/ AgentCloses \/ Trouble \/ UNCHANGED vars
  BY <1>3 DEF Restart, AgentCloses, Trouble, StoreFails, PourFails, ScanFails, Crash, Reload, Reap, vars
<1> QED BY <1>1, <1>2, <1>3 DEF Next

\* A creation goes on, or none is running.
LEMMA BirthNext ==
    ASSUME LoopInv, Made, [Next]_vars, ~StoreFails, ~PourFails, ~ScanFails, ~Reap,
           ~loop.trigger, Begets(todo')
    PROVE  Birth(todo)'
<1>1. ASSUME todo # << >>, todo' = Tail(todo) PROVE Birth(todo) /\ ~AtCrown(todo)
  <2>1. Begets(todo)
    BY <1>1, TailBegets
  <2>2. Birth(todo)
    BY <2>1 DEF Made, Begets
  <2> QED BY <1>1, <2>2 DEF AtCrown, ToCrown, Begets
<1>2. CASE Command \/ HandleTrigger \/ Tick
  BY <1>2, BeginBirth
<1>3. CASE SetMetadata
  BY <1>1, <1>3, SetBirth DEF SetMetadata, At, Go
<1>4. CASE SetReference
  BY <1>1, <1>4, RefBirth DEF SetReference, At, Go
<1>5. CASE CreateConvergenceBead
  BY <1>1, <1>5, BeadBirth DEF CreateConvergenceBead, At, Go
<1>6. CASE EmitEvent \/ CloseRootBead \/ CloseWisp \/ DeleteBead \/ ActivateWisp \/ PopulateIndex
  <2>1. /\ todo # << >> /\ todo' = Tail(todo)
        /\ s0.op \in {"emit", "close_root", "close_wisp", "delete", "activate", "index"}
    BY <1>6 DEF EmitEvent, CloseRootBead, CloseWisp, DeleteBead, ActivateWisp, SetWisp, PopulateIndex, At, Go
  <2> QED BY <1>1, <2>1, NoBirth
<1>7. CASE PourWisp
  BY <1>7, PourBirth
<1>8. CASE EvaluateGate \/ Expand
  BY <1>8, ExpandBegets
<1>9. CASE HandlerError
  BY <1>9, ErrorBegets
<1>10. CASE Restart \/ Crash
  <2>1. Len(wisp) \in Nat
    BY DEF LoopInv, TypeInv
  <2>2. ~Begets(StartupReconcile) /\ ~Begets(<< >>)
    BY <2>1, StartupFits, NotBegetting DEF Fits, Begets
  <2> QED BY <1>10, <2>2 DEF Restart, Crash
<1>11. CASE AgentCloses
  <2>1. Birth(todo)
    BY <1>11 DEF AgentCloses, Made, Begets
  <2> QED BY <1>11, <2>1, AgentBirth
<1>12. CASE Reload \/ UNCHANGED vars
  <2>1. UNCHANGED <<meta, wisp, todo>>
    BY <1>12 DEF Reload, vars
  <2>2. Birth(todo)
    BY <2>1 DEF Made, Begets
  <2> QED BY <2>1, <2>2 DEF Birth, AtBirth, AtFirst, AtSeat, AtCrown, Unused, New
<1> QED BY <1>2, <1>3, <1>4, <1>5, <1>6, <1>7, <1>8, <1>9, <1>10, <1>11, <1>12 DEF Next, StoreStep, Trouble

\* Before the root there is nothing.
LEMMA UnusedNext ==
    ASSUME LoopInv, Unborn, Made, [Next]_vars, ~StoreFails, ~PourFails, ~ScanFails, ~Reap, root' = "none"
    PROVE  Unused'
<1>1. root = "none" => todo = << >> \/ s0.op \in {"create", "reconcile", "index"}
  BY WorksOnARoot
<1>2. CASE UNCHANGED <<root, meta, wisp>>
  BY <1>2 DEF Made, Unused
<1>3. CASE Command \/ HandleTrigger \/ Tick
  BY <1>2, <1>3 DEF Command, HandleTrigger, Tick, Create, Approve, Stop, IterateHandler, Begin
<1>4. CASE StoreStep
  <2>1. root = "none" /\ todo # << >>
    BY <1>4 DEF StoreStep, SetMetadata, SetReference, EmitEvent, CreateConvergenceBead,
                CloseRootBead, CloseWisp, DeleteBead, ActivateWisp, SetWisp, PourWisp,
                EvaluateGate, Expand, PopulateIndex, HandlerError, At
  <2> QED BY <1>1, <1>2, <1>4, <2>1
          DEF StoreStep, SetMetadata, SetReference, EmitEvent, CreateConvergenceBead,
              CloseRootBead, CloseWisp, DeleteBead, ActivateWisp, PourWisp,
              EvaluateGate, Expand, PopulateIndex, HandlerError, At
<1>5. CASE AgentCloses
  <2>1. root = "none" /\ DOMAIN wisp # {}
    BY <1>5 DEF AgentCloses
  <2>2. wisp = << >>
    BY <2>1 DEF Made, Unused
  <2> QED BY <2>1, <2>2
<1>6. CASE Restart \/ Crash \/ Reload \/ UNCHANGED vars
  BY <1>2, <1>6 DEF Restart, Crash, Reload, vars
<1> QED BY <1>3, <1>4, <1>5, <1>6 DEF Next, Trouble

-----------------------------------------------------------------------------
(* The pace is kept.                                                       *)

\* The announcement is the start of a straight loop.
LEMMA Crowned ==
    ASSUME LoopInv, Made, [Next]_vars, ~Straight, Straight'
    PROVE  Paced' /\ Place(todo)'
<1>1. loop' = loop /\ (told' = told \/ EmitEvent)
  BY SameTold
<1>2. ~Announced /\ Announced' /\ ~loop.trigger
  BY <1>1 DEF Straight
<1>3. EmitEvent
  BY <1>1, <1>2 DEF Announced
<1>4. /\ todo # << >> /\ todo' = Tail(todo) /\ UNCHANGED <<meta, wisp>> /\ s0.op = "emit" /\ s0 = Head(todo)
      /\ told' = told \cup {[kind |-> s0.key, n |-> s0.w, what |-> s0.v]}
  BY <1>3 DEF EmitEvent, At, Go, s0
<1>5. s0.key = "created"
  BY <1>2, <1>4 DEF Announced
<1>6. Birth(todo)
  BY <1>2, <1>4, <1>5 DEF Made, Creates, Announces
<1>7. AtCrown(todo)
  BY <1>4, <1>6, NoBirth
<1>8. /\ todo' = << >> /\ meta.active = 1 /\ Len(wisp) = 1 /\ wisp[1].iter = 1
      /\ wisp[1].st \in {"live", "closed"} /\ OnGoing /\ meta.lpw = None
  BY <1>4, <1>7 DEF AtCrown, ToCrown, New, OnGoing
<1>9. wisp \in Seq(Wisps) /\ loop.max \in Nat \ {0}
  BY LoopsAssumption DEF LoopInv, TypeInv
<1>10. DOMAIN wisp = {1}
  BY <1>8, <1>9
<1>11. (\A i : Has(i) <=> i = 1) /\ Last = 1
  BY <1>8, <1>10 DEF Has, Last
<1>12. IterOf(meta.lpw) = 0
  BY <1>8 DEF IterOf, Exists
<1>13. Paced
  <2>1. \A i : ~Later(i)
    BY <1>8, <1>11 DEF Later
  <2>2. \A j : ~(Has(j) /\ wisp[j].iter < Last)
    BY <1>8, <1>11
  <2> QED BY <1>8, <1>9, <1>11, <1>12, <2>1, <2>2 DEF Paced, OnGoing
<1>14. Solo
  BY <1>8, <1>11 DEF Solo
<1>15. Paced'
  <2>1. Rested /\ (GoesOn <=> GoesOn')
    BY <1>1, <1>4 DEF Rested, GoesOn
  <2> QED BY <1>4, <1>13, <2>1, PacedRests
<1>16. AtRest(todo)'
  <2>1. OnGoing' /\ Solo'
    BY <1>4, <1>8, <1>14 DEF OnGoing, Solo, Has, Last
  <2>2. Behind(todo)'
    BY <1>8 DEF Behind
  <2> QED BY <2>1, <2>2 DEF AtRest
<1> QED BY <1>15, <1>16 DEF Place, Waits

\* At the start there is no loop.
LEMMA PaceInit ==
    ASSUME Init
    PROVE  PaceInv
<1>1. Unused /\ todo = << >> /\ told = {}
  <2>1. ~Given(meta.treason)
    BY Zenon DEF Init, Given
  <2> QED BY <2>1 DEF Init, Unused
<1> QED BY <1>1 DEF PaceInv, Made, Straight, Announced

\* Every step keeps the pace.
LEMMA PaceNext ==
    ASSUME LoopInv, LoopInv', Counts, WispInv, PaceInv, [Next]_vars
    PROVE  PaceInv'
<1> SUFFICES ASSUME CrashOnly'
             PROVE  Made' /\ (Straight' => Paced' /\ (up' => Place(todo)'))
  BY DEF PaceInv
<1>1. CrashOnly /\ ~StoreFails /\ ~PourFails /\ ~ScanFails /\ ~Reap
  BY OnlyCrashes
<1>2. Held /\ Made
  BY <1>1 DEF WispInv, PaceInv, CrashOnly
<1>3. loop' = loop
  BY SameTold
<1>4. Made'
  <2>1. root' = "none" => Unused'
    BY <1>1, <1>2, UnusedNext DEF Held
  <2>2. ~loop.trigger /\ Begets(todo') => Birth(todo)'
    BY <1>1, <1>2, BirthNext
  <2> QED BY <1>3, <2>1, <2>2 DEF Made, Begets
<1>5. ASSUME Straight' PROVE Paced' /\ (up' => Place(todo)')
  <2>1. CASE Straight
    BY <1>1, <1>2, <2>1, StraightNext DEF PaceInv, Held
  <2>2. CASE ~Straight
    BY <1>2, <1>5, <2>2, Crowned
  <2> QED BY <2>1, <2>2
<1> QED BY <1>4, <1>5

\* However often the controller dies, a straight loop that meets no failing
\* store and no reaper is at one of the places of the outline whenever its
\* controller runs, and in pace whether it runs or not.
THEOREM LoopKeepsPace == Spec => []PaceInv
<1>1. Init => Counts /\ PaceInv
  BY HeldInit, PaceInit
<1>2. LoopInv /\ LoopInv' /\ Counts /\ WispInv /\ PaceInv /\ [Next]_vars => Counts' /\ PaceInv'
  BY CountsNext, PaceNext
<1> QED BY <1>1, <1>2, LoopIsOrderly, WispsAreKept, PTL DEF Spec

\* A straight loop works on an iteration only when the gate has judged the one
\* before it, for every configuration and any number of crashes.
THEOREM NothingIsSkipped == Spec => []NoIterationSkipped
<1>1. TypeInv /\ PaceInv => NoIterationSkipped
  <2> SUFFICES ASSUME TypeInv, Paced,
                      NEW i \in DOMAIN wisp, NEW j \in DOMAIN wisp,
                      wisp[i].st \in {"live", "closed"}, Exists(j), wisp[j].iter < wisp[i].iter
               PROVE  \/ IterOf(meta.gated) = wisp[j].iter
                      \/ \E e \in told : e.kind = "iteration" /\ e.n = wisp[j].iter
    BY DEF PaceInv, NoIterationSkipped
  <2>1. Has(i) /\ Has(j) /\ Has(meta.active)
    BY DEF Has, Exists, Paced
  <2>2. wisp[i].iter \in Nat /\ wisp[j].iter \in Nat /\ Last \in Nat /\ IterOf(meta.active) = Last
    BY <2>1, WispsAre DEF Last
  <2>3. CASE wisp[j].iter < Last
    BY <2>1, <2>3 DEF Paced, Reported
  <2>4. CASE wisp[j].iter >= Last
    <3>1. Later(i)
      BY <2>1, <2>2, <2>4 DEF Later
    <3>2. wisp[i].iter = Last + 1 /\ meta.gated = meta.active
      BY <3>1 DEF Paced, GoesOn
    <3>3. wisp[j].iter = Last
      BY <2>2, <2>4, <3>2
    <3> QED BY <2>2, <3>2, <3>3
  <2> QED BY <2>2, <2>3, <2>4
<1>2. LoopInv => TypeInv
  BY DEF LoopInv
<1> QED BY <1>1, <1>2, LoopKeepsPace, LoopIsOrderly, PTL

\* A straight loop that has ended leaves no wisp open, and only a stop may leave
\* an iteration unreported.
THEOREM NothingIsLeft == Spec => []NoWorkLeftBehind
<1>1. LoopInv /\ PaceInv => NoWorkLeftBehind
  <2> SUFFICES ASSUME LoopInv, Straight, Paced, root = "closed", NEW i \in DOMAIN wisp
               PROVE  /\ ~Open(i)
                      /\ Closed(i) /\ meta.treason # "stopped" =>
                             \E e \in told : e.kind = "iteration" /\ e.n = wisp[i].iter
    BY DEF PaceInv, NoWorkLeftBehind
  <2>1. Given(meta.treason)
    BY DEF LoopInv, ClosedIsOver, EndHasReason, Straight
  <2>2. Has(i) => Shut(i) /\ (meta.treason = "stopped" \/ Reported(wisp[i].iter))
    BY <2>1 DEF Paced
  <2> QED BY <2>2 DEF Open, Closed, Exists, Has, Shut, Reported
<1> QED BY <1>1, LoopKeepsPace, LoopIsOrderly, PTL

-----------------------------------------------------------------------------
(* The budget of a straight loop.                                          *)

\* The steps that pour nothing.
LEMMA SameIterations ==
    ASSUME LoopInv, [Next]_vars, ~PourFails
    PROVE  \/ PourWisp
           \/ DOMAIN wisp' = DOMAIN wisp /\ \A j \in DOMAIN wisp : wisp'[j].iter = wisp[j].iter
<1>1. wisp \in Seq(Wisps)
  BY DEF LoopInv, TypeInv
<1>2. CASE wisp' = wisp
  BY <1>2
<1>3. ASSUME NEW i, NEW st, wisp' = [wisp EXCEPT ![i].st = st]
      PROVE  DOMAIN wisp' = DOMAIN wisp /\ \A j \in DOMAIN wisp : wisp'[j].iter = wisp[j].iter
  <2>1. DOMAIN wisp' = DOMAIN wisp
    BY <1>1, <1>3
  <2>2. ASSUME NEW j \in DOMAIN wisp PROVE wisp'[j].iter = wisp[j].iter
    <3>1. wisp[j] \in Wisps
      BY <1>1
    <3> QED BY <1>1, <1>3, <3>1 DEF Wisps
  <2> QED BY <2>1, <2>2
<1>4. CASE Command \/ HandleTrigger \/ Tick
  BY <1>2, <1>4 DEF Command, HandleTrigger, Tick, Create, Approve, Stop, IterateHandler, Begin
<1>5. CASE StoreStep
  BY <1>2, <1>3, <1>5 DEF StoreStep, SetMetadata, SetReference, EmitEvent, CreateConvergenceBead,
              CloseRootBead, CloseWisp, DeleteBead, ActivateWisp, SetWisp,
              EvaluateGate, Expand, PopulateIndex, HandlerError
<1>6. CASE Restart \/ AgentCloses \/ Trouble \/ UNCHANGED vars
  BY <1>2, <1>3, <1>6 DEF Restart, AgentCloses, Trouble, StoreFails, ScanFails, Crash, Reload, Reap, vars
<1> QED BY <1>4, <1>5, <1>6 DEF Next

\* Every step stays within the budget.
LEMMA BudgetNext ==
    ASSUME LoopInv, LoopInv', Counts, PaceInv, PaceInv', StraightBudget, [Next]_vars
    PROVE  StraightBudget'
<1> SUFFICES ASSUME CrashOnly', Straight'
             PROVE  \A i \in DOMAIN wisp' : wisp'[i].iter <= loop'.max
  BY DEF StraightBudget
<1>1. CrashOnly /\ ~PourFails
  BY OnlyCrashes
<1>2. loop' = loop /\ (told' = told \/ EmitEvent)
  BY SameTold
<1>3. CASE ~Straight
  <2>1. EmitEvent
    BY <1>2, <1>3 DEF Straight, Announced
  <2>2. wisp' = wisp /\ Paced'
    BY <1>1, <2>1 DEF EmitEvent, PaceInv
  <2>3. Made /\ ~Announced /\ Announced'
    BY <1>1, <1>2, <1>3 DEF PaceInv, Straight
  <2>4. s0.key = "created" /\ s0.op = "emit" /\ todo # << >>
    BY <2>1, <2>3 DEF EmitEvent, Announced, At
  <2>5. AtCrown(todo)
    <3>1. Birth(todo)
      BY <1>2, <2>3, <2>4 DEF Made, Creates, Announces, s0, Straight
    <3> QED BY <2>4, <3>1, NoBirth
  <2>6. Len(wisp) = 1 /\ wisp[1].iter = 1
    BY <2>5 DEF AtCrown, New
  <2>7. wisp \in Seq(Wisps) /\ loop.max \in Nat \ {0}
    BY LoopsAssumption DEF LoopInv, TypeInv
  <2>8. DOMAIN wisp = {1}
    BY <2>6, <2>7
  <2> QED BY <1>2, <2>2, <2>6, <2>7, <2>8
<1>4. CASE Straight /\ ~PourWisp
  <2>1. \A i \in DOMAIN wisp : wisp[i].iter <= loop.max
    BY <1>1, <1>4 DEF StraightBudget
  <2> QED BY <1>1, <1>2, <1>4, <2>1, SameIterations
<1>5. CASE Straight /\ PourWisp
  <2>1. todo # << >> /\ s0.op = "pour" /\ up /\ wisp' = Poured(s0.w, s0.key) /\ s0 = Head(todo)
    BY <1>5 DEF PourWisp, At, s0
  <2>2. Paced /\ Place(todo)
    BY <1>1, <1>5, <2>1 DEF PaceInv
  <2>3. AtPour(todo)
    BY <2>1, <2>2, WhichPlace DEF LoopInv
  <2>4. s0.w = Last + 1 /\ Last < loop.max /\ Last \in Nat /\ loop.max \in Nat
    <3>1. Has(meta.active)
      BY <2>2 DEF Paced
    <3>2. Last \in Nat /\ loop.max \in Nat
      BY <3>1, WispsAre, LoopsAssumption DEF LoopInv, TypeInv, Last
    <3> QED BY <2>1, <2>3, <3>2 DEF AtPour
  <2>5. \A i \in DOMAIN wisp : wisp[i].iter <= loop.max
    BY <1>1, <1>5 DEF StraightBudget
  <2>6. wisp \in Seq(Wisps) /\ Len(wisp) \in Nat /\ DOMAIN wisp = 1..Len(wisp)
    BY DEF LoopInv, TypeInv
  <2>7. wisp' \in Seq(Wisps)
    BY DEF LoopInv, TypeInv
  <2>8. CASE Found(s0.w) # None
    BY <1>2, <2>1, <2>5, <2>8 DEF Poured
  <2>9. CASE Found(s0.w) = None
    <3>1. PICK n : n = s0.w
      OBVIOUS
    <3>2. /\ Len(wisp') = Len(wisp) + 1 /\ wisp'[Len(wisp) + 1].iter = n
          /\ \A j \in 1..Len(wisp) : wisp'[j] = wisp[j]
      BY <2>1, <2>4, <2>9, <3>1, PouredIs
    <3>3. \A i \in DOMAIN wisp' : i \in 1..Len(wisp) \/ i = Len(wisp) + 1
      BY <2>6, <2>7, <3>2
    <3>4. n <= loop.max
      BY <2>4, <3>1
    <3> QED BY <1>2, <2>5, <2>6, <3>2, <3>3, <3>4
  <2> QED BY <2>8, <2>9
<1> QED BY <1>3, <1>4, <1>5

\* The exact half of the budget: however often its controller dies, a straight
\* loop never pours a wisp past max_iterations.
THEOREM StraightStaysInBudget == Spec => []StraightBudget
<1>1. Init => Counts /\ StraightBudget
  <2>1. Init => told = {}
    BY DEF Init
  <2> QED BY <2>1, HeldInit DEF StraightBudget, Straight, Announced
<1>2. /\ LoopInv /\ LoopInv' /\ Counts /\ PaceInv /\ PaceInv' /\ StraightBudget /\ [Next]_vars
      => Counts' /\ StraightBudget'
  BY CountsNext, BudgetNext
<1> QED BY <1>1, <1>2, LoopIsOrderly, LoopKeepsPace, PTL DEF Spec
=============================================================================
