------------------------ MODULE ConvergenceLoopProofs ------------------------
(***************************************************************************)
(* Facts about every convergence loop, whatever its configuration and      *)
(* however often the controller dies, a store call fails or a wisp is      *)
(* reaped: over a store that lists closed wisps a key has one wisp, and    *)
(* over any store a loop that was announced and is closed has announced    *)
(* its end, with the reason it stored, and as long as nobody outside the   *)
(* controller removes a wisp there is one agent at work at most.           *)
(***************************************************************************)
EXTENDS ConvergenceLoop, FiniteSetTheorems, SequenceTheorems, WellFoundedInduction, TLAPS

-----------------------------------------------------------------------------
(* Types.  n is the number of wisps poured: a reference is to one of them. *)

States   == Running \cup {"", "creating", "terminated"}
SetKeys  == {"state", "formula", "treason", "wreason", "outcome"}
RefKeys  == {"active", "lpw", "pending", "gated"}
PourKeys == {"speculative", "create", "manual", "trigger", "first", "recover"}
Branches == {"handle", "settle", "reconcile", "stop", "stop_reread", "stop_force", "stop_commit"}
Calls    == Branches \cup {"gate", "pour", "error"}
Ops      == Calls \cup {"set", "ref", "emit", "create", "close_root", "close_wisp",
                        "delete", "activate", "index"}
Keys     == SetKeys \cup RefKeys \cup PourKeys \cup {"", "created", "iteration", "terminated"}
Reasons  == {"", "approved", "no_convergence", "stopped", "partial_creation"}
Values   == States \cup Reasons
              \cup {"set", "manual", "timeout", "sling_failure", "iterate", "pass", "fail",
                    "forced", "pour_failed"}
Fails    == {"abort", "skip", "burn", "rollback"}

Steps(n) ==
    {s \in [op : Ops, key : Keys, w : Nat, x : 0..n, v : Values, fail : Fails] :
        /\ s.op = "set" => s.key \in SetKeys
        /\ s.op = "set" /\ s.key = "state" => s.v \in States
        /\ s.op = "set" /\ s.key = "treason" => s.v \in Reasons
        /\ s.op = "ref" => s.key \in RefKeys
        /\ s.op = "pour" => s.key \in PourKeys
        /\ s.op \notin {"pour", "emit"} => s.w \in 0..n}

Wisps == [iter : Nat, st : {"spec", "live", "closed", "gone"}]

Metas(n) == [state : States, formula : Values, treason : Reasons, wreason : Values,
             outcome : Values, active : 0..n, lpw : 0..n, pending : 0..n, gated : 0..n]

\* The last part says that the iterations have a highest.
TypeInv ==
    /\ loop \in Loops
    /\ root \in {"none", "open", "closed"}
    /\ wisp \in Seq(Wisps)
    /\ meta \in Metas(Len(wisp))
    /\ todo \in Seq(Steps(Len(wisp)))
    /\ \E b \in Nat : \A i \in 1..Len(wisp) : wisp[i].iter <= b

-----------------------------------------------------------------------------
(* What the rest of a handler may be, in a loop of which c is known.       *)

Now == [announced |-> Announced, root |-> root, state |-> meta.state,
        treason |-> meta.treason, told |-> told]

SetsState(s)  == s.op = "set" /\ s.key = "state"
Ends(s)       == SetsState(s) /\ s.v = "terminated"
SetsReason(s) == s.op = "set" /\ s.key = "treason"
Announces(s)  == s.op = "emit" /\ s.key = "created"

\* The steps of a creation.
Creates(s) ==
    \/ s.op = "create"
    \/ s.op \in {"set", "ref", "pour"} /\ s.fail = "rollback"
    \/ Announces(s)

\* Nothing but the end of a stop or of a scan follows a step that branches.
CallsAreLast(q) ==
    \A j, k \in 1..Len(q) : j < k /\ q[j].op \in Calls => q[k].op \in {"stop_reread", "index"}

\* Nothing of weight follows the close of the root.
CloseIsLast(q) ==
    \A j, k \in 1..Len(q) :
        j < k /\ q[j].op = "close_root" => q[k].op \in {"ref", "delete", "stop_reread", "index"}

\* How steps fail: a creation is rolled back, and the writes that end a loop
\* that was announced are not skipped.
FailuresAreMarked(q, c) ==
    \A k \in 1..Len(q) :
        /\ q[k].fail = "rollback" => Creates(q[k])
        /\ q[k].op = "pour" /\ q[k].key = "create" => q[k].fail = "rollback"
        /\ q[k].op = "create" => q[k].fail = "abort"
        /\ SetsState(q[k]) /\ q[k].v = "creating" => q[k].fail = "rollback"
        /\ q[k].op = "set" /\ q[k].fail = "skip" => ~c.announced

\* A creation is all of its handler.
CreationIsWhole(q, c) ==
    \A k \in 1..Len(q) : Creates(q[k]) =>
        /\ ~c.announced
        /\ c.root # "closed"
        /\ \A j \in 1..Len(q) : Creates(q[j])

\* A creation ends in the announcement, or the pour before it, of an open loop in
\* a running state.
RunsWhenAnnounced(q, c) ==
    \A k \in 1..Len(q) :
        Announces(q[k]) \/ (q[k].op = "pour" /\ q[k].key = "create") =>
            /\ k = Len(q)
            /\ c.root = "open" \/ \E j \in 1..k - 1 : q[j].op = "create"
            /\ \/ c.state \in Running /\ \A j \in 1..k - 1 : ~SetsState(q[j])
               \/ \E j \in 1..k - 1 : /\ SetsState(q[j]) /\ q[j].v \in Running
                                      /\ \A i \in j + 1..k - 1 : ~SetsState(q[i])

Told(v) == [kind |-> "terminated", n |-> 0, what |-> v]

\* By the time step k closes the root, the reason v is stored and announced.
ClosesWith(q, c, k, v) ==
    /\ Told(v) \in c.told \/ \E j \in 1..k - 1 :
           q[j].op = "emit" /\ q[j].key = "terminated" /\ q[j].w = 0 /\ q[j].v = v
    /\ c.treason = v \/ \E j \in 1..k - 1 : SetsReason(q[j])
    /\ \A j \in 1..Len(q) : SetsReason(q[j]) => q[j].v = v
    /\ c.state = "terminated" \/ \E j \in 1..k - 1 : Ends(q[j])
    /\ \A j \in 1..Len(q) : SetsState(q[j]) => Ends(q[j])

CloseIsAnnounced(q, c) ==
    c.announced => \A k \in 1..Len(q) : q[k].op = "close_root" => \E v \in Reasons : ClosesWith(q, c, k, v)

Given(v) == v # ""

\* A loop is set terminated once its reason is stored.
ReasonComesFirst(q, c) ==
    /\ \A k \in 1..Len(q) : SetsReason(q[k]) => Given(q[k].v)
    /\ c.announced => \A k \in 1..Len(q) : Ends(q[k]) =>
                          Given(c.treason) \/ \E j \in 1..k - 1 : SetsReason(q[j])

\* A wisp is handled, and a stop begins, in a loop that has not ended.
HandlesTheLiving(q, c) ==
    \A k \in 1..Len(q) : q[k].op \in {"handle", "stop"} =>
        c.state # "terminated" /\ \A j \in 1..k - 1 : ~Ends(q[j])

Orderly(q, c) ==
    /\ CallsAreLast(q)
    /\ CloseIsLast(q)
    /\ FailuresAreMarked(q, c)
    /\ CreationIsWhole(q, c)
    /\ RunsWhenAnnounced(q, c)
    /\ CloseIsAnnounced(q, c)
    /\ ReasonComesFirst(q, c)
    /\ HandlesTheLiving(q, c)

\* A loop that was announced has a reason when it is terminated.
EndHasReason ==
    Announced => /\ root # "none"
                 /\ meta.state # "creating"
                 /\ meta.state = "terminated" => Given(meta.treason)

\* A closed loop that was announced stays as it is.
Over(q) == \A k \in 1..Len(q) : q[k].op \in {"ref", "delete", "stop_reread", "index", "reconcile"}

ClosedIsOver ==
    root = "closed" /\ Announced =>
        /\ meta.state = "terminated"
        /\ Told(meta.treason) \in told
        /\ Over(todo)

LoopInv ==
    /\ TypeInv
    /\ Orderly(todo, Now)
    /\ EndHasReason
    /\ ClosedIsOver
-----------------------------------------------------------------------------
(* The rest of a handler once its first step is done.                      *)

\* The steps after the first.
LEMMA TailIs ==
    ASSUME NEW S, NEW q \in Seq(S), q # << >>
    PROVE  /\ Tail(q) \in Seq(S)
           /\ Len(q) \in Nat \ {0} /\ Len(Tail(q)) = Len(q) - 1
           /\ Head(q) = q[1]
           /\ \A k \in 1..Len(q) : q[k] \in S
           /\ \A k \in 1..Len(Tail(q)) : k + 1 \in 1..Len(q) /\ Tail(q)[k] = q[k + 1]
           /\ \A k \in 2..Len(q) : k - 1 \in 1..Len(Tail(q)) /\ Tail(q)[k - 1] = q[k]
<1>1. Len(q) \in Nat \ {0} /\ Head(q) = q[1] /\ \A k \in 1..Len(q) : q[k] \in S
  OBVIOUS
<1>2. Tail(q) \in Seq(S) /\ Len(Tail(q)) = Len(q) - 1
  OBVIOUS
<1>3. \A k \in 1..Len(q) - 1 : Tail(q)[k] = q[k + 1]
  OBVIOUS
<1> QED BY <1>1, <1>2, <1>3

\* What only looks at pairs of steps is kept when the first is gone.
LEMMA TailKeepsPairs ==
    ASSUME NEW S, NEW q \in Seq(S), q # << >>
    PROVE  /\ CallsAreLast(q) => CallsAreLast(Tail(q))
           /\ CloseIsLast(q) => CloseIsLast(Tail(q))
<1>1. /\ \A k \in 1..Len(Tail(q)) : k + 1 \in 1..Len(q) /\ Tail(q)[k] = q[k + 1]
      /\ Len(Tail(q)) \in Nat
  BY TailIs
<1>2. \A j, k \in 1..Len(Tail(q)) : j < k => j + 1 < k + 1
  BY <1>1
<1> QED BY <1>1, <1>2 DEF CallsAreLast, CloseIsLast

\* A creation that goes on is still all of its handler.
LEMMA TailKeepsCreation ==
    ASSUME NEW S, NEW q \in Seq(S), q # << >>, NEW c, NEW d,
           FailuresAreMarked(q, c), CreationIsWhole(q, c),
           d.announced = c.announced, d.root = c.root \/ d.root = "open" \/ ~Creates(q[1])
    PROVE  FailuresAreMarked(Tail(q), d) /\ CreationIsWhole(Tail(q), d)
<1> DEFINE t == Tail(q)
<1>1. \A k \in 1..Len(t) : k + 1 \in 1..Len(q) /\ t[k] = q[k + 1]
  BY TailIs
<1>2. 1 \in 1..Len(q)
  BY TailIs
<1> HIDE DEF t
<1>3. FailuresAreMarked(t, d)
  BY <1>1 DEF FailuresAreMarked
<1>4. ASSUME NEW k \in 1..Len(t), Creates(t[k])
      PROVE  ~d.announced /\ d.root # "closed" /\ \A j \in 1..Len(t) : Creates(t[j])
  <2>1. ~c.announced /\ c.root # "closed" /\ \A j \in 1..Len(q) : Creates(q[j])
    BY <1>1, <1>4 DEF CreationIsWhole
  <2> QED BY <1>1, <1>2, <2>1
<1>5. CreationIsWhole(t, d)
  BY <1>4 DEF CreationIsWhole
<1> QED BY <1>3, <1>5 DEF t

\* What a step does, done already.
DoneIn(s, c) ==
    /\ SetsState(s) => c.state = s.v
    /\ SetsReason(s) => c.treason = s.v
    /\ s.op = "create" => c.root = "open"
    /\ s.op = "emit" /\ s.key = "terminated" /\ s.w = 0 => Told(s.v) \in c.told
    /\ ~Announces(s)

\* A step whose effect is there leaves an orderly rest.
LEMMA Done ==
    ASSUME NEW S, NEW q \in Seq(S), q # << >>, NEW c, Orderly(q, c), DoneIn(q[1], c)
    PROVE  Orderly(Tail(q), c)
<1> DEFINE t == Tail(q)
<1>1. /\ Len(q) \in Nat \ {0} /\ Len(t) = Len(q) - 1
      /\ \A k \in 1..Len(t) : k + 1 \in 1..Len(q) /\ t[k] = q[k + 1]
      /\ \A k \in 2..Len(q) : k - 1 \in 1..Len(t) /\ t[k - 1] = q[k]
  BY TailIs
<1>2. /\ SetsState(q[1]) => c.state = q[1].v
      /\ SetsReason(q[1]) => c.treason = q[1].v
      /\ q[1].op = "create" => c.root = "open"
      /\ q[1].op = "emit" /\ q[1].key = "terminated" /\ q[1].w = 0 => Told(q[1].v) \in c.told
      /\ ~Announces(q[1])
      /\ Ends(q[1]) => SetsState(q[1]) /\ q[1].v = "terminated"
  BY DEF DoneIn, Ends
<1>3. CallsAreLast(t) /\ CloseIsLast(t)
  BY TailKeepsPairs DEF Orderly
<1>4. FailuresAreMarked(t, c) /\ CreationIsWhole(t, c)
  BY TailKeepsCreation DEF Orderly
<1> HIDE DEF t
<1>5. RunsWhenAnnounced(t, c)
  <2> SUFFICES ASSUME NEW k \in 1..Len(t),
                      Announces(t[k]) \/ (t[k].op = "pour" /\ t[k].key = "create")
               PROVE  /\ k = Len(t)
                      /\ c.root = "open" \/ \E j \in 1..k - 1 : t[j].op = "create"
                      /\ \/ c.state \in Running /\ \A j \in 1..k - 1 : ~SetsState(t[j])
                         \/ \E j \in 1..k - 1 : /\ SetsState(t[j]) /\ t[j].v \in Running
                                                /\ \A i \in j + 1..k - 1 : ~SetsState(t[i])
    BY DEF RunsWhenAnnounced
  <2>1. k + 1 \in 1..Len(q) /\ t[k] = q[k + 1]
    BY <1>1
  <2>2. /\ k + 1 = Len(q)
        /\ c.root = "open" \/ \E j \in 1..k : q[j].op = "create"
        /\ \/ c.state \in Running /\ \A j \in 1..k : ~SetsState(q[j])
           \/ \E j \in 1..k : /\ SetsState(q[j]) /\ q[j].v \in Running
                              /\ \A i \in j + 1..k : ~SetsState(q[i])
    BY <2>1 DEF Orderly, RunsWhenAnnounced
  <2>3. \A j \in 1..k : j # 1 => j - 1 \in 1..k - 1 /\ t[j - 1] = q[j]
    BY <1>1
  <2>4. k = Len(t) /\ k \in Nat /\ \A j \in 1..k - 1 : t[j] = q[j + 1] /\ j + 1 \in 1..k
    <3>1. k = Len(t) /\ k \in Nat
      BY <1>1, <2>2
    <3>2. \A j \in 1..k - 1 : j \in 1..Len(t) /\ j + 1 \in 1..k
      BY <3>1
    <3> QED BY <1>1, <3>1, <3>2
  <2>5. c.root = "open" \/ \E j \in 1..k - 1 : t[j].op = "create"
    BY <1>2, <2>2, <2>3
  <2>6. CASE c.state \in Running /\ \A j \in 1..k : ~SetsState(q[j])
    BY <2>4, <2>5, <2>6
  <2>7. CASE \E j \in 1..k : /\ SetsState(q[j]) /\ q[j].v \in Running
                             /\ \A i \in j + 1..k : ~SetsState(q[i])
    <3>1. PICK j \in 1..k : /\ SetsState(q[j]) /\ q[j].v \in Running
                            /\ \A i \in j + 1..k : ~SetsState(q[i])
      BY <2>7
    <3>2. CASE j = 1
      <4>1. c.state \in Running
        BY <1>2, <3>1, <3>2
      <4>2. \A i \in 1..k - 1 : ~SetsState(t[i])
        BY <2>4, <3>1, <3>2
      <4> QED BY <2>4, <2>5, <4>1, <4>2
    <3>3. CASE j # 1
      <4>1. j - 1 \in 1..k - 1 /\ t[j - 1] = q[j]
        BY <2>3, <3>3
      <4>2. \A i \in (j - 1) + 1..k - 1 : ~SetsState(t[i])
        BY <2>4, <3>1, <4>1
      <4> QED BY <2>4, <2>5, <3>1, <4>1, <4>2
    <3> QED BY <3>2, <3>3
  <2> QED BY <2>2, <2>6, <2>7
<1>6. CloseIsAnnounced(t, c)
  <2> SUFFICES ASSUME c.announced, NEW k \in 1..Len(t), t[k].op = "close_root"
               PROVE  \E v \in Reasons : ClosesWith(t, c, k, v)
    BY DEF CloseIsAnnounced
  <2>1. PICK v \in Reasons : ClosesWith(q, c, k + 1, v)
    BY <1>1 DEF Orderly, CloseIsAnnounced
  <2>2. \A j \in 1..(k + 1) - 1 : j # 1 => j - 1 \in 1..k - 1 /\ t[j - 1] = q[j]
    BY <1>1
  <2>3. Told(v) \in c.told \/ \E j \in 1..k - 1 :
            t[j].op = "emit" /\ t[j].key = "terminated" /\ t[j].w = 0 /\ t[j].v = v
    <3>1. Told(v) \in c.told \/ \E j \in 1..(k + 1) - 1 :
              q[j].op = "emit" /\ q[j].key = "terminated" /\ q[j].w = 0 /\ q[j].v = v
      BY <2>1 DEF ClosesWith
    <3> QED BY <1>2, <2>2, <3>1
  <2>4. c.treason = v \/ \E j \in 1..k - 1 : SetsReason(t[j])
    <3>1. c.treason = v \/ \E j \in 1..(k + 1) - 1 : SetsReason(q[j])
      BY <2>1 DEF ClosesWith
    <3>2. 1 \in 1..Len(q) /\ SetsReason(q[1]) => q[1].v = v
      BY <2>1 DEF ClosesWith
    <3>3. 1 \in 1..Len(q)
      BY <1>1
    <3> QED BY <1>2, <2>2, <3>1, <3>2, <3>3
  <2>5. c.state = "terminated" \/ \E j \in 1..k - 1 : Ends(t[j])
    <3>1. c.state = "terminated" \/ \E j \in 1..(k + 1) - 1 : Ends(q[j])
      BY <2>1 DEF ClosesWith
    <3> QED BY <1>2, <2>2, <3>1
  <2>6. /\ \A j \in 1..Len(t) : SetsReason(t[j]) => t[j].v = v
        /\ \A j \in 1..Len(t) : SetsState(t[j]) => Ends(t[j])
    <3>1. /\ \A j \in 1..Len(q) : SetsReason(q[j]) => q[j].v = v
          /\ \A j \in 1..Len(q) : SetsState(q[j]) => Ends(q[j])
      BY <2>1 DEF ClosesWith
    <3>2. ASSUME NEW j \in 1..Len(t)
          PROVE  (SetsReason(t[j]) => t[j].v = v) /\ (SetsState(t[j]) => Ends(t[j]))
      <4>1. PICK i \in 1..Len(q) : t[j] = q[i]
        BY <1>1
      <4> QED BY <3>1, <4>1
    <3> QED BY <3>2
  <2> QED BY <2>3, <2>4, <2>5, <2>6 DEF ClosesWith
<1>7. ReasonComesFirst(t, c)
  <2>1. \A k \in 1..Len(t) : SetsReason(t[k]) => Given(t[k].v)
    BY <1>1 DEF Orderly, ReasonComesFirst
  <2>2. ASSUME c.announced, NEW k \in 1..Len(t), Ends(t[k])
        PROVE  Given(c.treason) \/ \E j \in 1..k - 1 : SetsReason(t[j])
    <3>1. Given(c.treason) \/ \E j \in 1..(k + 1) - 1 : SetsReason(q[j])
      BY <1>1, <2>2 DEF Orderly, ReasonComesFirst
    <3>2. \A j \in 1..(k + 1) - 1 : j # 1 => j - 1 \in 1..k - 1 /\ t[j - 1] = q[j]
      BY <1>1, SMTT(30)
    <3>3. SetsReason(q[1]) => Given(c.treason)
      <4>1. 1 \in 1..Len(q)
        BY <1>1
      <4> QED BY <1>2, <4>1 DEF Orderly, ReasonComesFirst
    <3> QED BY <3>1, <3>2, <3>3
  <2> QED BY <2>1, <2>2 DEF ReasonComesFirst
<1>8. HandlesTheLiving(t, c)
  <2> SUFFICES ASSUME NEW k \in 1..Len(t), t[k].op \in {"handle", "stop"}
               PROVE  c.state # "terminated" /\ \A j \in 1..k - 1 : ~Ends(t[j])
    BY DEF HandlesTheLiving
  <2>1. c.state # "terminated" /\ \A j \in 1..(k + 1) - 1 : ~Ends(q[j])
    BY <1>1 DEF Orderly, HandlesTheLiving
  <2>2. \A j \in 1..k - 1 : t[j] = q[j + 1] /\ j + 1 \in 1..(k + 1) - 1
    BY <1>1
  <2> QED BY <2>1, <2>2
<1> QED BY <1>3, <1>4, <1>5, <1>6, <1>7, <1>8 DEF Orderly, t

\* What is told may grow, and a root be opened, or closed when nothing is created.
LEMMA NewContext ==
    ASSUME NEW q, NEW c, NEW d, Orderly(q, c),
           d.announced = c.announced, d.state = c.state, d.treason = c.treason,
           \A e \in c.told : e \in d.told,
           \/ d.root = c.root
           \/ d.root = "open"
           \/ \A k \in 1..Len(q) : ~Creates(q[k])
    PROVE  Orderly(q, d)
<1>1. CallsAreLast(q) /\ CloseIsLast(q) /\ FailuresAreMarked(q, d)
  BY DEF Orderly, FailuresAreMarked
<1>2. CreationIsWhole(q, d)
  BY DEF Orderly, CreationIsWhole
<1>3. ReasonComesFirst(q, d) /\ HandlesTheLiving(q, d)
  BY DEF Orderly, ReasonComesFirst, HandlesTheLiving
<1>4. RunsWhenAnnounced(q, d)
  <2>1. ASSUME NEW k \in 1..Len(q), Announces(q[k]) \/ (q[k].op = "pour" /\ q[k].key = "create")
        PROVE  Creates(q[k])
    BY <2>1 DEF Orderly, FailuresAreMarked, Creates
  <2> QED BY <2>1 DEF Orderly, RunsWhenAnnounced
<1>5. CloseIsAnnounced(q, d)
  <2> SUFFICES ASSUME d.announced, NEW k \in 1..Len(q), q[k].op = "close_root"
               PROVE  \E v \in Reasons : ClosesWith(q, d, k, v)
    BY DEF CloseIsAnnounced
  <2>1. PICK v \in Reasons : ClosesWith(q, c, k, v)
    BY DEF Orderly, CloseIsAnnounced
  <2>2. ClosesWith(q, d, k, v)
    BY <2>1 DEF ClosesWith
  <2> QED BY <2>2
<1> QED BY <1>1, <1>2, <1>3, <1>4, <1>5 DEF Orderly

\* A write that is due may be made.
LEMMA SetContext ==
    ASSUME NEW S, NEW q \in Seq(S), q # << >>, q[1].op = "set", NEW c, NEW d, Orderly(q, c),
           d.announced = c.announced, d.root = c.root, d.told = c.told,
           d.state = IF SetsState(q[1]) THEN q[1].v ELSE c.state,
           d.treason = IF SetsReason(q[1]) THEN q[1].v ELSE c.treason
    PROVE  Orderly(q, d)
<1>1. CallsAreLast(q) /\ CloseIsLast(q) /\ FailuresAreMarked(q, d) /\ CreationIsWhole(q, d)
  BY DEF Orderly, FailuresAreMarked, CreationIsWhole
<1>2. 1 \in 1..Len(q) /\ Len(q) \in Nat /\ \A k \in 1..Len(q) : k # 1 => 1 \in 1..k - 1
  <2>1. Len(q) \in Nat \ {0}
    OBVIOUS
  <2> QED BY <2>1
<1>3. ReasonComesFirst(q, d)
  BY <1>2 DEF Orderly, ReasonComesFirst
<1>4. HandlesTheLiving(q, d)
  <2> SUFFICES ASSUME NEW k \in 1..Len(q), q[k].op \in {"handle", "stop"}
               PROVE  d.state # "terminated" /\ \A j \in 1..k - 1 : ~Ends(q[j])
    BY DEF HandlesTheLiving
  <2>1. c.state # "terminated" /\ \A j \in 1..k - 1 : ~Ends(q[j])
    BY DEF Orderly, HandlesTheLiving
  <2>2. ~Ends(q[1])
    BY <1>2, <2>1
  <2> QED BY <2>1, <2>2 DEF Ends
<1>5. RunsWhenAnnounced(q, d)
  <2> SUFFICES ASSUME NEW k \in 1..Len(q),
                      Announces(q[k]) \/ (q[k].op = "pour" /\ q[k].key = "create")
               PROVE  /\ k = Len(q)
                      /\ d.root = "open" \/ \E j \in 1..k - 1 : q[j].op = "create"
                      /\ \/ d.state \in Running /\ \A j \in 1..k - 1 : ~SetsState(q[j])
                         \/ \E j \in 1..k - 1 : /\ SetsState(q[j]) /\ q[j].v \in Running
                                                /\ \A i \in j + 1..k - 1 : ~SetsState(q[i])
    BY DEF RunsWhenAnnounced
  <2>1. k # 1 /\ 1 \in 1..k - 1
    BY <1>2 DEF Announces
  <2> QED BY <2>1 DEF Orderly, RunsWhenAnnounced
<1>6. CloseIsAnnounced(q, d)
  <2> SUFFICES ASSUME d.announced, NEW k \in 1..Len(q), q[k].op = "close_root"
               PROVE  \E v \in Reasons : ClosesWith(q, d, k, v)
    BY DEF CloseIsAnnounced
  <2>1. PICK v \in Reasons : ClosesWith(q, c, k, v)
    BY DEF Orderly, CloseIsAnnounced
  <2>2. 1 \in 1..k - 1
    BY <1>2
  <2>3. SetsReason(q[1]) => q[1].v = v
    BY <1>2, <2>1 DEF ClosesWith
  <2>4. SetsState(q[1]) => q[1].v = "terminated"
    BY <1>2, <2>1 DEF ClosesWith, Ends
  <2>5. ClosesWith(q, d, k, v)
    BY <2>1, <2>2, <2>3, <2>4 DEF ClosesWith
  <2> QED BY <2>5
<1> QED BY <1>1, <1>3, <1>4, <1>5, <1>6 DEF Orderly

\* The write of a loop that was never announced may be skipped.
LEMMA SkippedWrite ==
    ASSUME NEW S, NEW q \in Seq(S), q # << >>, NEW c, Orderly(q, c),
           q[1].op = "set", ~Creates(q[1]), ~c.announced
    PROVE  Orderly(Tail(q), c)
<1> DEFINE t == Tail(q)
<1>1. /\ Len(q) \in Nat \ {0} /\ Len(t) = Len(q) - 1
      /\ \A k \in 1..Len(t) : k + 1 \in 1..Len(q) /\ t[k] = q[k + 1]
  BY TailIs
<1>2. CallsAreLast(t) /\ CloseIsLast(t) /\ FailuresAreMarked(t, c) /\ CreationIsWhole(t, c)
  BY TailKeepsPairs, TailKeepsCreation DEF Orderly
<1> HIDE DEF t
<1>3. \A k \in 1..Len(q) : ~Creates(q[k])
  <2>1. 1 \in 1..Len(q)
    BY <1>1
  <2> QED BY <2>1 DEF Orderly, CreationIsWhole
<1>4. RunsWhenAnnounced(t, c)
  <2>1. ASSUME NEW k \in 1..Len(q), Announces(q[k]) \/ (q[k].op = "pour" /\ q[k].key = "create")
        PROVE  Creates(q[k])
    BY <2>1 DEF Orderly, FailuresAreMarked, Creates
  <2> QED BY <1>1, <1>3, <2>1 DEF RunsWhenAnnounced
<1>5. CloseIsAnnounced(t, c)
  BY DEF CloseIsAnnounced
<1>6. ReasonComesFirst(t, c)
  BY <1>1 DEF Orderly, ReasonComesFirst
<1>7. HandlesTheLiving(t, c)
  <2> SUFFICES ASSUME NEW k \in 1..Len(t), t[k].op \in {"handle", "stop"}
               PROVE  c.state # "terminated" /\ \A j \in 1..k - 1 : ~Ends(t[j])
    BY DEF HandlesTheLiving
  <2>1. c.state # "terminated" /\ \A j \in 1..(k + 1) - 1 : ~Ends(q[j])
    BY <1>1 DEF Orderly, HandlesTheLiving
  <2>2. \A j \in 1..k - 1 : t[j] = q[j + 1] /\ j + 1 \in 1..(k + 1) - 1
    BY <1>1
  <2> QED BY <2>1, <2>2
<1> QED BY <1>2, <1>4, <1>5, <1>6, <1>7 DEF Orderly, t

-----------------------------------------------------------------------------
(* Handlers put together.                                                  *)

\* A step that ends nothing and creates nothing.
Calm(s) ==
    /\ s.op \in {"set", "ref", "emit", "close_wisp", "delete", "activate", "index"}
    /\ s.fail # "rollback"
    /\ s.op = "set" => s.fail # "skip" /\ s.key # "treason" /\ (s.key = "state" => s.v \in Running)
    /\ s.op = "emit" => s.key # "created"

\* A step that branches, other than the pour of a creation.
Leaf(s) ==
    /\ s.op \in Calls
    /\ s.fail # "rollback"
    /\ s.op = "pour" => s.key # "create"

Flat(p)  == \A k \in 1..Len(p) : Calm(p[k])
Soft(p)  == \A k \in 1..Len(p) : p[k].op \in {"ref", "delete"} /\ p[k].fail # "rollback"
Plain(p) == \A k \in 1..Len(p) : Calm(p[k]) \/ (k = Len(p) /\ Leaf(p[k]))
Uncreating(p) == \A k \in 1..Len(p) : ~Creates(p[k])
Trailing(p) == \A k \in 1..Len(p) : p[k].op \in {"stop_reread", "index"} /\ p[k].fail # "rollback"

\* The steps of two sequences, one after the other.
LEMMA JoinIs ==
    ASSUME NEW S, NEW p \in Seq(S), NEW r \in Seq(S)
    PROVE  /\ p \o r \in Seq(S)
           /\ Len(p) \in Nat /\ Len(r) \in Nat /\ Len(p \o r) = Len(p) + Len(r)
           /\ \A k \in 1..Len(p) : k \in 1..Len(p \o r) /\ (p \o r)[k] = p[k]
           /\ \A k \in 1..Len(r) : Len(p) + k \in 1..Len(p \o r) /\ (p \o r)[Len(p) + k] = r[k]
           /\ \A k \in 1..Len(p \o r) :
                 \/ k \in 1..Len(p) /\ (p \o r)[k] = p[k]
                 \/ k - Len(p) \in 1..Len(r) /\ (p \o r)[k] = r[k - Len(p)]
<1>1. p \o r \in Seq(S) /\ Len(p) \in Nat /\ Len(r) \in Nat /\ Len(p \o r) = Len(p) + Len(r)
  OBVIOUS
<1>2. \A k \in 1..Len(p) + Len(r) : (p \o r)[k] = IF k <= Len(p) THEN p[k] ELSE r[k - Len(p)]
  OBVIOUS
<1>3. \A k \in 1..Len(p) : k \in 1..Len(p \o r) /\ (p \o r)[k] = p[k]
  BY <1>1, <1>2
<1>4. \A k \in 1..Len(r) : Len(p) + k \in 1..Len(p \o r) /\ (p \o r)[Len(p) + k] = r[k]
  <2> TAKE k \in 1..Len(r)
  <2>1. Len(p) + k \in 1..Len(p) + Len(r) /\ ~(Len(p) + k <= Len(p)) /\ (Len(p) + k) - Len(p) = k
    BY <1>1
  <2> QED BY <1>1, <1>2, <2>1
<1>5. ASSUME NEW k \in 1..Len(p \o r)
      PROVE  \/ k \in 1..Len(p) /\ (p \o r)[k] = p[k]
             \/ k - Len(p) \in 1..Len(r) /\ (p \o r)[k] = r[k - Len(p)]
  <2>1. k \in 1..Len(p) \/ (k - Len(p) \in 1..Len(r) /\ ~(k <= Len(p)))
    BY <1>1
  <2> QED BY <1>1, <1>2, <2>1
<1> QED BY <1>1, <1>3, <1>4, <1>5

\* A plain handler is orderly.
LEMMA PlainIsOrderly ==
    ASSUME NEW S, NEW p \in Seq(S), Plain(p), NEW c,
           \A k \in 1..Len(p) : p[k].op \in {"handle", "stop"} => c.state # "terminated"
    PROVE  Orderly(p, c) /\ Uncreating(p)
<1>1. Len(p) \in Nat
  OBVIOUS
<1>2. ASSUME NEW k \in 1..Len(p)
      PROVE  /\ p[k].op \notin {"close_root", "create"} /\ p[k].fail # "rollback"
             /\ ~Announces(p[k]) /\ ~(p[k].op = "pour" /\ p[k].key = "create")
             /\ p[k].op = "set" => p[k].fail # "skip"
             /\ ~SetsReason(p[k]) /\ (SetsState(p[k]) => p[k].v \in Running)
             /\ p[k].op \in Calls => k = Len(p)
  BY <1>2 DEF Plain, Calm, Leaf, Announces, SetsReason, SetsState, Calls, Branches
<1>3. \A k \in 1..Len(p) : ~Creates(p[k]) /\ ~Ends(p[k])
  BY <1>2 DEF Creates, Ends, Running
<1>4. CallsAreLast(p)
  BY <1>1, <1>2 DEF CallsAreLast
<1>5. CloseIsLast(p)
  BY <1>2 DEF CloseIsLast
<1>6. FailuresAreMarked(p, c)
  BY <1>2 DEF FailuresAreMarked, Running
<1>7. CreationIsWhole(p, c) /\ RunsWhenAnnounced(p, c) /\ CloseIsAnnounced(p, c)
  BY <1>2, <1>3 DEF CreationIsWhole, RunsWhenAnnounced, CloseIsAnnounced
<1>8. ReasonComesFirst(p, c)
  BY <1>2, <1>3 DEF ReasonComesFirst
<1>9. HandlesTheLiving(p, c)
  <2>1. \A k \in 1..Len(p) : \A j \in 1..k - 1 : j \in 1..Len(p)
    BY <1>1
  <2> QED BY <1>3, <2>1 DEF HandlesTheLiving
<1> QED BY <1>3, <1>4, <1>5, <1>6, <1>7, <1>8, <1>9 DEF Orderly, Uncreating

\* Calm steps before a plain handler.
LEMMA FlatJoin ==
    ASSUME NEW S, NEW p \in Seq(S), NEW r \in Seq(S), Flat(p), Plain(r)
    PROVE  Plain(p \o r)
<1> SUFFICES ASSUME NEW k \in 1..Len(p \o r)
             PROVE  Calm((p \o r)[k]) \/ (k = Len(p \o r) /\ Leaf((p \o r)[k]))
  BY DEF Plain
<1>1. /\ Len(p) \in Nat /\ Len(r) \in Nat /\ Len(p \o r) = Len(p) + Len(r)
      /\ \/ k \in 1..Len(p) /\ (p \o r)[k] = p[k]
         \/ k - Len(p) \in 1..Len(r) /\ (p \o r)[k] = r[k - Len(p)]
  BY JoinIs
<1>2. CASE k \in 1..Len(p) /\ (p \o r)[k] = p[k]
  BY <1>2 DEF Flat
<1>3. CASE k - Len(p) \in 1..Len(r) /\ (p \o r)[k] = r[k - Len(p)]
  <2>1. Calm(r[k - Len(p)]) \/ (k - Len(p) = Len(r) /\ Leaf(r[k - Len(p)]))
    BY <1>3 DEF Plain
  <2>2. k - Len(p) = Len(r) => k = Len(p \o r)
    BY <1>1
  <2> QED BY <1>3, <2>1, <2>2
<1> QED BY <1>1, <1>2, <1>3

\* The end of a stop or of a scan after a handler that creates nothing.
LEMMA TrailJoin ==
    ASSUME NEW S, NEW p \in Seq(S), NEW r \in Seq(S), NEW c,
           Orderly(p, c), Uncreating(p), Trailing(r)
    PROVE  Orderly(p \o r, c) /\ Uncreating(p \o r)
<1> DEFINE q == p \o r
<1>1. /\ Len(p) \in Nat /\ Len(r) \in Nat /\ Len(q) = Len(p) + Len(r)
      /\ \A k \in 1..Len(p) : k \in 1..Len(q) /\ q[k] = p[k]
      /\ \A k \in 1..Len(q) : \/ k \in 1..Len(p) /\ q[k] = p[k]
                              \/ k - Len(p) \in 1..Len(r) /\ q[k] = r[k - Len(p)]
  BY JoinIs
<1> HIDE DEF q
<1>2. ASSUME NEW k \in 1..Len(q)
      PROVE  \/ k \in 1..Len(p) /\ q[k] = p[k]
             \/ q[k].op \in {"stop_reread", "index"} /\ q[k].fail # "rollback"
  BY <1>1 DEF Trailing
<1>3. \A j, k \in 1..Len(q) : j < k /\ k \in 1..Len(p) => j \in 1..Len(p) /\ q[j] = p[j]
  BY <1>1
<1>4. \A k \in 1..Len(q) : ~Creates(q[k])
  BY <1>2 DEF Uncreating, Creates, Announces
<1>5. CallsAreLast(q)
  BY <1>2, <1>3 DEF Orderly, CallsAreLast
<1>6. CloseIsLast(q)
  BY <1>2, <1>3 DEF Orderly, CloseIsLast
<1>7. FailuresAreMarked(q, c)
  BY <1>2 DEF Orderly, FailuresAreMarked, SetsState
<1>8. CreationIsWhole(q, c)
  BY <1>4 DEF CreationIsWhole
<1>9. RunsWhenAnnounced(q, c)
  <2>1. ASSUME NEW k \in 1..Len(q), Announces(q[k]) \/ (q[k].op = "pour" /\ q[k].key = "create")
        PROVE  Creates(q[k])
    BY <1>7, <2>1 DEF FailuresAreMarked, Creates
  <2> QED BY <1>4, <2>1 DEF RunsWhenAnnounced
<1>10. \A k \in 1..Len(p) : \A j \in 1..k - 1 : j \in 1..Len(p) /\ q[j] = p[j]
  BY <1>1
<1>11. \A k \in 1..Len(q) : SetsState(q[k]) \/ SetsReason(q[k]) => k \in 1..Len(p) /\ q[k] = p[k]
  BY <1>2 DEF SetsState, SetsReason
<1>12. CloseIsAnnounced(q, c)
  <2> SUFFICES ASSUME c.announced, NEW k \in 1..Len(q), q[k].op = "close_root"
               PROVE  \E v \in Reasons : ClosesWith(q, c, k, v)
    BY DEF CloseIsAnnounced
  <2>1. k \in 1..Len(p) /\ q[k] = p[k]
    BY <1>2
  <2>2. PICK v \in Reasons : ClosesWith(p, c, k, v)
    BY <2>1 DEF Orderly, CloseIsAnnounced
  <2>3. Told(v) \in c.told \/ \E j \in 1..k - 1 :
            q[j].op = "emit" /\ q[j].key = "terminated" /\ q[j].w = 0 /\ q[j].v = v
    BY <1>10, <2>1, <2>2 DEF ClosesWith
  <2>4. c.treason = v \/ \E j \in 1..k - 1 : SetsReason(q[j])
    BY <1>10, <2>1, <2>2 DEF ClosesWith
  <2>5. c.state = "terminated" \/ \E j \in 1..k - 1 : Ends(q[j])
    BY <1>10, <2>1, <2>2 DEF ClosesWith
  <2>6. ASSUME NEW j \in 1..Len(q)
        PROVE  (SetsReason(q[j]) => q[j].v = v) /\ (SetsState(q[j]) => Ends(q[j]))
    BY <1>11, <2>2 DEF ClosesWith
  <2> QED BY <2>3, <2>4, <2>5, <2>6 DEF ClosesWith
<1>13. ReasonComesFirst(q, c)
  <2>1. \A k \in 1..Len(q) : SetsReason(q[k]) => Given(q[k].v)
    BY <1>11 DEF Orderly, ReasonComesFirst
  <2>2. ASSUME c.announced, NEW k \in 1..Len(q), Ends(q[k])
        PROVE  Given(c.treason) \/ \E j \in 1..k - 1 : SetsReason(q[j])
    <3>1. k \in 1..Len(p) /\ q[k] = p[k]
      BY <1>11, <2>2 DEF Ends
    <3>2. Given(c.treason) \/ \E j \in 1..k - 1 : SetsReason(p[j])
      BY <2>2, <3>1 DEF Orderly, ReasonComesFirst
    <3> QED BY <1>10, <3>1, <3>2
  <2> QED BY <2>1, <2>2 DEF ReasonComesFirst
<1>14. HandlesTheLiving(q, c)
  <2> SUFFICES ASSUME NEW k \in 1..Len(q), q[k].op \in {"handle", "stop"}
               PROVE  c.state # "terminated" /\ \A j \in 1..k - 1 : ~Ends(q[j])
    BY DEF HandlesTheLiving
  <2>1. k \in 1..Len(p) /\ q[k] = p[k]
    BY <1>2
  <2> QED BY <1>10, <2>1 DEF Orderly, HandlesTheLiving
<1> QED BY <1>4, <1>5, <1>6, <1>7, <1>8, <1>9, <1>12, <1>13, <1>14 DEF Orderly, Uncreating, q

\* Burning a wisp before a handler that creates nothing.
LEMMA SoftJoin ==
    ASSUME NEW S, NEW p \in Seq(S), NEW r \in Seq(S), NEW c,
           Soft(p), Orderly(r, c), Uncreating(r)
    PROVE  Orderly(p \o r, c) /\ Uncreating(p \o r)
<1> DEFINE q == p \o r
           n == Len(p)
<1>1. /\ n \in Nat /\ Len(r) \in Nat /\ Len(q) = n + Len(r)
      /\ \A k \in 1..Len(r) : n + k \in 1..Len(q) /\ q[n + k] = r[k]
      /\ \A k \in 1..Len(q) : \/ k \in 1..n /\ q[k] = p[k]
                              \/ k - n \in 1..Len(r) /\ q[k] = r[k - n]
  BY JoinIs
<1>2. ASSUME NEW k \in 1..Len(q)
      PROVE  \/ k - n \in 1..Len(r) /\ q[k] = r[k - n]
             \/ k \in 1..n /\ q[k].op \in {"ref", "delete"} /\ q[k].fail # "rollback"
  BY <1>1 DEF Soft
<1> HIDE DEF q, n
<1>3. \A j, k \in 1..Len(q) : j < k /\ ~(j \in 1..n) => k - n \in 1..Len(r) /\ j - n < k - n
  BY <1>1
<1>4. \A k \in 1..Len(q) : ~Creates(q[k])
  BY <1>2 DEF Uncreating, Creates, Announces
<1>5. CallsAreLast(q)
  <2> SUFFICES ASSUME NEW j \in 1..Len(q), NEW k \in 1..Len(q), j < k, q[j].op \in Calls
               PROVE  q[k].op \in {"stop_reread", "index"}
    BY DEF CallsAreLast
  <2>1. j - n \in 1..Len(r) /\ q[j] = r[j - n] /\ ~(j \in 1..n)
    BY <1>1, <1>2, SMTT(30) DEF Calls, Branches
  <2>2. k - n \in 1..Len(r) /\ q[k] = r[k - n] /\ j - n < k - n
    BY <1>1, <1>2, <1>3, <2>1
  <2> QED BY <2>1, <2>2 DEF Orderly, CallsAreLast
<1>6. CloseIsLast(q)
  <2> SUFFICES ASSUME NEW j \in 1..Len(q), NEW k \in 1..Len(q), j < k, q[j].op = "close_root"
               PROVE  q[k].op \in {"ref", "delete", "stop_reread", "index"}
    BY DEF CloseIsLast
  <2>1. j - n \in 1..Len(r) /\ q[j] = r[j - n] /\ ~(j \in 1..n)
    BY <1>1, <1>2
  <2>2. k - n \in 1..Len(r) /\ q[k] = r[k - n] /\ j - n < k - n
    BY <1>1, <1>2, <1>3, <2>1
  <2> QED BY <2>1, <2>2 DEF Orderly, CloseIsLast
<1>7. FailuresAreMarked(q, c)
  BY <1>2 DEF Orderly, FailuresAreMarked, SetsState
<1>8. CreationIsWhole(q, c)
  BY <1>4 DEF CreationIsWhole
<1>9. RunsWhenAnnounced(q, c)
  <2>1. ASSUME NEW k \in 1..Len(q), Announces(q[k]) \/ (q[k].op = "pour" /\ q[k].key = "create")
        PROVE  Creates(q[k])
    BY <1>7, <2>1 DEF FailuresAreMarked, Creates
  <2> QED BY <1>4, <2>1 DEF RunsWhenAnnounced
<1>10. \A k \in 1..Len(r) : \A j \in 1..k - 1 : n + j \in 1..(n + k) - 1 /\ q[n + j] = r[j]
  BY <1>1
<1>11. \A k \in 1..Len(q) : SetsState(q[k]) \/ SetsReason(q[k]) => k - n \in 1..Len(r) /\ q[k] = r[k - n]
  BY <1>2 DEF SetsState, SetsReason
<1>12. CloseIsAnnounced(q, c)
  <2> SUFFICES ASSUME c.announced, NEW k \in 1..Len(q), q[k].op = "close_root"
               PROVE  \E v \in Reasons : ClosesWith(q, c, k, v)
    BY DEF CloseIsAnnounced
  <2>1. PICK m \in 1..Len(r) : m = k - n /\ q[k] = r[m] /\ n + m = k
    <3>1. k - n \in 1..Len(r) /\ q[k] = r[k - n]
      BY <1>2
    <3>2. n + (k - n) = k
      BY <1>1
    <3> QED BY <3>1, <3>2
  <2>2. PICK v \in Reasons : ClosesWith(r, c, m, v)
    BY <2>1 DEF Orderly, CloseIsAnnounced
  <2>3. \A j \in 1..m - 1 : n + j \in 1..k - 1 /\ q[n + j] = r[j]
    BY <1>10, <2>1
  <2>4. Told(v) \in c.told \/ \E j \in 1..k - 1 :
            q[j].op = "emit" /\ q[j].key = "terminated" /\ q[j].w = 0 /\ q[j].v = v
    <3>1. Told(v) \in c.told \/ \E j \in 1..m - 1 :
              r[j].op = "emit" /\ r[j].key = "terminated" /\ r[j].w = 0 /\ r[j].v = v
      BY <2>2 DEF ClosesWith
    <3> QED BY <2>3, <3>1
  <2>5. c.treason = v \/ \E j \in 1..k - 1 : SetsReason(q[j])
    BY <2>2, <2>3 DEF ClosesWith
  <2>6. c.state = "terminated" \/ \E j \in 1..k - 1 : Ends(q[j])
    BY <2>2, <2>3 DEF ClosesWith
  <2>7. ASSUME NEW j \in 1..Len(q)
        PROVE  (SetsReason(q[j]) => q[j].v = v) /\ (SetsState(q[j]) => Ends(q[j]))
    BY <1>11, <2>2 DEF ClosesWith
  <2> QED BY <2>4, <2>5, <2>6, <2>7 DEF ClosesWith
<1>13. ReasonComesFirst(q, c)
  <2>1. \A k \in 1..Len(q) : SetsReason(q[k]) => Given(q[k].v)
    BY <1>11 DEF Orderly, ReasonComesFirst
  <2>2. ASSUME c.announced, NEW k \in 1..Len(q), Ends(q[k])
        PROVE  Given(c.treason) \/ \E j \in 1..k - 1 : SetsReason(q[j])
    <3>1. PICK m \in 1..Len(r) : m = k - n /\ q[k] = r[m] /\ n + m = k
      BY <1>1, <1>11, <2>2 DEF Ends
    <3>2. Given(c.treason) \/ \E j \in 1..m - 1 : SetsReason(r[j])
      BY <2>2, <3>1 DEF Orderly, ReasonComesFirst
    <3>3. \A j \in 1..m - 1 : n + j \in 1..k - 1 /\ q[n + j] = r[j]
      BY <1>10, <3>1
    <3> QED BY <3>2, <3>3
  <2> QED BY <2>1, <2>2 DEF ReasonComesFirst
<1>14. HandlesTheLiving(q, c)
  <2> SUFFICES ASSUME NEW k \in 1..Len(q), q[k].op \in {"handle", "stop"}
               PROVE  c.state # "terminated" /\ \A j \in 1..k - 1 : ~Ends(q[j])
    BY DEF HandlesTheLiving
  <2>1. PICK m \in 1..Len(r) : m = k - n /\ q[k] = r[m] /\ n + m = k
    <3>1. k - n \in 1..Len(r) /\ q[k] = r[k - n]
      BY <1>2
    <3>2. n + (k - n) = k
      BY <1>1
    <3> QED BY <3>1, <3>2
  <2>2. c.state # "terminated" /\ \A j \in 1..m - 1 : ~Ends(r[j])
    BY <2>1 DEF Orderly, HandlesTheLiving
  <2>3. ASSUME NEW j \in 1..k - 1, Ends(q[j]) PROVE FALSE
    <3>1. j \in 1..Len(q)
      BY <1>1
    <3>2. j - n \in 1..Len(r) /\ q[j] = r[j - n]
      BY <1>11, <2>3, <3>1 DEF Ends
    <3>3. j - n \in 1..m - 1
      BY <1>1, <2>1, <3>2
    <3> QED BY <2>2, <2>3, <3>2, <3>3
  <2> QED BY <2>2, <2>3
<1> QED BY <1>4, <1>5, <1>6, <1>7, <1>8, <1>9, <1>12, <1>13, <1>14 DEF Orderly, Uncreating, q

\* What follows a step that branches, other than the pour of a creation.
LEMMA TailOfCall ==
    ASSUME NEW S, NEW q \in Seq(S), q # << >>, NEW c, Orderly(q, c), q[1].op \in Calls
    PROVE  /\ Trailing(Tail(q))
           /\ Creates(q[1]) => Tail(q) = << >>
<1>1. /\ Tail(q) \in Seq(S) /\ Len(q) \in Nat \ {0}
      /\ \A k \in 1..Len(Tail(q)) : k + 1 \in 1..Len(q) /\ Tail(q)[k] = q[k + 1]
  BY TailIs
<1>2. 1 \in 1..Len(q) /\ \A k \in 1..Len(Tail(q)) : 1 < k + 1
  BY <1>1
<1>3. \A k \in 1..Len(Tail(q)) : Tail(q)[k].op \in {"stop_reread", "index"} /\ ~Creates(Tail(q)[k])
  BY <1>1, <1>2 DEF Orderly, CallsAreLast, Creates, Announces
<1>4. Trailing(Tail(q))
  BY <1>1, <1>3 DEF Orderly, FailuresAreMarked, Trailing
<1>5. ASSUME Creates(q[1]), Tail(q) # << >> PROVE FALSE
  <2>1. 1 \in 1..Len(Tail(q))
    BY <1>1, <1>5
  <2>2. Creates(Tail(q)[1])
    BY <1>1, <1>2, <1>5, <2>1 DEF Orderly, CreationIsWhole
  <2> QED BY <1>3, <2>1, <2>2
<1> QED BY <1>4, <1>5

-----------------------------------------------------------------------------
(* What the store shows.                                                   *)

\* A set of naturals that is not empty has a least element, which Min names.
LEMMA MinIsOf ==
    ASSUME NEW T \in SUBSET Nat, T # {}
    PROVE  Min(T) \in T
<1> DEFINE Less == {ss \in Nat \X Nat : ss[1] < ss[2]}
<1>1. IsWellFoundedOn(Less, Nat)
  BY NatLessThanWellFounded DEF OpToRel
<1>2. T \subseteq Nat
  OBVIOUS
<1>3. \E x \in T : \A y \in T : ~(<<y, x>> \in Less)
  <2> HIDE DEF Less
  <2> QED BY <1>1, <1>2, WFMin, Zenon
<1>4. PICK x \in T : \A y \in T : ~(<<y, x>> \in Less)
  BY <1>3
<1>5. ASSUME NEW y \in T PROVE x =< y
  <2>1. <<y, x>> \in Nat \X Nat
    OBVIOUS
  <2> QED BY <2>1, <1>4
<1>6. \E m \in T : \A y \in T : m =< y
  BY <1>5
<1> QED BY <1>6 DEF Min

\* The key lookup finds a child of the iteration if there is one.
LEMMA FindIs ==
    ASSUME TypeInv, NEW n
    PROVE  /\ FindByIdempotencyKey(n) \in 0..Len(wisp)
           /\ FindByIdempotencyKey(n) = None => \A i \in Children : wisp[i].iter # n
           /\ FindByIdempotencyKey(n) # None =>
                 FindByIdempotencyKey(n) \in Children /\ wisp[FindByIdempotencyKey(n)].iter = n
<1> DEFINE found == {i \in Children : wisp[i].iter = n}
<1>1. Len(wisp) \in Nat /\ DOMAIN wisp = 1..Len(wisp)
  BY DEF TypeInv
<1>2. found \in SUBSET Nat /\ found \subseteq 1..Len(wisp)
  BY <1>1 DEF Children
<1>3. FindByIdempotencyKey(n) = IF found = {} THEN None ELSE Min(found)
  BY DEF FindByIdempotencyKey
<1>4. found # {} => Min(found) \in found
  BY <1>2, MinIsOf
<1>5. \A i \in found : i \in Children /\ wisp[i].iter = n
  OBVIOUS
<1>6. \A i \in Children : wisp[i].iter = n => i \in found
  OBVIOUS
<1>7. 0 \in 0..Len(wisp) /\ \A k \in 1..Len(wisp) : k \in 0..Len(wisp) /\ k # 0
  BY <1>1
<1> HIDE DEF found
<1>8. CASE found = {}
  BY <1>3, <1>6, <1>7, <1>8 DEF None
<1>9. CASE found # {}
  BY <1>2, <1>3, <1>4, <1>5, <1>7, <1>9 DEF None
<1> QED BY <1>8, <1>9

\* A set of wisps has one of highest iteration.
LEMMA HighestIs ==
    ASSUME TypeInv, NEW T \in SUBSET (1..Len(wisp))
    PROVE  Highest(T) \in 0..Len(wisp)
<1>1. Len(wisp) \in Nat /\ \A i \in T : wisp[i].iter \in Nat
  <2>1. Len(wisp) \in Nat /\ \A i \in 1..Len(wisp) : wisp[i] \in Wisps
    BY DEF TypeInv
  <2> QED BY <2>1 DEF Wisps
<1>2. CASE T = {}
  BY <1>1, <1>2 DEF Highest, None
<1>3. CASE T # {}
  <2>1. PICK b \in Nat : \A i \in 1..Len(wisp) : wisp[i].iter <= b
    BY DEF TypeInv
  <2> DEFINE M == {m \in Nat : \E i \in T : m = b - wisp[i].iter}
             H == {i \in T : \A j \in T : wisp[j].iter <= wisp[i].iter}
  <2>2. \A i \in T : b - wisp[i].iter \in M
    BY <1>1, <2>1
  <2>3. M \in SUBSET Nat /\ M # {}
    BY <1>3, <2>2
  <2>4. \E m \in M : \A y \in M : m =< y
    <3> DEFINE Less == {ss \in Nat \X Nat : ss[1] < ss[2]}
    <3>1. IsWellFoundedOn(Less, Nat)
      BY NatLessThanWellFounded DEF OpToRel
    <3> HIDE DEF M
    <3>2. M \subseteq Nat
      BY <2>3
    <3>3. \E m \in M : \A y \in M : ~(<<y, m>> \in Less)
      <4> HIDE DEF Less
      <4> QED BY <2>3, <3>1, <3>2, WFMin, Zenon
    <3>4. PICK m \in M : \A y \in M : ~(<<y, m>> \in Less)
      BY <3>3
    <3>5. ASSUME NEW y \in M PROVE m =< y
      <4>1. <<y, m>> \in Nat \X Nat
        BY <2>3
      <4> QED BY <2>3, <3>4, <4>1
    <3> QED BY <3>5
  <2>5. PICK m \in M : \A y \in M : m =< y
    BY <2>4
  <2>6. PICK i \in T : m = b - wisp[i].iter
    OBVIOUS
  <2>7. ASSUME NEW j \in T PROVE wisp[j].iter <= wisp[i].iter
    <3>1. m =< b - wisp[j].iter
      BY <2>2, <2>5
    <3> QED BY <1>1, <2>6, <3>1
  <2>8. i \in H
    BY <2>7
  <2>9. H \in SUBSET Nat /\ H # {} /\ H \subseteq T
    <3>1. \A k \in 1..Len(wisp) : k \in Nat
      BY <1>1
    <3> QED BY <2>8, <3>1
  <2>10. Highest(T) = Min(H)
    BY <1>3 DEF Highest
  <2> HIDE DEF H
  <2>11. Min(H) \in H
    BY <2>9, MinIsOf
  <2>12. \A k \in 1..Len(wisp) : k \in 0..Len(wisp)
    BY <1>1
  <2> QED BY <2>9, <2>10, <2>11, <2>12
<1> QED BY <1>2, <1>3

\* References and counts are numbers of the right size.
LEMMA ViewsAreTyped ==
    ASSUME TypeInv
    PROVE  /\ Len(wisp) \in Nat
           /\ {meta.active, meta.lpw, meta.pending, meta.gated} \subseteq 0..Len(wisp)
           /\ HighestClosed \in 0..Len(wisp) /\ HighestOpen \in 0..Len(wisp)
           /\ recoverCurrentActiveWisp \in 0..Len(wisp)
           /\ ClosedCount \in Nat
           /\ \A i \in 0..Len(wisp) : IterOf(i) \in Nat
           /\ \A n : validPendingNextWisp(n) \in 0..Len(wisp)
           /\ meta.state \in States /\ meta.treason \in Reasons
<1>1. Len(wisp) \in Nat /\ DOMAIN wisp = 1..Len(wisp) /\ \A i \in 1..Len(wisp) : wisp[i] \in Wisps
  BY DEF TypeInv
<1>2. {meta.active, meta.lpw, meta.pending, meta.gated} \subseteq 0..Len(wisp)
  BY DEF TypeInv, Metas
<1>3. meta.state \in States /\ meta.treason \in Reasons
  BY DEF TypeInv, Metas
<1>4. ClosedChildren \in SUBSET (1..Len(wisp)) /\ Children \ ClosedChildren \in SUBSET (1..Len(wisp))
  BY <1>1 DEF ClosedChildren, Children
<1>5. HighestClosed \in 0..Len(wisp) /\ HighestOpen \in 0..Len(wisp)
  BY <1>4, HighestIs DEF HighestClosed, HighestOpen
<1>6. recoverCurrentActiveWisp \in 0..Len(wisp)
  <2>1. FindByIdempotencyKey(IterOf(meta.lpw) + 1) \in 0..Len(wisp)
    BY FindIs
  <2> QED BY <1>5, <2>1 DEF recoverCurrentActiveWisp
<1>7. ClosedCount \in Nat
  <2>1. IsFiniteSet(1..Len(wisp))
    BY <1>1, FS_Interval
  <2>2. IsFiniteSet(ClosedChildren)
    BY <1>4, <2>1, FS_Subset
  <2> QED BY <2>2, FS_CardinalityType DEF ClosedCount
<1>8. ASSUME NEW i \in 0..Len(wisp) PROVE IterOf(i) \in Nat
  <2>1. CASE Exists(i)
    <3>1. i \in 1..Len(wisp)
      BY <1>1, <2>1 DEF Exists, None
    <3> QED BY <1>1, <2>1, <3>1 DEF IterOf, Wisps
  <2>2. CASE ~Exists(i)
    BY <2>2 DEF IterOf
  <2> QED BY <2>1, <2>2
<1>9. \A n : validPendingNextWisp(n) \in 0..Len(wisp)
  BY <1>1, <1>2 DEF validPendingNextWisp, None
<1> QED BY <1>1, <1>2, <1>3, <1>5, <1>6, <1>7, <1>8, <1>9

-----------------------------------------------------------------------------
(* The steps handlers are made of.                                         *)

\* The fields of a step.
LEMMA StepIs ==
    ASSUME NEW n, NEW op \in Ops, NEW key \in Keys, NEW w \in Nat, NEW x \in 0..n,
           NEW v \in Values, NEW fail \in Fails,
           op = "set" => key \in SetKeys,
           op = "set" /\ key = "state" => v \in States,
           op = "set" /\ key = "treason" => v \in Reasons,
           op = "ref" => key \in RefKeys,
           op = "pour" => key \in PourKeys,
           op \notin {"pour", "emit"} => w \in 0..n
    PROVE  Step(op, key, w, x, v, fail) \in Steps(n)
BY DEF Step, Steps

\* The fields of a step.
LEMMA StepFields ==
    ASSUME NEW op, NEW key, NEW w, NEW x, NEW v, NEW fail
    PROVE  /\ Step(op, key, w, x, v, fail).op = op
           /\ Step(op, key, w, x, v, fail).key = key
           /\ Step(op, key, w, x, v, fail).w = w
           /\ Step(op, key, w, x, v, fail).x = x
           /\ Step(op, key, w, x, v, fail).v = v
           /\ Step(op, key, w, x, v, fail).fail = fail
BY DEF Step

\* Handling of a failure changes nothing else of a step.
LEMMA Refailed ==
    ASSUME NEW op, NEW key, NEW w, NEW x, NEW v, NEW fail, NEW y
    PROVE  /\ BestEffort(Step(op, key, w, x, v, fail)) = Step(op, key, w, x, v, "skip")
           /\ OrRollback(Step(op, key, w, x, v, fail)) = Step(op, key, w, x, v, "rollback")
           /\ OrBurn(Step(op, key, w, x, v, fail), y) = Step(op, key, w, y, v, "burn")
<1>1. /\ BestEffort(Step(op, key, w, x, v, fail)) = Step(op, key, w, x, v, "skip")
      /\ OrRollback(Step(op, key, w, x, v, fail)) = Step(op, key, w, x, v, "rollback")
  BY DEF Step, BestEffort, OrRollback
<1>2. [Step(op, key, w, x, v, fail) EXCEPT !.fail = "burn"] = Step(op, key, w, x, v, "burn")
  BY DEF Step
<1>3. [Step(op, key, w, x, v, "burn") EXCEPT !.x = y] = Step(op, key, w, y, v, "burn")
  BY DEF Step
<1>4. OrBurn(Step(op, key, w, x, v, fail), y)
        = [[Step(op, key, w, x, v, fail) EXCEPT !.fail = "burn"] EXCEPT !.x = y]
  BY DEF OrBurn
<1> QED BY <1>1, <1>2, <1>3, <1>4

\* A metadata write, however it may fail.
LEMMA SetIs ==
    ASSUME NEW n \in Nat, NEW key \in SetKeys, NEW v \in Values, 
           key = "state" => v \in States, key = "treason" => v \in Reasons
    PROVE  /\ Set(key, v) \in Steps(n)
           /\ Set(key, v).op = "set" /\ Set(key, v).key = key
           /\ Set(key, v).v = v /\ Set(key, v).fail = "abort"
           /\ OrRollback(Set(key, v)) \in Steps(n)
           /\ OrRollback(Set(key, v)).op = "set" /\ OrRollback(Set(key, v)).key = key
           /\ OrRollback(Set(key, v)).v = v /\ OrRollback(Set(key, v)).fail = "rollback"
           /\ BestEffort(Set(key, v)) \in Steps(n)
           /\ BestEffort(Set(key, v)).op = "set" /\ BestEffort(Set(key, v)).key = key
           /\ BestEffort(Set(key, v)).v = v /\ BestEffort(Set(key, v)).fail = "skip"
           /\ \A y \in 0..n : /\ OrBurn(Set(key, v), y) \in Steps(n)
                              /\ OrBurn(Set(key, v), y).op = "set" /\ OrBurn(Set(key, v), y).key = key
                              /\ OrBurn(Set(key, v), y).v = v /\ OrBurn(Set(key, v), y).fail = "burn"
<1>1. "set" \in Ops /\ "abort" \in Fails /\ "rollback" \in Fails /\ "skip" \in Fails /\ "burn" \in Fails
  BY DEF Ops, Fails
<1>2. key \in Keys
  BY DEF Keys
<1>3. 0 \in Nat /\ 0 \in 0..n
  OBVIOUS
<1>4. \A f \in Fails : \A y \in 0..n : Step("set", key, 0, y, v, f) \in Steps(n)
  BY <1>1, <1>2, <1>3, StepIs
<1>5. /\ Set(key, v) = Step("set", key, 0, 0, v, "abort")
      /\ OrRollback(Set(key, v)) = Step("set", key, 0, 0, v, "rollback")
      /\ BestEffort(Set(key, v)) = Step("set", key, 0, 0, v, "skip")
      /\ \A y : OrBurn(Set(key, v), y) = Step("set", key, 0, y, v, "burn")
  BY Refailed DEF Set, None
<1> QED BY <1>1, <1>3, <1>4, <1>5, StepFields

\* A reference write, however it may fail.
LEMMA RefIs ==
    ASSUME NEW n \in Nat, NEW key \in RefKeys, NEW w \in 0..n
    PROVE  /\ Ref(key, w) \in Steps(n)
           /\ Ref(key, w).op = "ref" /\ Ref(key, w).fail = "abort"
           /\ OrRollback(Ref(key, w)) \in Steps(n)
           /\ OrRollback(Ref(key, w)).op = "ref" /\ OrRollback(Ref(key, w)).fail = "rollback"
           /\ BestEffort(Ref(key, w)) \in Steps(n)
           /\ BestEffort(Ref(key, w)).op = "ref" /\ BestEffort(Ref(key, w)).fail = "skip"
           /\ \A y \in 0..n : /\ OrBurn(Ref(key, w), y) \in Steps(n)
                              /\ OrBurn(Ref(key, w), y).op = "ref" /\ OrBurn(Ref(key, w), y).fail = "burn"
<1>1. "ref" \in Ops /\ "abort" \in Fails /\ "rollback" \in Fails /\ "skip" \in Fails /\ "burn" \in Fails
  BY DEF Ops, Fails
<1>2. key \in Keys
  BY DEF Keys
<1>3. 0 \in 0..n /\ w \in Nat
  OBVIOUS
<1>4. PICK e \in Values : e = ""
  BY DEF Values, States
<1>5. \A f \in Fails : \A y \in 0..n : Step("ref", key, w, y, e, f) \in Steps(n)
  BY <1>1, <1>2, <1>3, <1>4, StepIs
<1>6. /\ Ref(key, w) = Step("ref", key, w, 0, e, "abort")
      /\ OrRollback(Ref(key, w)) = Step("ref", key, w, 0, e, "rollback")
      /\ BestEffort(Ref(key, w)) = Step("ref", key, w, 0, e, "skip")
  BY <1>4, Refailed, ZenonT(40) DEF Ref, None
<1>7. ASSUME NEW y PROVE OrBurn(Ref(key, w), y) = Step("ref", key, w, y, e, "burn")
  <2>1. Ref(key, w) = Step("ref", key, w, 0, e, "abort")
    BY <1>6
  <2> QED BY <2>1, Refailed
<1> QED BY <1>1, <1>3, <1>5, <1>6, <1>7, StepFields

\* An event.
LEMMA EmitIs ==
    ASSUME NEW n \in Nat, NEW kind \in Keys, NEW w \in Nat, NEW v \in Values
    PROVE  /\ Emit(kind, w, v) \in Steps(n)
           /\ Emit(kind, w, v).op = "emit" /\ Emit(kind, w, v).key = kind
           /\ Emit(kind, w, v).w = w /\ Emit(kind, w, v).v = v /\ Emit(kind, w, v).fail = "abort"
<1>1. "emit" \in Ops /\ "abort" \in Fails /\ 0 \in 0..n
  BY DEF Ops, Fails
<1> QED BY <1>1, StepIs, StepFields DEF Emit, None

\* A pour, and the one a creation makes.
LEMMA PourIs ==
    ASSUME NEW n \in Nat, NEW m \in Nat, NEW then \in PourKeys, NEW w \in 0..n
    PROVE  /\ Pour(m, then, w) \in Steps(n)
           /\ Pour(m, then, w).op = "pour" /\ Pour(m, then, w).key = then /\ Pour(m, then, w).fail = "abort"
           /\ OrRollback(Pour(m, then, w)) \in Steps(n)
           /\ OrRollback(Pour(m, then, w)).op = "pour" /\ OrRollback(Pour(m, then, w)).key = then
           /\ OrRollback(Pour(m, then, w)).fail = "rollback"
<1>1. "pour" \in Ops /\ "abort" \in Fails /\ "rollback" \in Fails /\ then \in Keys /\ "" \in Values
  BY DEF Ops, Calls, Fails, Keys, Values, States
<1>2. PICK e \in Values : e = ""
  BY <1>1
<1>3. \A f \in Fails : Step("pour", then, m, w, e, f) \in Steps(n)
  BY <1>1, <1>2, StepIs
<1>4. /\ Pour(m, then, w) = Step("pour", then, m, w, e, "abort")
      /\ OrRollback(Pour(m, then, w)) = Step("pour", then, m, w, e, "rollback")
  BY <1>2, Refailed DEF Pour
<1>5. Pour(m, then, w) \in Steps(n) /\ OrRollback(Pour(m, then, w)) \in Steps(n)
  BY <1>1, <1>3, <1>4
<1>6. /\ Pour(m, then, w).op = "pour" /\ Pour(m, then, w).key = then /\ Pour(m, then, w).fail = "abort"
  BY <1>4, StepFields
<1>7. /\ OrRollback(Pour(m, then, w)).op = "pour" /\ OrRollback(Pour(m, then, w)).key = then
      /\ OrRollback(Pour(m, then, w)).fail = "rollback"
  BY <1>4, StepFields
<1> QED BY <1>5, <1>6, <1>7

\* The other steps.
LEMMA DoIs ==
    ASSUME NEW n \in Nat, NEW op \in Ops \ {"set", "ref", "emit", "pour"},
           NEW w \in 0..n, NEW x \in 0..n, NEW v \in Values
    PROVE  /\ Do(op, w, x, v) \in Steps(n)
           /\ Do(op, w, x, v).op = op /\ Do(op, w, x, v).fail = "abort"
           /\ BestEffort(Do(op, w, x, v)) \in Steps(n)
           /\ BestEffort(Do(op, w, x, v)).op = op /\ BestEffort(Do(op, w, x, v)).fail = "skip"
<1>1. op \in Ops /\ "abort" \in Fails /\ "skip" \in Fails /\ "" \in Keys /\ w \in Nat
  BY DEF Fails, Keys
<1>2. op \notin {"set", "ref", "emit", "pour"}
  OBVIOUS
<1>3. PICK e \in Keys : e = ""
  BY <1>1
<1>4. \A f \in Fails : Step(op, e, w, x, v, f) \in Steps(n)
  BY <1>1, <1>2, StepIs
<1>5. /\ Do(op, w, x, v) = Step(op, e, w, x, v, "abort")
      /\ BestEffort(Do(op, w, x, v)) = Step(op, e, w, x, v, "skip")
  BY <1>3, Refailed DEF Do
<1>6. Do(op, w, x, v) \in Steps(n) /\ BestEffort(Do(op, w, x, v)) \in Steps(n)
  BY <1>1, <1>4, <1>5
<1>7. Do(op, w, x, v).op = op /\ Do(op, w, x, v).fail = "abort"
  BY <1>5, StepFields
<1>8. BestEffort(Do(op, w, x, v)).op = op /\ BestEffort(Do(op, w, x, v)).fail = "skip"
  BY <1>5, StepFields
<1> QED BY <1>6, <1>7, <1>8

\* The close of the root, and a best-effort one.
LEMMA CloseRootIs ==
    ASSUME NEW n \in Nat
    PROVE  /\ CloseRoot \in Steps(n) /\ CloseRoot.op = "close_root" /\ CloseRoot.fail = "abort"
           /\ BestEffort(CloseRoot) \in Steps(n)
           /\ BestEffort(CloseRoot).op = "close_root" /\ BestEffort(CloseRoot).fail = "skip"
<1>1. "close_root" \in Ops \ {"set", "ref", "emit", "pour"} /\ 0 \in 0..n /\ "" \in Values
  BY DEF Ops, Values, States
<1>2. PICK o \in Ops \ {"set", "ref", "emit", "pour"} : o = "close_root"
  BY <1>1
<1>3. PICK e \in Values : e = ""
  BY <1>1
<1>4. PICK z \in 0..n : z = None
  BY <1>1 DEF None
<1>5. /\ Do(o, z, z, e) \in Steps(n) /\ Do(o, z, z, e).op = o /\ Do(o, z, z, e).fail = "abort"
      /\ BestEffort(Do(o, z, z, e)) \in Steps(n)
      /\ BestEffort(Do(o, z, z, e)).op = o /\ BestEffort(Do(o, z, z, e)).fail = "skip"
  BY DoIs
<1>6. CloseRoot = Do(o, z, z, e)
  BY <1>2, <1>3, <1>4 DEF CloseRoot
<1> QED BY <1>2, <1>5, <1>6

\* The best-effort reset of the speculative wisp.
LEMMA ClearPendingIs ==
    ASSUME NEW n \in Nat
    PROVE  ClearPending \in Steps(n) /\ ClearPending.op = "ref" /\ ClearPending.fail = "skip"
<1>1. "pending" \in RefKeys /\ 0 \in 0..n
  BY DEF RefKeys
<1> QED BY <1>1, RefIs DEF ClearPending, None

-----------------------------------------------------------------------------
(* Every handler is orderly.  n is the number of wisps, c what is known of *)
(* the loop when the handler, or its branch, begins.                       *)

Fits(p, n, c) == p \in Seq(Steps(n)) /\ Orderly(p, c) /\ Uncreating(p)

\* Calm steps, and at the end perhaps one that branches.
LEMMA PlainFits ==
    ASSUME NEW n, NEW c, NEW p \in Seq(Steps(n)), Plain(p),
           p # << >> /\ p[Len(p)].op \in {"handle", "stop"} => c.state # "terminated"
    PROVE  Fits(p, n, c)
<1>1. ASSUME NEW k \in 1..Len(p), p[k].op \in {"handle", "stop"} PROVE c.state # "terminated"
  <2>1. ~Calm(p[k])
    BY <1>1 DEF Calm
  <2>2. k = Len(p) /\ p # << >>
    BY <2>1 DEF Plain
  <2> QED BY <1>1, <2>2
<1> QED BY <1>1, PlainIsOrderly DEF Fits

\* A handler may have nothing to do.
LEMMA EmptyFits ==
    ASSUME NEW n, NEW c
    PROVE  Fits(<< >>, n, c)
<1>1. << >> \in Seq(Steps(n)) /\ Len(<< >>) = 0
  OBVIOUS
<1>2. Plain(<< >>)
  BY <1>1 DEF Plain
<1> QED BY <1>1, <1>2, PlainFits

\* Short sequences of calm steps.
LEMMA OneIsPlain ==
    ASSUME NEW S, NEW a \in S, Calm(a) \/ Leaf(a)
    PROVE  <<a>> \in Seq(S) /\ Plain(<<a>>) /\ Len(<<a>>) = 1 /\ <<a>>[1] = a
<1>1. <<a>> \in Seq(S) /\ Len(<<a>>) = 1 /\ <<a>>[1] = a
  OBVIOUS
<1> QED BY <1>1 DEF Plain

\* Short handlers, written out.
LEMMA TwoArePlain ==
    ASSUME NEW S, NEW a \in S, NEW b \in S, Calm(a), Calm(b) \/ Leaf(b)
    PROVE  <<a, b>> \in Seq(S) /\ Plain(<<a, b>>) /\ Len(<<a, b>>) = 2 /\ <<a, b>>[2] = b
<1>1. <<a, b>> \in Seq(S) /\ Len(<<a, b>>) = 2 /\ <<a, b>>[1] = a /\ <<a, b>>[2] = b
  OBVIOUS
<1>2. \A k \in 1..2 : k = 1 \/ k = 2
  OBVIOUS
<1> QED BY <1>1, <1>2 DEF Plain

\* Three steps.
LEMMA ThreeArePlain ==
    ASSUME NEW S, NEW a \in S, NEW b \in S, NEW d \in S, Calm(a), Calm(b), Calm(d) \/ Leaf(d)
    PROVE  /\ <<a, b, d>> \in Seq(S) /\ Plain(<<a, b, d>>)
           /\ Len(<<a, b, d>>) = 3 /\ <<a, b, d>>[3] = d
<1>1. /\ <<a, b, d>> \in Seq(S) /\ Len(<<a, b, d>>) = 3
      /\ <<a, b, d>>[1] = a /\ <<a, b, d>>[2] = b /\ <<a, b, d>>[3] = d
  OBVIOUS
<1>2. \A k \in 1..3 : k = 1 \/ k = 2 \/ k = 3
  OBVIOUS
<1> QED BY <1>1, <1>2 DEF Plain

\* Four steps.
LEMMA FourArePlain ==
    ASSUME NEW S, NEW a \in S, NEW b \in S, NEW d \in S, NEW e \in S,
           Calm(a), Calm(b), Calm(d), Calm(e)
    PROVE  <<a, b, d, e>> \in Seq(S) /\ Plain(<<a, b, d, e>>)
           /\ Len(<<a, b, d, e>>) = 4 /\ <<a, b, d, e>>[4] = e
<1>1. /\ <<a, b, d, e>> \in Seq(S) /\ Len(<<a, b, d, e>>) = 4
      /\ <<a, b, d, e>>[1] = a /\ <<a, b, d, e>>[2] = b
      /\ <<a, b, d, e>>[3] = d /\ <<a, b, d, e>>[4] = e
  OBVIOUS
<1>2. \A k \in 1..4 : k = 1 \/ k = 2 \/ k = 3 \/ k = 4
  OBVIOUS
<1> QED BY <1>1, <1>2 DEF Plain

\* Five steps.
LEMMA FiveArePlain ==
    ASSUME NEW S, NEW a \in S, NEW b \in S, NEW d \in S, NEW e \in S, NEW f \in S,
           Calm(a), Calm(b), Calm(d), Calm(e), Calm(f)
    PROVE  <<a, b, d, e, f>> \in Seq(S) /\ Plain(<<a, b, d, e, f>>)
           /\ Len(<<a, b, d, e, f>>) = 5 /\ <<a, b, d, e, f>>[5] = f
<1>1. /\ <<a, b, d, e, f>> \in Seq(S) /\ Len(<<a, b, d, e, f>>) = 5
      /\ <<a, b, d, e, f>>[1] = a /\ <<a, b, d, e, f>>[2] = b /\ <<a, b, d, e, f>>[3] = d
      /\ <<a, b, d, e, f>>[4] = e /\ <<a, b, d, e, f>>[5] = f
  OBVIOUS
<1>2. \A k \in 1..5 : k = 1 \/ k = 2 \/ k = 3 \/ k = 4 \/ k = 5
  OBVIOUS
<1> QED BY <1>1, <1>2 DEF Plain

\* The calm steps.
LEMMA CalmSteps ==
    ASSUME NEW n \in Nat
    PROVE  /\ \A key \in SetKeys \ {"state", "treason"} : \A v \in Values :
                 Set(key, v) \in Steps(n) /\ Calm(Set(key, v))
           /\ \A v \in Running : Set("state", v) \in Steps(n) /\ Calm(Set("state", v))
           /\ \A key \in RefKeys : \A w \in 0..n :
                 /\ Ref(key, w) \in Steps(n) /\ Calm(Ref(key, w))
                 /\ BestEffort(Ref(key, w)) \in Steps(n) /\ Calm(BestEffort(Ref(key, w)))
           /\ \A w \in Nat : \A v \in Values : \A kind \in {"iteration", "terminated"} :
                 Emit(kind, w, v) \in Steps(n) /\ Calm(Emit(kind, w, v))
           /\ \A op \in {"activate", "delete", "close_wisp", "index"} : \A w \in 0..n : \A x \in 0..n :
                 \A v \in Values : Do(op, w, x, v) \in Steps(n) /\ Calm(Do(op, w, x, v))
           /\ ClearPending \in Steps(n) /\ Calm(ClearPending)
<1>1. ASSUME NEW key \in SetKeys \ {"state", "treason"}, NEW v \in Values
      PROVE  Set(key, v) \in Steps(n) /\ Calm(Set(key, v))
  BY SetIs DEF Calm
<1>2. ASSUME NEW v \in Running PROVE Set("state", v) \in Steps(n) /\ Calm(Set("state", v))
  <2>1. PICK key \in SetKeys : key = "state"
    BY DEF SetKeys
  <2>2. v \in Values /\ v \in States
    BY DEF Values, States
  <2> QED BY <2>1, <2>2, SetIs DEF Calm
<1>3. ASSUME NEW key \in RefKeys, NEW w \in 0..n
      PROVE  /\ Ref(key, w) \in Steps(n) /\ Calm(Ref(key, w))
             /\ BestEffort(Ref(key, w)) \in Steps(n) /\ Calm(BestEffort(Ref(key, w)))
  BY RefIs DEF Calm
<1>4. ASSUME NEW w \in Nat, NEW v \in Values, NEW kind \in {"iteration", "terminated"}
      PROVE  Emit(kind, w, v) \in Steps(n) /\ Calm(Emit(kind, w, v))
  <2>1. kind \in Keys
    BY DEF Keys
  <2> QED BY <2>1, EmitIs DEF Calm
<1>5. ASSUME NEW op \in {"activate", "delete", "close_wisp", "index"}, NEW w \in 0..n, NEW x \in 0..n,
             NEW v \in Values
      PROVE  Do(op, w, x, v) \in Steps(n) /\ Calm(Do(op, w, x, v))
  <2>1. op \in Ops \ {"set", "ref", "emit", "pour"}
    BY DEF Ops
  <2> QED BY <2>1, DoIs DEF Calm
<1>6. ClearPending \in Steps(n) /\ Calm(ClearPending)
  BY ClearPendingIs DEF Calm
<1> QED BY <1>1, <1>2, <1>3, <1>4, <1>5, <1>6

\* The steps that branch.
LEMMA LeafSteps ==
    ASSUME NEW n \in Nat
    PROVE  /\ \A op \in Calls \ {"pour"} : \A w \in 0..n : \A x \in 0..n : \A v \in Values :
                 /\ Do(op, w, x, v) \in Steps(n) /\ Leaf(Do(op, w, x, v))
                 /\ Do(op, w, x, v).op = op /\ Do(op, w, x, v).fail # "rollback"
           /\ \A m \in Nat : \A then \in PourKeys \ {"create"} : \A w \in 0..n :
                 /\ Pour(m, then, w) \in Steps(n) /\ Leaf(Pour(m, then, w))
                 /\ Pour(m, then, w).op = "pour"
<1>1. ASSUME NEW op \in Calls \ {"pour"}, NEW w \in 0..n, NEW x \in 0..n, NEW v \in Values
      PROVE  /\ Do(op, w, x, v) \in Steps(n) /\ Leaf(Do(op, w, x, v))
             /\ Do(op, w, x, v).op = op /\ Do(op, w, x, v).fail # "rollback"
  <2>1. op \in Ops \ {"set", "ref", "emit", "pour"}
    BY DEF Ops, Calls, Branches
  <2> QED BY <2>1, DoIs DEF Leaf
<1>2. ASSUME NEW m \in Nat, NEW then \in PourKeys \ {"create"}, NEW w \in 0..n
      PROVE  /\ Pour(m, then, w) \in Steps(n) /\ Leaf(Pour(m, then, w))
             /\ Pour(m, then, w).op = "pour"
  BY PourIs DEF Leaf, Calls
<1> QED BY <1>1, <1>2

\* Words are values.
LEMMA Words ==
    /\ {"", "approved", "no_convergence", "stopped", "partial_creation"} \subseteq Reasons
    /\ Reasons \subseteq Values
    /\ Running \subseteq Values /\ Running \subseteq States
    /\ {"set", "manual", "timeout", "sling_failure", "iterate", "pass", "fail", "forced",
        "pour_failed", "waiting_manual", "waiting_trigger", ""} \subseteq Values
    /\ {"active", "waiting_manual", "waiting_trigger"} \subseteq Running
BY DEF Reasons, Values, States, Running

\* Burning the speculative wisp.
LEMMA BurnIs ==
    ASSUME NEW n \in Nat, NEW x \in 0..n
    PROVE  burnSpeculativeWisp(x) \in Seq(Steps(n)) /\ Soft(burnSpeculativeWisp(x))
           /\ Flat(burnSpeculativeWisp(x))
<1>1. CASE x = None
  <2>1. burnSpeculativeWisp(x) = << >>
    BY <1>1 DEF burnSpeculativeWisp, When
  <2> QED BY <2>1 DEF Soft, Flat
<1>2. CASE x # None
  <2>1. PICK op \in {"activate", "delete", "close_wisp", "index"} : op = "delete"
    OBVIOUS
  <2>2. PICK z \in 0..n : z = None
    BY DEF None
  <2>3. PICK e \in Values : e = ""
    BY Words
  <2>4. PICK a \in Steps(n) : a = Do(op, x, z, e) /\ Calm(a) /\ a.op = op /\ a.fail = "abort"
    <3>1. op \in Ops \ {"set", "ref", "emit", "pour"}
      BY <2>1 DEF Ops
    <3> QED BY <3>1, CalmSteps, DoIs
  <2>5. PICK b \in Steps(n) : b = ClearPending /\ Calm(b) /\ b.op = "ref" /\ b.fail = "skip"
    BY CalmSteps, ClearPendingIs
  <2>6. burnSpeculativeWisp(x) = <<a, b>>
    BY <1>2, <2>1, <2>2, <2>3, <2>4, <2>5 DEF burnSpeculativeWisp, When
  <2>7. <<a, b>> \in Seq(Steps(n)) /\ Len(<<a, b>>) = 2 /\ <<a, b>>[1] = a /\ <<a, b>>[2] = b
    OBVIOUS
  <2>8. \A k \in 1..2 : k = 1 \/ k = 2
    OBVIOUS
  <2>9. Soft(<<a, b>>)
    BY <2>1, <2>4, <2>5, <2>7, <2>8 DEF Soft
  <2>10. Flat(<<a, b>>)
    BY <2>4, <2>5, <2>7, <2>8 DEF Flat
  <2> QED BY <2>6, <2>7, <2>9, <2>10
<1> QED BY <1>1, <1>2

\* The burn of a speculative wisp may come before any branch.
LEMMA BurnFits ==
    ASSUME NEW n \in Nat, NEW x \in 0..n, NEW c, NEW p, Fits(p, n, c)
    PROVE  Fits(burnSpeculativeWisp(x) \o p, n, c)
<1>1. burnSpeculativeWisp(x) \in Seq(Steps(n)) /\ Soft(burnSpeculativeWisp(x))
  BY BurnIs
<1>2. p \in Seq(Steps(n)) /\ Orderly(p, c) /\ Uncreating(p)
  BY DEF Fits
<1>3. burnSpeculativeWisp(x) \o p \in Seq(Steps(n))
  BY <1>1, <1>2
<1> QED BY <1>1, <1>2, <1>3, SoftJoin DEF Fits

\* The calm steps by name.
LEMMA Stock ==
    ASSUME NEW n \in Nat
    PROVE  /\ \A w \in 0..n :
                 /\ Ref("active", w) \in Steps(n) /\ Calm(Ref("active", w))
                 /\ Ref("lpw", w) \in Steps(n) /\ Calm(Ref("lpw", w))
                 /\ BestEffort(Ref("lpw", w)) \in Steps(n) /\ Calm(BestEffort(Ref("lpw", w)))
                 /\ Do("activate", w, None, "") \in Steps(n) /\ Calm(Do("activate", w, None, ""))
                 /\ Do("close_wisp", w, None, "") \in Steps(n) /\ Calm(Do("close_wisp", w, None, ""))
           /\ \A v \in Values : Set("wreason", v) \in Steps(n) /\ Calm(Set("wreason", v))
           /\ \A v \in Running : Set("state", v) \in Steps(n) /\ Calm(Set("state", v))
           /\ \A m \in Nat : \A v \in Values : Emit("iteration", m, v) \in Steps(n) /\ Calm(Emit("iteration", m, v))
           /\ ClearPending \in Steps(n) /\ Calm(ClearPending)
           /\ Do("index", None, None, "") \in Steps(n) /\ Calm(Do("index", None, None, ""))
<1>1. "active" \in RefKeys /\ "lpw" \in RefKeys /\ None \in 0..n /\ "wreason" \in SetKeys \ {"state", "treason"}
  BY DEF RefKeys, None, SetKeys
<1>2. PICK e \in Values : e = ""
  BY Words
<1>3. \A op \in {"activate", "close_wisp", "index"} : \A w \in 0..n :
          Do(op, w, None, e) \in Steps(n) /\ Calm(Do(op, w, None, e))
  BY <1>1, CalmSteps
<1>4. ASSUME NEW w \in 0..n
      PROVE  /\ Ref("active", w) \in Steps(n) /\ Calm(Ref("active", w))
             /\ Ref("lpw", w) \in Steps(n) /\ Calm(Ref("lpw", w))
             /\ BestEffort(Ref("lpw", w)) \in Steps(n) /\ Calm(BestEffort(Ref("lpw", w)))
  BY <1>1, CalmSteps
<1>5. ASSUME NEW w \in 0..n
      PROVE  /\ Do("activate", w, None, "") \in Steps(n) /\ Calm(Do("activate", w, None, ""))
             /\ Do("close_wisp", w, None, "") \in Steps(n) /\ Calm(Do("close_wisp", w, None, ""))
             /\ Do("index", w, None, "") \in Steps(n) /\ Calm(Do("index", w, None, ""))
  BY <1>2, <1>3
<1>6. \A v \in Values : Set("wreason", v) \in Steps(n) /\ Calm(Set("wreason", v))
  BY <1>1, CalmSteps
<1>7. \A m \in Nat : \A v \in Values : Emit("iteration", m, v) \in Steps(n) /\ Calm(Emit("iteration", m, v))
  BY CalmSteps
<1>8. /\ \A v \in Running : Set("state", v) \in Steps(n) /\ Calm(Set("state", v))
      /\ ClearPending \in Steps(n) /\ Calm(ClearPending)
  BY CalmSteps
<1> QED BY <1>1, <1>4, <1>5, <1>6, <1>7, <1>8

\* Holding for the operator.
LEMMA WaitManualFits ==
    ASSUME NEW n \in Nat, NEW c, NEW w \in 0..n, IterOf(w) \in Nat, NEW reason \in Values
    PROVE  Fits(transitionToWaitingManual(w, reason), n, c)
<1>0. None \in 0..n
  BY DEF None
<1>1. "waiting_manual" \in Values /\ "waiting_manual" \in Running
  BY Words
<1>2. PICK a, b, d, e, f \in Steps(n) :
         /\ a = Emit("iteration", IterOf(w), "waiting_manual") /\ Calm(a)
         /\ b = Ref("active", None) /\ Calm(b)
         /\ d = Set("wreason", reason) /\ Calm(d)
         /\ e = Set("state", "waiting_manual") /\ Calm(e)
         /\ f = Ref("lpw", w) /\ Calm(f)
  <2>1. /\ Ref("active", None) \in Steps(n) /\ Calm(Ref("active", None))
        /\ Ref("lpw", w) \in Steps(n) /\ Calm(Ref("lpw", w))
        /\ Set("wreason", reason) \in Steps(n) /\ Calm(Set("wreason", reason))
    BY <1>0, Stock
  <2>2. /\ Emit("iteration", IterOf(w), "waiting_manual") \in Steps(n)
        /\ Calm(Emit("iteration", IterOf(w), "waiting_manual"))
        /\ Set("state", "waiting_manual") \in Steps(n) /\ Calm(Set("state", "waiting_manual"))
    BY <1>1, Stock
  <2> QED BY <2>1, <2>2
<1>3. transitionToWaitingManual(w, reason) = <<a, b, d, e, f>>
  BY <1>2 DEF transitionToWaitingManual
<1>4. /\ <<a, b, d, e, f>> \in Seq(Steps(n)) /\ Plain(<<a, b, d, e, f>>)
      /\ Len(<<a, b, d, e, f>>) = 5 /\ <<a, b, d, e, f>>[5] = f
  BY <1>2, FiveArePlain
<1>5. f.op \notin {"handle", "stop"}
  BY <1>2 DEF Calm
<1> QED BY <1>3, <1>4, <1>5, PlainFits

\* Holding for the trigger.
LEMMA WaitTriggerFits ==
    ASSUME NEW n \in Nat, NEW c, NEW w \in 0..n, IterOf(w) \in Nat
    PROVE  Fits(transitionToWaitingTrigger(w), n, c)
<1>0. None \in 0..n
  BY DEF None
<1>1. "waiting_trigger" \in Values /\ "waiting_trigger" \in Running
  BY Words
<1>2. PICK a, b, d, e \in Steps(n) :
         /\ a = Emit("iteration", IterOf(w), "waiting_trigger") /\ Calm(a)
         /\ b = Ref("active", None) /\ Calm(b)
         /\ d = Set("state", "waiting_trigger") /\ Calm(d)
         /\ e = Ref("lpw", w) /\ Calm(e)
  <2>1. /\ Ref("active", None) \in Steps(n) /\ Calm(Ref("active", None))
        /\ Ref("lpw", w) \in Steps(n) /\ Calm(Ref("lpw", w))
    BY <1>0, Stock
  <2>2. /\ Emit("iteration", IterOf(w), "waiting_trigger") \in Steps(n)
        /\ Calm(Emit("iteration", IterOf(w), "waiting_trigger"))
        /\ Set("state", "waiting_trigger") \in Steps(n) /\ Calm(Set("state", "waiting_trigger"))
    BY <1>1, Stock
  <2> QED BY <2>1, <2>2
<1>3. transitionToWaitingTrigger(w) = <<a, b, d, e>>
  BY <1>2 DEF transitionToWaitingTrigger
<1>4. /\ <<a, b, d, e>> \in Seq(Steps(n)) /\ Plain(<<a, b, d, e>>)
      /\ Len(<<a, b, d, e>>) = 4 /\ <<a, b, d, e>>[4] = e
  BY <1>2, FourArePlain
<1>5. e.op \notin {"handle", "stop"}
  BY <1>2 DEF Calm
<1> QED BY <1>3, <1>4, <1>5, PlainFits

\* Going on to the next iteration.
LEMMA IterateFits ==
    ASSUME NEW n \in Nat, NEW c, NEW w \in 0..n, IterOf(w) \in Nat, NEW spec \in 0..n
    PROVE  Fits(iterate(w, spec), n, c)
<1>1. "iterate" \in Values
  BY Words
<1>2. PICK a, b, d, e, f \in Steps(n) :
         /\ a = Do("activate", spec, None, "") /\ Calm(a)
         /\ b = Emit("iteration", IterOf(w), "iterate") /\ Calm(b)
         /\ d = Ref("active", spec) /\ Calm(d)
         /\ e = Ref("lpw", w) /\ Calm(e)
         /\ f = ClearPending /\ Calm(f)
  <2>1. /\ Ref("active", spec) \in Steps(n) /\ Calm(Ref("active", spec))
        /\ Do("activate", spec, None, "") \in Steps(n) /\ Calm(Do("activate", spec, None, ""))
    BY Stock, Zenon
  <2>2. /\ Ref("lpw", w) \in Steps(n) /\ Calm(Ref("lpw", w))
        /\ ClearPending \in Steps(n) /\ Calm(ClearPending)
    BY Stock
  <2>3. /\ Emit("iteration", IterOf(w), "iterate") \in Steps(n)
        /\ Calm(Emit("iteration", IterOf(w), "iterate"))
    BY <1>1, Stock
  <2> QED BY <2>1, <2>2, <2>3, Zenon
<1>3. iterate(w, spec) = <<a, b, d, e, f>>
  BY <1>2 DEF iterate
<1>4. /\ <<a, b, d, e, f>> \in Seq(Steps(n)) /\ Plain(<<a, b, d, e, f>>)
      /\ Len(<<a, b, d, e, f>>) = 5 /\ <<a, b, d, e, f>>[5] = f
  BY <1>2, FiveArePlain
<1>5. f.op \notin {"handle", "stop"}
  BY <1>2 DEF Calm
<1> QED BY <1>3, <1>4, <1>5, PlainFits


-----------------------------------------------------------------------------
(* The handlers that end a loop with reason v.                             *)

Reports(s, v) == s.op = "emit" /\ s.key = "terminated" /\ s.w = 0 /\ s.v = v /\ s.fail = "abort"
Stores(s, v)  == SetsReason(s) /\ s.v = v /\ s.fail = "abort"
Finishes(s)   == Ends(s) /\ s.fail = "abort"
Closes(s)     == s.op = "close_root" /\ s.fail # "rollback"
Mild(s) ==
    /\ s.op \in {"set", "ref", "emit"} /\ s.fail # "rollback"
    /\ s.op = "set" => s.fail # "skip" /\ s.key # "treason" /\ s.key # "state"
    /\ s.op = "emit" => s.key # "created"

\* Step z closes the root, after the reason was stored and announced.
LEMMA EndingFits ==
    ASSUME NEW n, NEW c, NEW p \in Seq(Steps(n)), NEW v \in Reasons, Given(v),
           NEW z \in 1..Len(p), Closes(p[z]),
           \A k \in 1..Len(p) : k = z \/ Mild(p[k]) \/ Reports(p[k], v) \/ Stores(p[k], v) \/ Finishes(p[k]),
           \A k \in 1..Len(p) : z < k => p[k].op = "ref",
           c.announced =>
               /\ \E j \in 1..z - 1 : Reports(p[j], v)
               /\ c.treason = v \/ \E j \in 1..z - 1 : Stores(p[j], v)
               /\ c.state = "terminated" \/ \E j \in 1..z - 1 : Finishes(p[j])
               /\ \A k \in 1..Len(p) : Finishes(p[k]) =>
                      Given(c.treason) \/ \E j \in 1..k - 1 : Stores(p[j], v)
    PROVE  Fits(p, n, c)
<1>1. Len(p) \in Nat
  OBVIOUS
<1>2. ASSUME NEW k \in 1..Len(p)
      PROVE  /\ p[k].op \in {"set", "ref", "emit", "close_root"} /\ p[k].fail # "rollback"
             /\ p[k].op = "close_root" => k = z
             /\ ~Announces(p[k])
             /\ p[k].op = "set" => p[k].fail # "skip"
             /\ SetsReason(p[k]) => p[k].v = v
             /\ SetsState(p[k]) => Finishes(p[k])
  BY DEF Mild, Reports, Stores, Finishes, Closes, Announces, SetsReason, SetsState, Ends
<1>3. \A k \in 1..Len(p) : ~Creates(p[k])
  BY <1>2 DEF Creates
<1>4. \A k \in 1..Len(p) : SetsState(p[k]) => Ends(p[k])
  BY <1>2 DEF Finishes
<1>5. \A k \in 1..Len(p) : p[k].op \notin Calls
  BY <1>2 DEF Calls, Branches
<1>6. CallsAreLast(p)
  BY <1>5 DEF CallsAreLast
<1>7. CloseIsLast(p)
  BY <1>2 DEF CloseIsLast
<1>8. FailuresAreMarked(p, c)
  BY <1>2, <1>4 DEF FailuresAreMarked, Ends
<1>9. CreationIsWhole(p, c)
  BY <1>3 DEF CreationIsWhole
<1>10. RunsWhenAnnounced(p, c)
  BY <1>2 DEF RunsWhenAnnounced
<1>11. CloseIsAnnounced(p, c)
  <2> SUFFICES ASSUME c.announced, NEW k \in 1..Len(p), p[k].op = "close_root"
               PROVE  ClosesWith(p, c, k, v)
    BY DEF CloseIsAnnounced
  <2>1. k = z
    BY <1>2
  <2>2. \E j \in 1..k - 1 : p[j].op = "emit" /\ p[j].key = "terminated" /\ p[j].w = 0 /\ p[j].v = v
    BY <2>1 DEF Reports
  <2>3. c.treason = v \/ \E j \in 1..k - 1 : SetsReason(p[j])
    BY <2>1 DEF Stores
  <2>4. c.state = "terminated" \/ \E j \in 1..k - 1 : Ends(p[j])
    BY <2>1 DEF Finishes
  <2> QED BY <1>2, <1>4, <2>2, <2>3, <2>4 DEF ClosesWith
<1>12. ReasonComesFirst(p, c)
  <2>1. ASSUME c.announced, NEW k \in 1..Len(p), Ends(p[k])
        PROVE  Given(c.treason) \/ \E j \in 1..k - 1 : SetsReason(p[j])
    <3>1. Finishes(p[k])
      BY <1>2, <2>1 DEF Ends
    <3> QED BY <2>1, <3>1 DEF Stores
  <2> QED BY <1>2, <2>1 DEF ReasonComesFirst
<1>13. HandlesTheLiving(p, c)
  BY <1>2 DEF HandlesTheLiving
<1> QED BY <1>3, <1>6, <1>7, <1>8, <1>9, <1>10, <1>11, <1>12, <1>13 DEF Orderly, Fits, Uncreating

\* The steps of an end.
LEMMA EndingSteps ==
    ASSUME NEW n \in Nat
    PROVE  /\ \A v \in Reasons : Emit("terminated", 0, v) \in Steps(n) /\ Reports(Emit("terminated", 0, v), v)
           /\ \A v \in Reasons : Set("treason", v) \in Steps(n) /\ Stores(Set("treason", v), v)
           /\ Set("state", "terminated") \in Steps(n) /\ Finishes(Set("state", "terminated"))
           /\ CloseRoot \in Steps(n) /\ Closes(CloseRoot)
           /\ \A m \in Nat : \A v \in Values : Emit("iteration", m, v) \in Steps(n) /\ Mild(Emit("iteration", m, v))
           /\ \A v \in Values : Set("wreason", v) \in Steps(n) /\ Mild(Set("wreason", v))
           /\ \A w \in 0..n : /\ Ref("lpw", w) \in Steps(n) /\ Ref("lpw", w).op = "ref" /\ Mild(Ref("lpw", w))
                              /\ BestEffort(Ref("lpw", w)) \in Steps(n) /\ BestEffort(Ref("lpw", w)).op = "ref"
                              /\ Mild(BestEffort(Ref("lpw", w)))
<1>1. "terminated" \in Keys /\ "iteration" \in Keys /\ 0 \in Nat
  BY DEF Keys
<1>2. ASSUME NEW v \in Reasons
      PROVE  Emit("terminated", 0, v) \in Steps(n) /\ Reports(Emit("terminated", 0, v), v)
  <2>1. v \in Values
    BY Words
  <2> QED BY <1>1, <2>1, EmitIs DEF Reports
<1>3. ASSUME NEW v \in Reasons
      PROVE  Set("treason", v) \in Steps(n) /\ Stores(Set("treason", v), v)
  <2>1. v \in Values
    BY Words
  <2>2. PICK k \in SetKeys : k = "treason"
    BY DEF SetKeys
  <2> QED BY <2>1, <2>2, SetIs DEF Stores, SetsReason
<1>4. Set("state", "terminated") \in Steps(n) /\ Finishes(Set("state", "terminated"))
  <2>1. PICK t \in Values : t = "terminated" /\ t \in States
    BY DEF Values, States
  <2>2. PICK k \in SetKeys : k = "state"
    BY DEF SetKeys
  <2> QED BY <2>1, <2>2, SetIs DEF Finishes, Ends, SetsState
<1>5. CloseRoot \in Steps(n) /\ Closes(CloseRoot)
  BY CloseRootIs DEF Closes
<1>6. ASSUME NEW m \in Nat, NEW v \in Values
      PROVE  Emit("iteration", m, v) \in Steps(n) /\ Mild(Emit("iteration", m, v))
  BY <1>1, EmitIs DEF Mild
<1>7. ASSUME NEW v \in Values
      PROVE  Set("wreason", v) \in Steps(n) /\ Mild(Set("wreason", v))
  <2>1. PICK k \in SetKeys : k = "wreason"
    BY DEF SetKeys
  <2> QED BY <2>1, SetIs DEF Mild
<1>8. ASSUME NEW w \in 0..n
      PROVE  /\ Ref("lpw", w) \in Steps(n) /\ Ref("lpw", w).op = "ref" /\ Mild(Ref("lpw", w))
             /\ BestEffort(Ref("lpw", w)) \in Steps(n) /\ BestEffort(Ref("lpw", w)).op = "ref"
             /\ Mild(BestEffort(Ref("lpw", w)))
  <2>1. "lpw" \in RefKeys
    BY DEF RefKeys
  <2> QED BY <2>1, RefIs DEF Mild
<1> QED BY <1>2, <1>3, <1>4, <1>5, <1>6, <1>7, <1>8

\* Ending: the reason is reported and stored before the root is closed.
LEMMA TerminateFits ==
    ASSUME NEW n \in Nat, NEW c, NEW w \in 0..n, IterOf(w) \in Nat, NEW v \in Reasons, Given(v)
    PROVE  Fits(terminate(w, v), n, c)
<1>1. v \in Values
  BY Words
<1>2. PICK a, b, d, e, f, g \in Steps(n) :
         /\ a = Emit("iteration", IterOf(w), v) /\ Mild(a)
         /\ b = Emit("terminated", 0, v) /\ Reports(b, v)
         /\ d = Set("treason", v) /\ Stores(d, v)
         /\ e = Set("state", "terminated") /\ Finishes(e)
         /\ f = CloseRoot /\ Closes(f)
         /\ g = Ref("lpw", w) /\ Mild(g) /\ g.op = "ref"
  <2>1. Emit("iteration", IterOf(w), v) \in Steps(n) /\ Mild(Emit("iteration", IterOf(w), v))
    BY <1>1, EndingSteps
  <2>2. /\ Emit("terminated", 0, v) \in Steps(n) /\ Reports(Emit("terminated", 0, v), v)
        /\ Set("treason", v) \in Steps(n) /\ Stores(Set("treason", v), v)
        /\ Set("state", "terminated") \in Steps(n) /\ Finishes(Set("state", "terminated"))
    BY EndingSteps
  <2>3. /\ CloseRoot \in Steps(n) /\ Closes(CloseRoot)
        /\ Ref("lpw", w) \in Steps(n) /\ Mild(Ref("lpw", w)) /\ Ref("lpw", w).op = "ref"
    BY EndingSteps
  <2> QED BY <2>1, <2>2, <2>3
<1> DEFINE p == <<a, b, d, e, f, g>>
<1>3. terminate(w, v) = p
  BY <1>2 DEF terminate
<1>4. /\ p \in Seq(Steps(n)) /\ Len(p) = 6
      /\ p[1] = a /\ p[2] = b /\ p[3] = d /\ p[4] = e /\ p[5] = f /\ p[6] = g
  OBVIOUS
<1> HIDE DEF p
<1>5. /\ \A k \in 1..Len(p) : k = 5 \/ Mild(p[k]) \/ Reports(p[k], v) \/ Stores(p[k], v) \/ Finishes(p[k])
      /\ \A k \in 1..Len(p) : 5 < k => p[k].op = "ref"
  <2>1. \A k \in 1..6 : k = 1 \/ k = 2 \/ k = 3 \/ k = 4 \/ k = 5 \/ k = 6
    OBVIOUS
  <2> QED BY <1>2, <1>4, <2>1
<1>6. ASSUME NEW k \in 1..Len(p), Finishes(p[k]) PROVE \E j \in 1..k - 1 : Stores(p[j], v)
  <2>1. k = 4 \/ k = 5 \/ k = 6 \/ k = 1 \/ k = 2 \/ k = 3
    BY <1>4
  <2>2. k # 1 /\ k # 2 /\ k # 3
    BY <1>2, <1>4, <1>6 DEF Finishes, Ends, SetsState, Mild, Reports, Stores, SetsReason
  <2>3. 3 \in 1..k - 1
    BY <2>1, <2>2
  <2> QED BY <1>2, <1>4, <2>3
<1>7. 5 \in 1..Len(p) /\ 2 \in 1..5 - 1 /\ 3 \in 1..5 - 1 /\ 4 \in 1..5 - 1
  BY <1>4
<1>8. Closes(p[5]) /\ Reports(p[2], v) /\ Stores(p[3], v) /\ Finishes(p[4])
  BY <1>2, <1>4
<1>9. Fits(p, n, c)
  BY <1>4, <1>5, <1>6, <1>7, <1>8, EndingFits
<1> QED BY <1>3, <1>9

\* The operator's approval ends the loop in the same order.
LEMMA ApproveFits ==
    ASSUME NEW n \in Nat, NEW c
    PROVE  Fits(ApproveHandler, n, c)
<1>1. PICK v \in Reasons : v = "approved" /\ Given(v)
  BY Words DEF Given
<1>2. PICK m \in Values : m = ""
  BY Words
<1>3. PICK a, b, d, e, f \in Steps(n) :
         /\ a = Set("treason", v) /\ Stores(a, v)
         /\ b = Set("wreason", m) /\ Mild(b)
         /\ d = Set("state", "terminated") /\ Finishes(d)
         /\ e = Emit("terminated", 0, v) /\ Reports(e, v)
         /\ f = CloseRoot /\ Closes(f)
  <2>1. Set("wreason", m) \in Steps(n) /\ Mild(Set("wreason", m))
    BY EndingSteps
  <2>2. /\ Emit("terminated", 0, v) \in Steps(n) /\ Reports(Emit("terminated", 0, v), v)
        /\ Set("treason", v) \in Steps(n) /\ Stores(Set("treason", v), v)
    BY EndingSteps
  <2>3. /\ Set("state", "terminated") \in Steps(n) /\ Finishes(Set("state", "terminated"))
        /\ CloseRoot \in Steps(n) /\ Closes(CloseRoot)
    BY EndingSteps
  <2> QED BY <2>1, <2>2, <2>3
<1> DEFINE p == <<a, b, d, e, f>>
<1>4. ApproveHandler = p
  BY <1>1, <1>2, <1>3, Zenon DEF ApproveHandler
<1>5. /\ p \in Seq(Steps(n)) /\ Len(p) = 5
      /\ p[1] = a /\ p[2] = b /\ p[3] = d /\ p[4] = e /\ p[5] = f
  OBVIOUS
<1> HIDE DEF p
<1>6. \A k \in 1..Len(p) : k = 5 \/ Mild(p[k]) \/ Reports(p[k], v) \/ Stores(p[k], v) \/ Finishes(p[k])
  <2>1. \A k \in 1..5 : k = 1 \/ k = 2 \/ k = 3 \/ k = 4 \/ k = 5
    OBVIOUS
  <2> QED BY <1>3, <1>5, <2>1
<1>7. ASSUME NEW k \in 1..Len(p), Finishes(p[k]) PROVE \E j \in 1..k - 1 : Stores(p[j], v)
  <2>1. k # 1
    BY <1>3, <1>5, <1>7 DEF Finishes, Ends, SetsState, Stores, SetsReason
  <2>2. 1 \in 1..k - 1
    BY <1>5, <2>1
  <2> QED BY <1>3, <1>5, <2>2
<1>8. /\ 5 \in 1..Len(p) /\ 1 \in 1..5 - 1 /\ 3 \in 1..5 - 1 /\ 4 \in 1..5 - 1
      /\ \A k \in 1..Len(p) : 5 < k => p[k].op = "ref"
  BY <1>5
<1>9. Closes(p[5]) /\ Reports(p[4], v) /\ Stores(p[1], v) /\ Finishes(p[3])
  BY <1>3, <1>5
<1>10. PICK z \in 1..Len(p) : z = 5
  BY <1>8
<1>11. /\ Closes(p[z])
       /\ \A k \in 1..Len(p) : k = z \/ Mild(p[k]) \/ Reports(p[k], v) \/ Stores(p[k], v) \/ Finishes(p[k])
       /\ \A k \in 1..Len(p) : z < k => p[k].op = "ref"
       /\ \E j \in 1..z - 1 : Reports(p[j], v)
       /\ \E j \in 1..z - 1 : Stores(p[j], v)
       /\ \E j \in 1..z - 1 : Finishes(p[j])
  BY <1>6, <1>8, <1>9, <1>10
<1>12. Fits(p, n, c)
  BY <1>1, <1>5, <1>7, <1>11, EndingFits
<1> QED BY <1>4, <1>12

\* Three steps, then x, then two steps, then y.
LEMMA StopShape ==
    ASSUME NEW S, NEW a \in S, NEW b \in S, NEW d \in S, NEW e \in S, NEW f \in S,
           NEW x \in Seq(S), NEW y \in Seq(S)
    PROVE  LET p == ((<<a, b, d>> \o x) \o <<e, f>>) \o y
               z == Len(x) + 5
           IN /\ p \in Seq(S) /\ z \in Nat /\ z >= 5 /\ z \in 1..Len(p)
              /\ p[1] = a /\ p[2] = b /\ p[3] = d /\ p[z - 1] = e /\ p[z] = f
              /\ \A k \in 1..Len(p) : \/ k = 1 \/ k = 2 \/ k = 3 \/ k = z - 1 \/ k = z
                                      \/ k < z /\ k - 3 \in 1..Len(x) /\ p[k] = x[k - 3]
                                      \/ z < k /\ k - z \in 1..Len(y) /\ p[k] = y[k - z]
<1> DEFINE l == <<a, b, d>>
           r == <<e, f>>
           h == l \o x
           g == h \o r
           p == g \o y
           z == Len(x) + 5
<1>1. /\ l \in Seq(S) /\ Len(l) = 3 /\ l[1] = a /\ l[2] = b /\ l[3] = d
      /\ r \in Seq(S) /\ Len(r) = 2 /\ r[1] = e /\ r[2] = f
  OBVIOUS
<1> HIDE DEF l, r, h, g, p, z
<1>2. h \in Seq(S)
  BY <1>1 DEF h
<1>3. g \in Seq(S)
  BY <1>1, <1>2 DEF g
<1>4. p \in Seq(S)
  BY <1>3 DEF p
<1>5. /\ Len(x) \in Nat /\ Len(h) = 3 + Len(x)
      /\ \A k \in 1..3 : h[k] = l[k]
      /\ \A k \in 4..Len(h) : h[k] = x[k - 3]
  <2>1. /\ Len(l) \in Nat /\ Len(x) \in Nat /\ Len(h) = Len(l) + Len(x)
        /\ \A k \in 1..Len(h) : h[k] = IF k <= Len(l) THEN l[k] ELSE x[k - Len(l)]
    <3>1. l \in Seq(S)
      BY <1>1
    <3> QED BY <3>1 DEF h
  <2> QED BY <1>1, <2>1
<1>6. /\ Len(g) = Len(h) + 2
      /\ \A k \in 1..Len(h) : g[k] = h[k]
      /\ g[Len(h) + 1] = e /\ g[Len(h) + 2] = f
  <2>1. /\ Len(h) \in Nat /\ Len(r) \in Nat /\ Len(g) = Len(h) + Len(r)
        /\ \A k \in 1..Len(g) : g[k] = IF k <= Len(h) THEN h[k] ELSE r[k - Len(h)]
    <3>1. r \in Seq(S)
      BY <1>1
    <3> QED BY <1>2, <3>1 DEF g
  <2> QED BY <1>1, <2>1, SMTT(30)
<1>7. /\ Len(y) \in Nat /\ Len(p) = Len(g) + Len(y)
      /\ \A k \in 1..Len(g) : p[k] = g[k]
      /\ \A k \in Len(g) + 1..Len(p) : p[k] = y[k - Len(g)]
  <2>1. /\ Len(g) \in Nat /\ Len(y) \in Nat /\ Len(p) = Len(g) + Len(y)
        /\ \A k \in 1..Len(p) : p[k] = IF k <= Len(g) THEN g[k] ELSE y[k - Len(g)]
    BY <1>3 DEF p
  <2> QED BY <2>1
<1>8. z \in Nat /\ z >= 5 /\ Len(g) = z /\ Len(h) = z - 2 /\ z \in 1..Len(p)
  BY <1>5, <1>6, <1>7 DEF z
<1>9. p[1] = a /\ p[2] = b /\ p[3] = d /\ p[z - 1] = e /\ p[z] = f
  <2>1. \A k \in {1, 2, 3} : k \in 1..3 /\ k \in 1..Len(h) /\ k \in 1..Len(g)
    BY <1>8
  <2>2. \A k \in {1, 2, 3} : p[k] = l[k]
    BY <1>5, <1>6, <1>7, <2>1
  <2>3. Len(h) + 1 = z - 1 /\ Len(h) + 2 = z /\ z - 1 \in 1..Len(g) /\ z \in 1..Len(g)
    BY <1>8
  <2> QED BY <1>1, <1>6, <1>7, <2>2, <2>3
<1>10. ASSUME NEW k \in 1..Len(p)
       PROVE  \/ k = 1 \/ k = 2 \/ k = 3 \/ k = z - 1 \/ k = z
              \/ k < z /\ k - 3 \in 1..Len(x) /\ p[k] = x[k - 3]
              \/ z < k /\ k - z \in 1..Len(y) /\ p[k] = y[k - z]
  <2>1. CASE k \in 4..Len(h)
    BY <1>5, <1>6, <1>7, <1>8, <2>1, SMTT(30)
  <2>2. CASE k \in Len(g) + 1..Len(p)
    BY <1>7, <1>8, <2>2
  <2>3. k = 1 \/ k = 2 \/ k = 3 \/ k \in 4..Len(h) \/ k = z - 1 \/ k = z \/ k \in Len(g) + 1..Len(p)
    BY <1>7, <1>8, SMTT(30)
  <2> QED BY <2>1, <2>2, <2>3
<1> QED BY <1>4, <1>8, <1>9, <1>10 DEF p, g, h, l, r, z

\* What a stop writes, with the report of a wisp that was forced and the last
\* processed wisp, or without.
LEMMA StopSteps ==
    ASSUME NEW n \in Nat, NEW c, NEW v \in Reasons, Given(v), NEW x \in Seq(Steps(n)), NEW y \in Seq(Steps(n)),
           \A k \in 1..Len(x) : Mild(x[k]), \A k \in 1..Len(y) : Mild(y[k]) /\ y[k].op = "ref",
           NEW a \in Steps(n), Stores(a, v), NEW b \in Steps(n), Mild(b), NEW d \in Steps(n), Finishes(d),
           NEW e \in Steps(n), Reports(e, v), NEW f \in Steps(n), Closes(f)
    PROVE  Fits(<<a, b, d>> \o x \o <<e, f>> \o y, n, c)
<1> DEFINE p == <<a, b, d>> \o x \o <<e, f>> \o y
           z == Len(x) + 5
<1>1. /\ p \in Seq(Steps(n)) /\ z \in Nat /\ z >= 5 /\ z \in 1..Len(p)
      /\ p[1] = a /\ p[2] = b /\ p[3] = d /\ p[z - 1] = e /\ p[z] = f
      /\ \A k \in 1..Len(p) : \/ k = 1 \/ k = 2 \/ k = 3 \/ k = z - 1 \/ k = z
                              \/ k < z /\ k - 3 \in 1..Len(x) /\ p[k] = x[k - 3]
                              \/ z < k /\ k - z \in 1..Len(y) /\ p[k] = y[k - z]
  BY StopShape, SMTT(30)
<1> HIDE DEF p, z
<1>2. ASSUME NEW k \in 1..Len(p)
      PROVE  k = z \/ Mild(p[k]) \/ Reports(p[k], v) \/ Stores(p[k], v) \/ Finishes(p[k])
  BY <1>1
<1>3. ASSUME NEW k \in 1..Len(p), z < k PROVE p[k].op = "ref"
  <2>1. ~(k = 1 \/ k = 2 \/ k = 3 \/ k = z - 1 \/ k = z) /\ ~(k < z)
    BY <1>1, <1>3
  <2>2. k - z \in 1..Len(y) /\ p[k] = y[k - z]
    BY <1>1, <2>1
  <2> QED BY <2>2
<1>4. 1 \in 1..z - 1 /\ 3 \in 1..z - 1 /\ z - 1 \in 1..z - 1
  BY <1>1
<1>5. ASSUME NEW k \in 1..Len(p), Finishes(p[k]) PROVE \E j \in 1..k - 1 : Stores(p[j], v)
  <2>1. k # 1
    BY <1>1, <1>5 DEF Finishes, Ends, SetsState, Stores, SetsReason
  <2>2. 1 \in 1..k - 1
    BY <1>1, <2>1
  <2> QED BY <1>1, <2>2
<1>6. Closes(p[z]) /\ Reports(p[z - 1], v) /\ Stores(p[1], v) /\ Finishes(p[3])
  BY <1>1
<1>7. Fits(p, n, c)
  <2>1. p \in Seq(Steps(n)) /\ z \in 1..Len(p)
    BY <1>1
  <2> QED BY <1>2, <1>3, <1>4, <1>5, <1>6, <2>1, EndingFits
<1> QED BY <1>7 DEF p

\* A sequence of at most one step.
LEMMA WhenIs ==
    ASSUME NEW S, NEW t, NEW a, t => a \in S
    PROVE  /\ When(t, <<a>>) \in Seq(S)
           /\ \A k \in 1..Len(When(t, <<a>>)) : t /\ When(t, <<a>>)[k] = a
<1>1. CASE t
  <2>1. When(t, <<a>>) = <<a>> /\ <<a>> \in Seq(S)
    BY <1>1 DEF When
  <2>2. Len(<<a>>) = 1 /\ <<a>>[1] = a /\ \A k \in 1..1 : k = 1
    OBVIOUS
  <2> QED BY <1>1, <2>1, <2>2
<1>2. CASE ~t
  <2>1. When(t, <<a>>) = << >>
    BY <1>2 DEF When
  <2>2. << >> \in Seq(S) /\ \A k \in 1..Len(<< >>) : FALSE
    OBVIOUS
  <2> QED BY <2>1, <2>2
<1> QED BY <1>1, <1>2

\* So does a stop.
LEMMA StopCommitFits ==
    ASSUME NEW n \in Nat, NEW c, NEW w \in 0..n, NEW forced \in BOOLEAN,
           ClosedCount \in Nat, meta.lpw \in 0..n
    PROVE  Fits(stopCommit(w, forced), n, c)
<1> DEFINE final == IF forced THEN w ELSE meta.lpw
           x == When(forced, <<Emit("iteration", ClosedCount, "stopped")>>)
           y == When(final # None, <<Ref("lpw", final)>>)
<1>1. PICK v \in Reasons : v = "stopped" /\ Given(v) /\ v \in Values
  BY Words DEF Given
<1>2. PICK m \in Values : m = ""
  BY Words
<1>3. PICK a, b, d, e, f \in Steps(n) :
         /\ a = Set("treason", v) /\ Stores(a, v)
         /\ b = Set("wreason", m) /\ Mild(b)
         /\ d = Set("state", "terminated") /\ Finishes(d)
         /\ e = Emit("terminated", 0, v) /\ Reports(e, v)
         /\ f = CloseRoot /\ Closes(f)
  <2>1. Set("wreason", m) \in Steps(n) /\ Mild(Set("wreason", m))
    BY EndingSteps
  <2>2. /\ Emit("terminated", 0, v) \in Steps(n) /\ Reports(Emit("terminated", 0, v), v)
        /\ Set("treason", v) \in Steps(n) /\ Stores(Set("treason", v), v)
    BY EndingSteps
  <2>3. /\ Set("state", "terminated") \in Steps(n) /\ Finishes(Set("state", "terminated"))
        /\ CloseRoot \in Steps(n) /\ Closes(CloseRoot)
    BY EndingSteps
  <2> QED BY <2>1, <2>2, <2>3
<1>4. x \in Seq(Steps(n)) /\ \A k \in 1..Len(x) : Mild(x[k])
  <2>1. Emit("iteration", ClosedCount, v) \in Steps(n) /\ Mild(Emit("iteration", ClosedCount, v))
    BY <1>1, EndingSteps
  <2> QED BY <1>1, <2>1, WhenIs
<1>5. y \in Seq(Steps(n)) /\ \A k \in 1..Len(y) : Mild(y[k]) /\ y[k].op = "ref"
  <2>1. final \in 0..n
    OBVIOUS
  <2>2. Ref("lpw", final) \in Steps(n) /\ Mild(Ref("lpw", final)) /\ Ref("lpw", final).op = "ref"
    BY <2>1, EndingSteps
  <2> QED BY <2>2, WhenIs
<1>6. stopCommit(w, forced) = <<a, b, d>> \o x \o <<e, f>> \o y
  BY <1>1, <1>2, <1>3, Zenon DEF stopCommit
<1> HIDE DEF x, y
<1>7. Fits(<<a, b, d>> \o x \o <<e, f>> \o y, n, c)
  BY <1>1, <1>3, <1>4, <1>5, StopSteps
<1> QED BY <1>6, <1>7

\* Three steps and one that may follow.
LEMMA ThreeAndOne ==
    ASSUME NEW S, NEW a \in S, NEW b \in S, NEW d \in S, NEW y \in Seq(S)
    PROVE  LET p == <<a, b, d>> \o y
           IN /\ p \in Seq(S) /\ 3 \in 1..Len(p) /\ p[1] = a /\ p[2] = b /\ p[3] = d
              /\ \A k \in 1..Len(p) : k = 1 \/ k = 2 \/ k = 3 \/ (k - 3 \in 1..Len(y) /\ p[k] = y[k - 3])
<1> DEFINE l == <<a, b, d>>
           p == l \o y
<1>1. l \in Seq(S) /\ Len(l) = 3 /\ l[1] = a /\ l[2] = b /\ l[3] = d
  OBVIOUS
<1> HIDE DEF l, p
<1>2. l \in Seq(S)
  BY <1>1
<1>3. /\ p \in Seq(S) /\ Len(y) \in Nat /\ Len(p) = Len(l) + Len(y)
      /\ \A k \in 1..Len(p) : p[k] = IF k <= Len(l) THEN l[k] ELSE y[k - Len(l)]
  BY <1>2 DEF p
<1> QED BY <1>1, <1>3 DEF p, l

\* So does the completion of an end that was interrupted.
LEMMA CompleteFits ==
    ASSUME NEW n \in Nat, NEW c, HighestClosed \in 0..n, meta.treason \in Reasons, Given(meta.treason),
           c.treason = meta.treason
    PROVE  Fits(completeTerminalTransition, n, c)
<1> DEFINE y == When(HighestClosed # None, <<BestEffort(Ref("lpw", HighestClosed))>>)
<1>1. PICK v \in Reasons : v = meta.treason
  OBVIOUS
<1>2. PICK a, b, d \in Steps(n) :
         /\ a = Emit("terminated", 0, v) /\ Reports(a, v)
         /\ b = Set("state", "terminated") /\ Finishes(b)
         /\ d = CloseRoot /\ Closes(d)
  <2>1. Emit("terminated", 0, v) \in Steps(n) /\ Reports(Emit("terminated", 0, v), v)
    BY EndingSteps
  <2>2. Set("state", "terminated") \in Steps(n) /\ Finishes(Set("state", "terminated"))
    BY EndingSteps
  <2>3. CloseRoot \in Steps(n) /\ Closes(CloseRoot)
    BY EndingSteps
  <2> QED BY <2>1, <2>2, <2>3
<1>3. y \in Seq(Steps(n)) /\ \A k \in 1..Len(y) : Mild(y[k]) /\ y[k].op = "ref"
  <2>1. /\ BestEffort(Ref("lpw", HighestClosed)) \in Steps(n)
        /\ BestEffort(Ref("lpw", HighestClosed)).op = "ref"
        /\ Mild(BestEffort(Ref("lpw", HighestClosed)))
    BY EndingSteps
  <2> QED BY <2>1, WhenIs
<1>4. completeTerminalTransition = <<a, b, d>> \o y
  BY <1>1, <1>2, Zenon DEF completeTerminalTransition
<1> HIDE DEF y
<1> DEFINE p == <<a, b, d>> \o y
<1>5. /\ p \in Seq(Steps(n)) /\ 3 \in 1..Len(p) /\ p[1] = a /\ p[2] = b /\ p[3] = d
      /\ \A k \in 1..Len(p) : k = 1 \/ k = 2 \/ k = 3 \/ (k - 3 \in 1..Len(y) /\ p[k] = y[k - 3])
  BY <1>3, ThreeAndOne
<1> HIDE DEF p
<1>6. PICK z \in 1..Len(p) : z = 3
  BY <1>5
<1>7. Closes(p[z])
  BY <1>2, <1>5, <1>6
<1>8. ASSUME NEW k \in 1..Len(p)
      PROVE  /\ k = z \/ Mild(p[k]) \/ Reports(p[k], v) \/ Stores(p[k], v) \/ Finishes(p[k])
             /\ z < k => p[k].op = "ref"
  BY <1>2, <1>3, <1>5, <1>6
<1>9. (\E j \in 1..z - 1 : Reports(p[j], v)) /\ (\E j \in 1..z - 1 : Finishes(p[j]))
  <2>1. 1 \in 1..z - 1 /\ 2 \in 1..z - 1
    BY <1>6
  <2> QED BY <1>2, <1>5, <2>1
<1>10. Given(v) /\ c.treason = v /\ Given(c.treason) /\ p \in Seq(Steps(n))
  BY <1>1, <1>5
<1>11. Fits(p, n, c)
  BY <1>7, <1>8, <1>9, <1>10, EndingFits
<1> QED BY <1>4, <1>11 DEF p

\* And the close of a terminated root, whose reason is stored.
LEMMA NotClosedFits ==
    ASSUME NEW n \in Nat, NEW c, meta.treason \in Reasons, c.treason = meta.treason,
           c.state = "terminated", c.announced => Given(meta.treason)
    PROVE  Fits(reconcileTerminatedNotClosed, n, c)
<1>1. PICK v \in Reasons : /\ v = IF meta.treason = "" THEN "no_convergence" ELSE meta.treason
                           /\ Given(v)
  <2>1. "no_convergence" \in Reasons /\ Given("no_convergence")
    BY Words DEF Given
  <2> QED BY <2>1, Zenon DEF Given
<1>2. c.announced => c.treason = v
  BY <1>1, Zenon DEF Given
<1>3. PICK a, b \in Steps(n) :
         a = Emit("terminated", 0, v) /\ Reports(a, v) /\ b = CloseRoot /\ Closes(b)
  <2>1. Emit("terminated", 0, v) \in Steps(n) /\ Reports(Emit("terminated", 0, v), v)
    BY <1>1, EndingSteps
  <2>2. CloseRoot \in Steps(n) /\ Closes(CloseRoot)
    BY EndingSteps
  <2> QED BY <2>1, <2>2
<1>4. Given(v)
  BY <1>1
<1> DEFINE p == <<a, b>>
<1>5. reconcileTerminatedNotClosed = p
  BY <1>1, <1>3, Zenon DEF reconcileTerminatedNotClosed
<1>6. p \in Seq(Steps(n)) /\ Len(p) = 2 /\ p[1] = a /\ p[2] = b
  OBVIOUS
<1> HIDE DEF p
<1>7. PICK z \in 1..Len(p) : z = 2
  BY <1>6
<1>8. Closes(p[z]) /\ \A k \in 1..Len(p) : (k = z \/ Reports(p[k], v)) /\ ~(z < k)
  <2>1. \A k \in 1..2 : k = 1 \/ k = 2
    OBVIOUS
  <2> QED BY <1>3, <1>6, <1>7, <2>1
<1>9. \E j \in 1..z - 1 : Reports(p[j], v)
  <2>1. 1 \in 1..z - 1
    BY <1>7
  <2> QED BY <1>3, <1>6, <2>1
<1>10. \A k \in 1..Len(p) : ~Finishes(p[k])
  <2>1. \A k \in 1..2 : k = 1 \/ k = 2
    OBVIOUS
  <2> QED BY <1>3, <1>6, <2>1 DEF Finishes, Ends, SetsState, Reports, Closes
<1>11. Fits(p, n, c)
  BY <1>2, <1>4, <1>6, <1>7, <1>8, <1>9, <1>10, EndingFits
<1> QED BY <1>5, <1>11

\* A creation that was never announced is closed in silence.
LEMMA CreatingFits ==
    ASSUME NEW n \in Nat, NEW c, ~c.announced
    PROVE  Fits(reconcileCreating, n, c)
<1>1. PICK v \in Reasons : v = "partial_creation" /\ Given(v)
  BY Words DEF Given
<1>2. PICK a, b, d \in Steps(n) :
         /\ a = Set("treason", v) /\ Stores(a, v)
         /\ b = Set("state", "terminated") /\ Finishes(b)
         /\ d = CloseRoot /\ Closes(d)
  <2>1. Set("treason", v) \in Steps(n) /\ Stores(Set("treason", v), v)
    BY EndingSteps
  <2>2. Set("state", "terminated") \in Steps(n) /\ Finishes(Set("state", "terminated"))
    BY EndingSteps
  <2>3. CloseRoot \in Steps(n) /\ Closes(CloseRoot)
    BY EndingSteps
  <2> QED BY <2>1, <2>2, <2>3
<1> DEFINE p == <<a, b, d>>
<1>3. reconcileCreating = p
  BY <1>1, <1>2, Zenon DEF reconcileCreating
<1>4. p \in Seq(Steps(n)) /\ Len(p) = 3 /\ p[1] = a /\ p[2] = b /\ p[3] = d
  OBVIOUS
<1> HIDE DEF p
<1>5. PICK z \in 1..Len(p) : z = 3
  BY <1>4
<1>6. Closes(p[z]) /\ \A k \in 1..Len(p) : (k = z \/ Stores(p[k], v) \/ Finishes(p[k])) /\ ~(z < k)
  <2>1. \A k \in 1..3 : k = 1 \/ k = 2 \/ k = 3
    OBVIOUS
  <2> QED BY <1>2, <1>4, <1>5, <2>1
<1>7. Fits(p, n, c)
  BY <1>1, <1>4, <1>6, EndingFits
<1> QED BY <1>3, <1>7

\* The rollback of a creation that was not announced.
LEMMA CloseBeadFits ==
    ASSUME NEW n \in Nat, NEW c, ~c.announced
    PROVE  Fits(closeBead, n, c)
<1>1. PICK a, b \in Steps(n) :
         /\ a = BestEffort(Set("state", "terminated")) /\ Ends(a) /\ a.fail = "skip"
         /\ b = BestEffort(CloseRoot) /\ b.op = "close_root" /\ b.fail = "skip"
  <2>1. PICK t \in Values : t = "terminated" /\ t \in States
    BY DEF Values, States
  <2>2. PICK k \in SetKeys : k = "state"
    BY DEF SetKeys
  <2>3. /\ BestEffort(Set(k, t)) \in Steps(n) /\ Ends(BestEffort(Set(k, t)))
        /\ BestEffort(Set(k, t)).fail = "skip"
    BY <2>1, <2>2, SetIs DEF Ends, SetsState
  <2> QED BY <2>1, <2>2, <2>3, CloseRootIs
<1> DEFINE p == <<a, b>>
<1>2. closeBead = p
  BY <1>1 DEF closeBead
<1>3. p \in Seq(Steps(n)) /\ Len(p) = 2 /\ p[1] = a /\ p[2] = b
  OBVIOUS
<1> HIDE DEF p
<1>4. ASSUME NEW k \in 1..Len(p)
      PROVE  (k = 1 /\ Ends(p[k])) \/ (k = 2 /\ p[k].op = "close_root")
  <2>1. k = 1 \/ k = 2
    BY <1>3
  <2> QED BY <1>1, <1>3, <2>1
<1>5. \A k \in 1..Len(p) : /\ p[k].fail = "skip" /\ p[k].op \in {"set", "close_root"}
                           /\ ~SetsReason(p[k]) /\ (SetsState(p[k]) => p[k].v = "terminated")
  BY <1>1, <1>3, <1>4 DEF Ends, SetsState, SetsReason
<1>6. Uncreating(p)
  BY <1>5 DEF Uncreating, Creates, Announces
<1>7. CallsAreLast(p)
  BY <1>5 DEF CallsAreLast, Calls, Branches
<1>8. CloseIsLast(p)
  <2>1. ASSUME NEW j \in 1..Len(p), NEW k \in 1..Len(p), j < k, p[j].op = "close_root" PROVE FALSE
    <3>1. j = 2
      BY <1>4, <2>1 DEF Ends, SetsState
    <3> QED BY <1>3, <2>1, <3>1
  <2> QED BY <2>1 DEF CloseIsLast
<1>9. FailuresAreMarked(p, c)
  BY <1>5 DEF FailuresAreMarked
<1>10. CreationIsWhole(p, c)
  BY <1>6 DEF CreationIsWhole, Uncreating
<1>11. RunsWhenAnnounced(p, c)
  BY <1>5 DEF RunsWhenAnnounced, Announces
<1>12. CloseIsAnnounced(p, c)
  BY DEF CloseIsAnnounced
<1>13. ReasonComesFirst(p, c)
  BY <1>5 DEF ReasonComesFirst
<1>14. HandlesTheLiving(p, c)
  BY <1>5 DEF HandlesTheLiving
<1>15. Fits(p, n, c)
  BY <1>3, <1>6, <1>7, <1>8, <1>9, <1>10, <1>11, <1>12, <1>13, <1>14 DEF Orderly, Fits
<1> QED BY <1>2, <1>15

-----------------------------------------------------------------------------
(* The other branches.                                                     *)

\* Calm steps fit, and so does one that branches after them.
LEMMA FlatFits ==
    ASSUME NEW n, NEW c, NEW p \in Seq(Steps(n)), Flat(p)
    PROVE  Fits(p, n, c)
<1>1. Plain(p)
  BY DEF Plain, Flat
<1>2. ASSUME p # << >> PROVE p[Len(p)].op \notin {"handle", "stop"}
  <2>1. Len(p) \in 1..Len(p)
    BY <1>2
  <2> QED BY <2>1 DEF Flat, Calm
<1> QED BY <1>1, <1>2, PlainFits

\* Calm steps, then one that branches.
LEMMA LeafFits ==
    ASSUME NEW n, NEW c, NEW p \in Seq(Steps(n)), Flat(p), NEW l \in Steps(n), Leaf(l),
           l.op \in {"handle", "stop"} => c.state # "terminated"
    PROVE  Fits(p \o <<l>>, n, c)
<1>1. <<l>> \in Seq(Steps(n)) /\ Plain(<<l>>) /\ Len(<<l>>) = 1 /\ <<l>>[1] = l
  BY OneIsPlain
<1> DEFINE q == p \o <<l>>
<1>2. Plain(q)
  BY <1>1, FlatJoin
<1>3. q \in Seq(Steps(n)) /\ q[Len(q)] = l
  BY <1>1
<1> HIDE DEF q
<1>4. Fits(q, n, c)
  BY <1>2, <1>3, PlainFits
<1> QED BY <1>4 DEF q

\* One step that branches.
LEMMA OneLeafFits ==
    ASSUME NEW n, NEW c, NEW l \in Steps(n), Leaf(l),
           l.op \in {"handle", "stop"} => c.state # "terminated"
    PROVE  Fits(<<l>>, n, c)
<1>1. <<l>> \in Seq(Steps(n)) /\ Plain(<<l>>) /\ Len(<<l>>) = 1 /\ <<l>>[1] = l
  BY OneIsPlain
<1> QED BY <1>1, PlainFits

\* Calm steps one after another.
LEMMA FlatFlat ==
    ASSUME NEW S, NEW p \in Seq(S), NEW r \in Seq(S), Flat(p), Flat(r)
    PROVE  p \o r \in Seq(S) /\ Flat(p \o r)
<1>1. /\ p \o r \in Seq(S)
      /\ \A k \in 1..Len(p \o r) :
                 \/ k \in 1..Len(p) /\ (p \o r)[k] = p[k]
                 \/ k - Len(p) \in 1..Len(r) /\ (p \o r)[k] = r[k - Len(p)]
  BY JoinIs
<1> QED BY <1>1 DEF Flat

\* A calm step under a condition.
LEMMA WhenFlat ==
    ASSUME NEW n, NEW t, NEW a, t => a \in Steps(n) /\ Calm(a)
    PROVE  When(t, <<a>>) \in Seq(Steps(n)) /\ Flat(When(t, <<a>>))
BY WhenIs DEF Flat

\* What the gate's outcome means.
LEMMA PrepareFits ==
    ASSUME TypeInv, NEW w \in 0..Len(wisp), NEW spec \in 0..Len(wisp), NEW pf, NEW c
    PROVE  Fits(prepareOutcome(w, spec, pf), Len(wisp), c)
<1>1. Len(wisp) \in Nat /\ IterOf(w) \in Nat
  BY ViewsAreTyped
<1>2. /\ Fits(burnSpeculativeWisp(spec) \o transitionToWaitingManual(w, "timeout"), Len(wisp), c)
      /\ Fits(transitionToWaitingManual(w, "sling_failure"), Len(wisp), c)
  <2>1. "timeout" \in Values /\ "sling_failure" \in Values
    BY Words
  <2>2. /\ Fits(transitionToWaitingManual(w, "timeout"), Len(wisp), c)
        /\ Fits(transitionToWaitingManual(w, "sling_failure"), Len(wisp), c)
    BY <1>1, <2>1, WaitManualFits
  <2> QED BY <1>1, <2>2, BurnFits
<1>3. /\ Fits(burnSpeculativeWisp(spec) \o terminate(w, "approved"), Len(wisp), c)
      /\ Fits(burnSpeculativeWisp(spec) \o terminate(w, "no_convergence"), Len(wisp), c)
  <2>1. /\ "approved" \in Reasons /\ Given("approved")
        /\ "no_convergence" \in Reasons /\ Given("no_convergence")
    BY Words DEF Given
  <2>2. /\ Fits(terminate(w, "approved"), Len(wisp), c)
        /\ Fits(terminate(w, "no_convergence"), Len(wisp), c)
    BY <1>1, <2>1, TerminateFits
  <2> QED BY <1>1, <2>2, BurnFits
<1>4. Fits(transitionToWaitingTrigger(w), Len(wisp), c) /\ Fits(iterate(w, spec), Len(wisp), c)
  BY <1>1, WaitTriggerFits, IterateFits
<1> QED BY <1>2, <1>3, <1>4, Zenon DEF prepareOutcome

\* What a gate leads to.
LEMMA GateFits ==
    ASSUME TypeInv, NEW s \in Steps(Len(wisp)), s.op = "gate",
           NEW outcome \in {"pass", "fail", "timeout"}, NEW c
    PROVE  Fits(gateEvaluation(s, outcome), Len(wisp), c)
<1>1. /\ Len(wisp) \in Nat
      /\ s.w \in 0..Len(wisp) /\ s.x \in 0..Len(wisp) /\ s.v \in Values
  BY ViewsAreTyped DEF Steps
<1>2. PICK l \in Steps(Len(wisp)) : l = Do("settle", s.w, s.x, s.v) /\ Leaf(l) /\ l.op = "settle"
  <2>1. PICK op \in Calls \ {"pour"} : op = "settle"
    BY DEF Calls, Branches
  <2> QED BY <1>1, <2>1, LeafSteps
<1>3. Fits(<<l>>, Len(wisp), c)
  BY <1>2, OneLeafFits
<1>4. Fits(burnSpeculativeWisp(s.x) \o transitionToWaitingManual(s.w, "manual"), Len(wisp), c)
  <2>1. "manual" \in Values /\ IterOf(s.w) \in Nat
    BY <1>1, Words, ViewsAreTyped
  <2>2. Fits(transitionToWaitingManual(s.w, "manual"), Len(wisp), c)
    BY <1>1, <2>1, WaitManualFits
  <2> QED BY <1>1, <2>2, BurnFits
<1>5. Fits(<<OrBurn(Set("outcome", outcome), s.x), OrBurn(Ref("gated", s.w), s.x), l>>, Len(wisp), c)
  <2>1. PICK k \in SetKeys : k = "outcome"
    BY DEF SetKeys
  <2>2. PICK a \in Steps(Len(wisp)) : a = OrBurn(Set("outcome", outcome), s.x) /\ Calm(a)
    <3>1. outcome \in Values
      BY Words
    <3>2. /\ OrBurn(Set(k, outcome), s.x) \in Steps(Len(wisp)) /\ OrBurn(Set(k, outcome), s.x).op = "set"
          /\ OrBurn(Set(k, outcome), s.x).key = k /\ OrBurn(Set(k, outcome), s.x).fail = "burn"
      BY <1>1, <2>1, <3>1, SetIs
    <3> QED BY <2>1, <3>2 DEF Calm
  <2>3. PICK b \in Steps(Len(wisp)) : b = OrBurn(Ref("gated", s.w), s.x) /\ Calm(b)
    <3>1. "gated" \in RefKeys
      BY DEF RefKeys
    <3> QED BY <1>1, <3>1, RefIs DEF Calm
  <2>4. /\ <<a, b, l>> \in Seq(Steps(Len(wisp))) /\ Plain(<<a, b, l>>)
        /\ Len(<<a, b, l>>) = 3 /\ <<a, b, l>>[3] = l
    BY <1>2, <2>2, <2>3, ThreeArePlain
  <2>5. Fits(<<a, b, l>>, Len(wisp), c)
    BY <1>2, <2>4, PlainFits
  <2> QED BY <2>2, <2>3, <2>5
<1> QED BY <1>2, <1>3, <1>4, <1>5, Zenon DEF gateEvaluation

\* The steps that branch by name.
Call(op, w) == Do(op, w, None, "")
Gate(w, x)  == Do("gate", w, x, "")

\* A branching step without a value.
LEMMA CallIs ==
    ASSUME NEW n \in Nat, NEW op \in Calls \ {"pour"}, NEW w \in 0..n
    PROVE  Call(op, w) \in Steps(n) /\ Leaf(Call(op, w)) /\ Call(op, w).op = op
<1>1. PICK e \in Values : e = ""
  BY Words
<1>2. PICK z \in 0..n : z = None
  BY DEF None
<1>3. Do(op, w, z, e) \in Steps(n) /\ Leaf(Do(op, w, z, e)) /\ Do(op, w, z, e).op = op
  BY LeafSteps
<1>4. Call(op, w) = Do(op, w, z, e)
  BY <1>1, <1>2, Zenon DEF Call
<1> QED BY <1>3, <1>4

\* The gate step.
LEMMA GateIs ==
    ASSUME NEW n \in Nat, NEW w \in 0..n, NEW x \in 0..n
    PROVE  Gate(w, x) \in Steps(n) /\ Leaf(Gate(w, x)) /\ Gate(w, x).op = "gate"
<1>1. PICK e \in Values : e = ""
  BY Words
<1>2. PICK g \in Calls \ {"pour"} : g = "gate"
  BY DEF Calls
<1>3. Do(g, w, x, e) \in Steps(n) /\ Leaf(Do(g, w, x, e)) /\ Do(g, w, x, e).op = g
  BY LeafSteps
<1>4. Gate(w, x) = Do(g, w, x, e)
  BY <1>1, <1>2, Zenon DEF Gate
<1> QED BY <1>2, <1>3, <1>4

\* The last step of a stop that closed the wisp.
LEMMA ForcedIs ==
    ASSUME NEW n \in Nat, NEW w \in 0..n
    PROVE  LET f == Do("stop_commit", w, None, "forced")
           IN  f \in Steps(n) /\ Leaf(f) /\ f.op = "stop_commit"
<1>1. PICK e \in Values : e = "forced"
  BY Words
<1>2. PICK g \in Calls \ {"pour"} : g = "stop_commit"
  BY DEF Calls, Branches
<1>3. PICK z \in 0..n : z = None
  BY DEF None
<1>4. Do(g, w, z, e) \in Steps(n) /\ Leaf(Do(g, w, z, e)) /\ Do(g, w, z, e).op = g
  BY LeafSteps
<1> QED BY <1>1, <1>2, <1>3, <1>4

\* The operations that branch, by name.
LEMMA CallNames ==
    /\ "gate" \in Calls \ {"pour"}
    /\ "handle" \in Calls \ {"pour"}
    /\ "settle" \in Calls \ {"pour"}
    /\ "stop_force" \in Calls \ {"pour"}
    /\ "stop_commit" \in Calls \ {"pour"}
    /\ "stop_reread" \in Calls \ {"pour"}
    /\ "stop" \in Calls \ {"pour"}
    /\ "reconcile" \in Calls \ {"pour"}
    /\ "error" \in Calls \ {"pour"}
BY DEF Calls, Branches

\* A wisp of a loop that has not ended is handled.
LEMMA HandleFits ==
    ASSUME TypeInv, NEW w \in 0..Len(wisp), meta.state # "terminated", NEW c
    PROVE  Fits(HandleWispClosed(w), Len(wisp), c)
<1> DEFINE n == Len(wisp)
           m == IterOf(w)
           spec == validPendingNextWisp(m + 1)
           stale == When(meta.pending # None /\ spec = None, <<ClearPending>>)
<1>1. n \in Nat /\ m \in Nat /\ spec \in 0..n
  BY ViewsAreTyped
<1>2. m + 1 \in Nat
  BY <1>1
<1>3. stale \in Seq(Steps(n)) /\ Flat(stale)
  <2>1. ClearPending \in Steps(n) /\ Calm(ClearPending)
    BY <1>1, Stock
  <2> QED BY <2>1, WhenFlat
<1>4. burnSpeculativeWisp(spec) \in Seq(Steps(n)) /\ Flat(burnSpeculativeWisp(spec))
  BY <1>1, BurnIs
<1>5. PICK z \in 0..n : z = None
  BY <1>1 DEF None
<1>6. PICK er \in Steps(n) : er = Call("error", None) /\ Leaf(er) /\ er.op = "error"
  <2>1. None \in 0..n
    BY <1>5
  <2> HIDE DEF n
  <2> QED BY <1>1, <2>1, CallIs, CallNames
<1>7. PICK ga \in Steps(n) : ga = Gate(w, spec) /\ Leaf(ga) /\ ga.op = "gate"
  BY <1>1, GateIs
<1>8. PICK po \in Steps(n) : po = Pour(m + 1, "speculative", w) /\ Leaf(po) /\ po.op = "pour"
  <2>1. "speculative" \in PourKeys \ {"create"}
    BY DEF PourKeys
  <2> QED BY <1>1, <1>2, <2>1, LeafSteps
<1> HIDE DEF stale, spec, m, n
<1>9. Leaf(er) /\ er.op = "error" /\ Leaf(ga) /\ ga.op = "gate" /\ Leaf(po) /\ po.op = "pour"
  BY <1>6, <1>7, <1>8, Zenon
<1>10. Fits(<<er>>, n, c)
  BY <1>9, OneLeafFits
<1>11. Fits(stale \o burnSpeculativeWisp(spec) \o <<er>>, n, c)
  <2>1. stale \o burnSpeculativeWisp(spec) \in Seq(Steps(n)) /\ Flat(stale \o burnSpeculativeWisp(spec))
    BY <1>3, <1>4, FlatFlat
  <2> QED BY <1>9, <2>1, LeafFits
<1>12. Fits(stale \o <<po>>, n, c) /\ Fits(stale \o <<ga>>, n, c)
  BY <1>3, <1>9, LeafFits
<1>13. Fits(<< >>, n, c)
  BY EmptyFits
<1>14. \/ HandleWispClosed(w) = <<er>>
       \/ HandleWispClosed(w) = << >>
       \/ HandleWispClosed(w) = stale \o burnSpeculativeWisp(spec) \o <<er>>
       \/ HandleWispClosed(w) = stale \o <<po>>
       \/ HandleWispClosed(w) = stale \o <<ga>>
  BY <1>6, <1>7, <1>8, Zenon DEF HandleWispClosed, stale, spec, m, Call, Gate
<1>15. Fits(HandleWispClosed(w), n, c)
  BY <1>10, <1>11, <1>12, <1>13, <1>14, Zenon
<1> QED BY <1>15 DEF n

\* A pair of steps, joined.
LEMMA PairIs ==
    ASSUME NEW S, NEW a \in S, NEW b \in S
    PROVE  <<a>> \o <<b>> = <<a, b>>
<1> DEFINE p == <<a>> \o <<b>>
           q == <<a, b>>
<1>1. q \in Seq(S) /\ Len(q) = 2 /\ q[1] = a /\ q[2] = b
  OBVIOUS
<1>2. p \in Seq(S) /\ Len(p) = 2 /\ p[1] = a /\ p[2] = b
  OBVIOUS
<1> HIDE DEF p, q
<1>3. \A k \in 1..2 : k = 1 \/ k = 2
  OBVIOUS
<1>4. p = q
  BY <1>1, <1>2, <1>3, SeqEqual
<1> QED BY <1>4 DEF p, q

\* The first half of a stop.
LEMMA StopDrainFits ==
    ASSUME TypeInv, NEW c, c.state # "terminated"
    PROVE  Fits(stopDrain, Len(wisp), c)
<1> DEFINE n == Len(wisp)
           w == IF meta.active = None \/ Exists(meta.active) THEN meta.active ELSE recoverCurrentActiveWisp
<1>1. n \in Nat /\ w \in 0..n
  BY ViewsAreTyped
<1> HIDE DEF n, w
<1>2. PICK h \in Steps(n) : h = Call("handle", w) /\ Leaf(h) /\ h.op = "handle"
  BY <1>1, CallIs, CallNames
<1>3. PICK r \in Steps(n) : r = Call("stop_reread", None) /\ Leaf(r) /\ r.op = "stop_reread"
  <2>1. None \in 0..n
    BY <1>1 DEF None
  <2> QED BY <1>1, <2>1, CallIs, CallNames
<1>4. PICK f \in Steps(n) : f = Call("stop_force", w) /\ Leaf(f) /\ f.op = "stop_force"
  BY <1>1, CallIs, CallNames
<1>5. Leaf(h) /\ h.op = "handle" /\ Leaf(r) /\ r.op = "stop_reread" /\ Leaf(f) /\ f.op = "stop_force"
  BY <1>2, <1>3, <1>4, Zenon
<1>6. Fits(<<h>>, n, c) /\ Fits(<<f>>, n, c)
  BY <1>5, OneLeafFits
<1>7. Fits(<<h>> \o <<r>>, n, c)
  <2>1. <<h>> \in Seq(Steps(n)) /\ Orderly(<<h>>, c) /\ Uncreating(<<h>>)
    BY <1>6 DEF Fits
  <2>2. <<r>> \in Seq(Steps(n)) /\ Len(<<r>>) = 1 /\ <<r>>[1] = r /\ \A k \in 1..1 : k = 1
    OBVIOUS
  <2>3. Trailing(<<r>>)
    BY <1>5, <2>2 DEF Trailing, Leaf
  <2>4. <<h>> \o <<r>> \in Seq(Steps(n))
    OBVIOUS
  <2> QED BY <2>1, <2>2, <2>3, <2>4, TrailJoin DEF Fits
<1>8. <<h>> \o <<r>> = <<h, r>>
  BY PairIs
<1>9. stopDrain = <<h, r>> \/ stopDrain = <<f>>
  BY <1>2, <1>3, <1>4, Zenon DEF stopDrain, w, Call
<1>10. Fits(stopDrain, n, c)
  BY <1>6, <1>7, <1>8, <1>9, Zenon
<1> QED BY <1>10 DEF n

\* Its second half.
LEMMA StopForceFits ==
    ASSUME TypeInv, NEW active \in 0..Len(wisp), NEW c
    PROVE  Fits(stopForce(active), Len(wisp), c)
<1> DEFINE n == Len(wisp)
           w == IF active = None \/ Exists(active) THEN active ELSE recoverCurrentActiveWisp
<1>1. n \in Nat /\ w \in 0..n
  BY ViewsAreTyped
<1> HIDE DEF n, w
<1>2. PICK f \in Steps(n) : f = Do("stop_commit", w, None, "forced") /\ Leaf(f) /\ f.op = "stop_commit"
  BY <1>1, ForcedIs
<1>3. PICK g \in Steps(n) : g = Call("stop_commit", w) /\ Leaf(g) /\ g.op = "stop_commit"
  BY <1>1, CallIs, CallNames
<1>4. PICK k \in Steps(n) : k = Do("close_wisp", w, None, "") /\ Calm(k)
  BY <1>1, Stock, Zenon
<1>5. Leaf(f) /\ f.op = "stop_commit" /\ Leaf(g) /\ g.op = "stop_commit" /\ Calm(k)
  BY <1>2, <1>3, <1>4, Zenon
<1>6. Fits(<<g>>, n, c)
  BY <1>5, OneLeafFits
<1>7. Fits(<<k, f>>, n, c)
  <2>1. <<k, f>> \in Seq(Steps(n)) /\ Plain(<<k, f>>) /\ Len(<<k, f>>) = 2 /\ <<k, f>>[2] = f
    BY <1>5, TwoArePlain
  <2> QED BY <1>5, <2>1, PlainFits
<1>8. stopForce(active) = <<k, f>> \/ stopForce(active) = <<g>>
  BY <1>2, <1>3, <1>4, Zenon DEF stopForce, w, Call
<1>9. Fits(stopForce(active), n, c)
  BY <1>6, <1>7, <1>8, Zenon
<1> QED BY <1>9 DEF n

\* What a stop does when its drain is over.
LEMMA RereadFits ==
    ASSUME TypeInv, NEW c
    PROVE  Fits(IF meta.state = "terminated" THEN << >> ELSE <<Do("stop_force", meta.active, None, "")>>,
                Len(wisp), c)
<1> DEFINE n == Len(wisp)
<1>1. n \in Nat /\ meta.active \in 0..n
  BY ViewsAreTyped
<1> HIDE DEF n
<1>2. PICK f \in Steps(n) : f = Call("stop_force", meta.active) /\ Leaf(f) /\ f.op = "stop_force"
  BY <1>1, CallIs, CallNames
<1>3. Leaf(f) /\ f.op = "stop_force"
  BY <1>2, Zenon
<1>4. Fits(<<f>>, n, c) /\ Fits(<< >>, n, c)
  BY <1>3, OneLeafFits, EmptyFits
<1> QED BY <1>2, <1>4, Zenon DEF n, Call

\* What follows a pour that does not create the loop.
LEMMA AfterPourFits ==
    ASSUME NEW n \in Nat, NEW s, s.key \in PourKeys \ {"create"}, s.x \in 0..n, NEW i \in 0..n, NEW c
    PROVE  Fits(AfterPour(s, i), n, c)
<1>1. PICK e \in Values : e = ""
  BY Words
<1>2. PICK ac \in Steps(n) : ac = Ref("active", i) /\ Calm(ac)
  BY Stock
<1>3. PICK st \in Steps(n) : st = Set("state", "active") /\ Calm(st)
  <2>1. "active" \in Running
    BY Words
  <2> QED BY <2>1, Stock
<1>4. PICK wr \in Steps(n) : wr = Set("wreason", e) /\ Calm(wr)
  BY Stock
<1>5. PICK av \in Steps(n) : av = Do("activate", i, None, "") /\ Calm(av)
  BY Stock, Zenon
<1>6. PICK cp \in Steps(n) : cp = ClearPending /\ Calm(cp)
  BY Stock
<1>7. PICK pe \in Steps(n) : pe = OrBurn(Ref("pending", i), i) /\ Calm(pe)
  <2>1. "pending" \in RefKeys
    BY DEF RefKeys
  <2> QED BY <2>1, RefIs DEF Calm
<1>8. PICK ga \in Steps(n) : ga = Gate(s.x, i) /\ Leaf(ga) /\ ga.op = "gate"
  BY GateIs
<1>9. /\ Calm(ac) /\ Calm(st) /\ Calm(wr) /\ Calm(av) /\ Calm(cp) /\ Calm(pe)
      /\ Leaf(ga) /\ ga.op = "gate"
  BY <1>2, <1>3, <1>4, <1>5, <1>6, <1>7, <1>8, Zenon
<1>10. Fits(<<pe, ga>>, n, c)
  <2>1. <<pe, ga>> \in Seq(Steps(n)) /\ Plain(<<pe, ga>>) /\ Len(<<pe, ga>>) = 2 /\ <<pe, ga>>[2] = ga
    BY <1>9, TwoArePlain
  <2> QED BY <1>9, <2>1, PlainFits
<1>11. Fits(<<wr, st, ac>>, n, c) /\ Fits(<<av, ac, st>>, n, c) /\ Fits(<<av, ac, cp>>, n, c)
  <2>1. ASSUME NEW a \in Steps(n), NEW b \in Steps(n), NEW d \in Steps(n), Calm(a), Calm(b), Calm(d)
        PROVE  Fits(<<a, b, d>>, n, c)
    <3>1. /\ <<a, b, d>> \in Seq(Steps(n)) /\ Plain(<<a, b, d>>)
          /\ Len(<<a, b, d>>) = 3 /\ <<a, b, d>>[3] = d
      BY <2>1, ThreeArePlain
    <3>2. d.op \notin {"handle", "stop"}
      BY <2>1 DEF Calm
    <3> QED BY <3>1, <3>2, PlainFits
  <2> QED BY <1>9, <2>1
<1>12. Fits(<<ac, st>>, n, c)
  <2>1. <<ac, st>> \in Seq(Steps(n)) /\ Plain(<<ac, st>>) /\ Len(<<ac, st>>) = 2 /\ <<ac, st>>[2] = st
    BY <1>9, TwoArePlain
  <2>2. st.op \notin {"handle", "stop"}
    BY <1>9 DEF Calm
  <2> QED BY <2>1, <2>2, PlainFits
<1>13. CASE s.key = "speculative"
  <2>1. AfterPour(s, i) = <<pe, ga>>
    BY <1>7, <1>8, <1>13, Zenon DEF AfterPour, Gate
  <2> QED BY <1>10, <2>1
<1>14. CASE s.key = "manual"
  <2>1. AfterPour(s, i) = <<wr, st, ac>>
    BY <1>1, <1>2, <1>3, <1>4, <1>14, Zenon DEF AfterPour
  <2> QED BY <1>11, <2>1
<1>15. CASE s.key = "trigger"
  <2>1. AfterPour(s, i) = <<av, ac, st>>
    BY <1>2, <1>3, <1>5, <1>15, Zenon DEF AfterPour
  <2> QED BY <1>11, <2>1
<1>16. CASE s.key = "first"
  <2>1. AfterPour(s, i) = <<ac, st>>
    BY <1>2, <1>3, <1>16, Zenon DEF AfterPour
  <2> QED BY <1>12, <2>1
<1>17. CASE s.key = "recover"
  <2>1. AfterPour(s, i) = <<av, ac, cp>>
    BY <1>2, <1>5, <1>6, <1>17, Zenon DEF AfterPour
  <2> QED BY <1>11, <2>1
<1> QED BY <1>13, <1>14, <1>15, <1>16, <1>17 DEF PourKeys

-----------------------------------------------------------------------------
(* Startup reconciliation.                                                 *)

\* Reconciling a loop that holds for the operator.
LEMMA WaitingManualFits ==
    ASSUME TypeInv, NEW c, c.treason = meta.treason
    PROVE  Fits(reconcileWaitingManual, Len(wisp), c)
<1> DEFINE n == Len(wisp)
           a == When(HighestClosed \notin {None, meta.lpw}, <<Ref("lpw", HighestClosed)>>)
           b == When(HighestClosed # None, <<Set("wreason", "manual")>>)
<1>1. n \in Nat /\ HighestClosed \in 0..n /\ meta.treason \in Reasons
  BY ViewsAreTyped
<1>2. Given(meta.treason) => Fits(completeTerminalTransition, n, c)
  BY <1>1, CompleteFits
<1>3. Fits(a, n, c)
  <2>1. Ref("lpw", HighestClosed) \in Steps(n) /\ Calm(Ref("lpw", HighestClosed))
    BY <1>1, Stock
  <2>2. a \in Seq(Steps(n)) /\ Flat(a)
    BY <2>1, WhenFlat
  <2> QED BY <2>2, FlatFits
<1>4. Fits(b, n, c)
  <2>1. Set("wreason", "manual") \in Steps(n) /\ Calm(Set("wreason", "manual"))
    BY <1>1, Stock, Words
  <2>2. b \in Seq(Steps(n)) /\ Flat(b)
    BY <2>1, WhenFlat
  <2> QED BY <2>2, FlatFits
<1> HIDE DEF n
<1>5. Fits(reconcileWaitingManual, n, c)
  BY <1>2, <1>3, <1>4, Zenon DEF reconcileWaitingManual, Given
<1> QED BY <1>5 DEF n

\* Reconciling a loop that holds for its trigger.
LEMMA WaitingTriggerFits ==
    ASSUME TypeInv, NEW c, c.treason = meta.treason
    PROVE  Fits(reconcileWaitingTrigger, Len(wisp), c)
<1> DEFINE n == Len(wisp)
<1>1. n \in Nat /\ HighestClosed \in 0..n /\ meta.treason \in Reasons
  BY ViewsAreTyped
<1>2. Given(meta.treason) => Fits(completeTerminalTransition, n, c)
  BY <1>1, CompleteFits
<1>3. Fits(<< >>, n, c)
  BY EmptyFits
<1> HIDE DEF n
<1>5. Fits(reconcileWaitingTrigger, n, c)
  BY <1>2, <1>3, Zenon DEF reconcileWaitingTrigger, Given
<1> QED BY <1>5 DEF n

\* Adopting or pouring the next wisp.
LEMMA RebuildFits ==
    ASSUME TypeInv, NEW c
    PROVE  Fits(rebuildChain, Len(wisp), c)
<1> DEFINE n == Len(wisp)
           m == ClosedCount + 1
           next == IF validPendingNextWisp(m) # None THEN meta.pending ELSE FindByIdempotencyKey(m)
           p == When(meta.pending # None /\ validPendingNextWisp(m) = None, <<ClearPending>>)
<1>1. n \in Nat /\ m \in Nat /\ next \in 0..n
  <2>1. n \in Nat /\ ClosedCount \in Nat /\ meta.pending \in 0..n
    BY ViewsAreTyped
  <2>2. FindByIdempotencyKey(m) \in 0..n
    BY FindIs
  <2> QED BY <2>1, <2>2
<1>2. p \in Seq(Steps(n)) /\ Flat(p)
  <2>1. ClearPending \in Steps(n) /\ Calm(ClearPending)
    BY <1>1, Stock
  <2> QED BY <2>1, WhenFlat
<1>3. PICK po \in Steps(n) : po = Pour(m, "recover", None) /\ Leaf(po) /\ po.op = "pour"
  <2>1. "recover" \in PourKeys \ {"create"} /\ None \in 0..n
    BY <1>1 DEF PourKeys, None
  <2> QED BY <1>1, <2>1, LeafSteps
<1>4. PICK av \in Steps(n) : av = Do("activate", next, None, "") /\ Calm(av)
  <2> HIDE DEF n, next
  <2> QED BY <1>1, Stock, Zenon
<1>5. PICK ac \in Steps(n) : ac = Ref("active", next) /\ Calm(ac)
  BY <1>1, Stock
<1>6. PICK cp \in Steps(n) : cp = ClearPending /\ Calm(cp)
  BY <1>1, Stock
<1> HIDE DEF n, m, next, p
<1>7. Leaf(po) /\ po.op = "pour" /\ Calm(av) /\ Calm(ac) /\ Calm(cp)
  BY <1>3, <1>4, <1>5, <1>6, Zenon
<1>8. Fits(p \o <<po>>, n, c)
  BY <1>2, <1>7, LeafFits
<1>9. Fits(p \o <<av, ac, cp>>, n, c)
  <2> DEFINE r == <<av, ac, cp>>
  <2>1. r \in Seq(Steps(n)) /\ Len(r) = 3 /\ r[1] = av /\ r[2] = ac /\ r[3] = cp
    OBVIOUS
  <2> HIDE DEF r
  <2>2. Flat(r)
    <3>1. \A k \in 1..3 : k = 1 \/ k = 2 \/ k = 3
      OBVIOUS
    <3> QED BY <1>7, <2>1, <3>1 DEF Flat
  <2>3. p \o r \in Seq(Steps(n)) /\ Flat(p \o r)
    BY <1>2, <2>1, <2>2, FlatFlat
  <2> QED BY <2>3, FlatFits DEF r
<1>10. rebuildChain = p \o <<po>> \/ rebuildChain = p \o <<av, ac, cp>>
  BY <1>3, <1>4, <1>5, <1>6, Zenon DEF rebuildChain, p, next, m
<1>11. Fits(rebuildChain, n, c)
  BY <1>8, <1>9, <1>10, Zenon
<1> QED BY <1>11 DEF n

\* Reconciling a root without a state.
LEMMA MissingStateFits ==
    ASSUME TypeInv, NEW c, c.state # "terminated"
    PROVE  Fits(reconcileMissingState, Len(wisp), c)
<1> DEFINE n == Len(wisp)
           w == FindByIdempotencyKey(1)
<1>1. n \in Nat /\ w \in 0..n
  BY ViewsAreTyped, FindIs
<1>2. PICK po \in Steps(n) : po = Pour(1, "first", None) /\ Leaf(po) /\ po.op = "pour"
  <2>1. "first" \in PourKeys \ {"create"} /\ None \in 0..n /\ 1 \in Nat
    BY <1>1 DEF PourKeys, None
  <2> QED BY <1>1, <2>1, LeafSteps
<1>3. PICK ac \in Steps(n) : ac = Ref("active", w) /\ Calm(ac)
  BY <1>1, Stock
<1>4. PICK st \in Steps(n) : st = Set("state", "active") /\ Calm(st)
  <2>1. "active" \in Running
    BY Words
  <2> QED BY <1>1, <2>1, Stock
<1> HIDE DEF n, w
<1>5. PICK h \in Steps(n) : h = Call("handle", w) /\ Leaf(h) /\ h.op = "handle"
  BY <1>1, CallIs, CallNames
<1> DEFINE r == <<ac, st>>
<1>6. r \in Seq(Steps(n)) /\ Flat(r)
  <2>1. r \in Seq(Steps(n)) /\ Len(r) = 2 /\ r[1] = ac /\ r[2] = st
    OBVIOUS
  <2> HIDE DEF r
  <2>2. \A k \in 1..2 : k = 1 \/ k = 2
    OBVIOUS
  <2> QED BY <1>3, <1>4, <2>1, <2>2 DEF Flat
<1> HIDE DEF r
<1>7. Fits(r \o <<h>>, n, c)
  BY <1>5, <1>6, LeafFits
<1>8. Fits(r \o << >>, n, c)
  <2>1. r \o << >> = r
    BY <1>6
  <2> QED BY <1>6, <2>1, FlatFits
<1>9. Fits(<<po>>, n, c)
  BY <1>2, OneLeafFits
<1>10. \/ reconcileMissingState = <<po>>
       \/ reconcileMissingState = r \o <<h>>
       \/ reconcileMissingState = r \o << >>
  BY <1>2, <1>3, <1>4, <1>5, Zenon DEF reconcileMissingState, w, r, Call, When
<1>11. Fits(reconcileMissingState, n, c)
  BY <1>7, <1>8, <1>9, <1>10, Zenon
<1> QED BY <1>11 DEF n

\* Reconciling an active loop.
LEMMA ActiveFits ==
    ASSUME TypeInv, NEW c, c.treason = meta.treason, c.state # "terminated"
    PROVE  Fits(reconcileActive, Len(wisp), c)
<1> DEFINE n == Len(wisp)
           lost == meta.active # None /\ ~Exists(meta.active)
           w == IF lost THEN recoverCurrentActiveWisp ELSE meta.active
           p == When(lost, <<Ref("active", w)>>)
<1>1. n \in Nat /\ HighestClosed \in 0..n /\ meta.treason \in Reasons /\ w \in 0..n
  BY ViewsAreTyped
<1>2. Given(meta.treason) => Fits(completeTerminalTransition, n, c)
  BY <1>1, CompleteFits
<1>3. Fits(rebuildChain, n, c)
  BY RebuildFits
<1>4. p \in Seq(Steps(n)) /\ Flat(p)
  <2>1. Ref("active", w) \in Steps(n) /\ Calm(Ref("active", w))
    BY <1>1, Stock
  <2> QED BY <2>1, WhenFlat
<1> HIDE DEF n, w, p
<1>5. PICK h \in Steps(n) : h = Call("handle", w) /\ Leaf(h) /\ h.op = "handle"
  BY <1>1, CallIs, CallNames
<1>6. Fits(p \o <<h>>, n, c)
  BY <1>4, <1>5, LeafFits
<1>7. Fits(p \o << >>, n, c)
  <2>1. p \o << >> = p
    BY <1>4
  <2> QED BY <1>4, <2>1, FlatFits
<1>8. \/ reconcileActive = completeTerminalTransition /\ Given(meta.treason)
      \/ reconcileActive = rebuildChain
      \/ reconcileActive = p \o <<h>>
      \/ reconcileActive = p \o << >>
  <2>1. CASE Given(meta.treason)
    BY <2>1, Zenon DEF reconcileActive, Given
  <2>2. CASE ~Given(meta.treason)
    <3>1. \/ reconcileActive = rebuildChain
          \/ reconcileActive = p \o When(Closed(w) /\ meta.lpw # w, <<Do("handle", w, None, "")>>)
      BY <2>2, Zenon DEF reconcileActive, Given, p, w
    <3>2. \/ When(Closed(w) /\ meta.lpw # w, <<Do("handle", w, None, "")>>) = <<h>>
          \/ When(Closed(w) /\ meta.lpw # w, <<Do("handle", w, None, "")>>) = << >>
      BY <1>5, Zenon DEF When, Call
    <3> QED BY <3>1, <3>2, Zenon
  <2> QED BY <2>1, <2>2
<1>9. Fits(reconcileActive, n, c)
  BY <1>2, <1>3, <1>6, <1>7, <1>8, Zenon
<1> QED BY <1>9 DEF n

\* A reconciliation of the loop as it is.
LEMMA ReconcileFits ==
    ASSUME TypeInv, EndHasReason
    PROVE  Fits(reconcileState, Len(wisp), Now)
<1> DEFINE n == Len(wisp)
<1>1. n \in Nat /\ meta.treason \in Reasons /\ meta.state \in States
  BY ViewsAreTyped
<1>2. Now.announced = Announced /\ Now.state = meta.state /\ Now.treason = meta.treason
  BY DEF Now
<1>3. CASE root # "open"
  <2>1. reconcileState = << >>
    BY <1>3 DEF reconcileState
  <2> QED BY <2>1, EmptyFits
<1>4. CASE root = "open"
  <2>1. CASE meta.state = ""
    <3>1. reconcileState = reconcileMissingState
      BY <1>4, <2>1, Zenon DEF reconcileState
    <3>2. Now.state # "terminated"
      BY <1>2, <2>1, Zenon
    <3> QED BY <3>1, <3>2, MissingStateFits
  <2>2. CASE meta.state = "creating"
    <3>1. reconcileState = reconcileCreating
      BY <1>4, <2>2, Zenon DEF reconcileState
    <3>2. ~Now.announced
      BY <1>2, <2>2 DEF EndHasReason
    <3> QED BY <1>1, <3>1, <3>2, CreatingFits
  <2>3. CASE meta.state = "terminated"
    <3>1. reconcileState = reconcileTerminatedNotClosed
      BY <1>4, <2>3, Zenon DEF reconcileState
    <3>2. Now.announced => Given(meta.treason)
      BY <1>2, <2>3 DEF EndHasReason
    <3> QED BY <1>1, <1>2, <2>3, <3>1, <3>2, NotClosedFits
  <2>4. CASE meta.state = "waiting_manual"
    <3>1. reconcileState = reconcileWaitingManual
      BY <1>4, <2>4, Zenon DEF reconcileState
    <3> QED BY <1>2, <3>1, WaitingManualFits
  <2>5. CASE meta.state = "waiting_trigger"
    <3>1. reconcileState = reconcileWaitingTrigger
      BY <1>4, <2>5, Zenon DEF reconcileState
    <3> QED BY <1>2, <3>1, WaitingTriggerFits
  <2>6. CASE meta.state = "active"
    <3>1. reconcileState = reconcileActive
      BY <1>4, <2>6, Zenon DEF reconcileState
    <3>2. Now.state # "terminated"
      BY <1>2, <2>6
    <3> QED BY <1>2, <3>1, <3>2, ActiveFits
  <2> QED BY <1>1, <2>1, <2>2, <2>3, <2>4, <2>5, <2>6, Zenon DEF States, Running
<1> QED BY <1>3, <1>4

-----------------------------------------------------------------------------
(* The creation of a loop.                                                 *)

\* A step of a creation that is not its last one.
Builds(s) ==
    /\ \/ s.op = "create" /\ s.fail = "abort"
       \/ s.op \in {"set", "ref"} /\ s.fail = "rollback"
    /\ ~SetsReason(s) /\ ~Ends(s)

\* The announcement, or the pour before it.
Crowns(s) ==
    \/ Announces(s) /\ s.fail = "abort"
    \/ s.op = "pour" /\ s.key = "create" /\ s.fail = "rollback"

\* A creation: building steps, and one that crowns them.
LEMMA CreationIsOrderly ==
    ASSUME NEW S, NEW p \in Seq(S), p # << >>, NEW c, ~c.announced, c.root # "closed",
           \A k \in 1..Len(p) : k < Len(p) => Builds(p[k]),
           Crowns(p[Len(p)]),
           c.root = "open" \/ \E j \in 1..Len(p) - 1 : p[j].op = "create",
           \/ c.state \in Running /\ \A j \in 1..Len(p) - 1 : ~SetsState(p[j])
           \/ \E j \in 1..Len(p) - 1 : /\ SetsState(p[j]) /\ p[j].v \in Running
                                       /\ \A i \in j + 1..Len(p) - 1 : ~SetsState(p[i])
    PROVE  Orderly(p, c)
<1>1. Len(p) \in Nat \ {0} /\ Len(p) \in 1..Len(p)
  OBVIOUS
<1>2. \A k \in 1..Len(p) : k < Len(p) \/ k = Len(p)
  BY <1>1
<1>3. ASSUME NEW k \in 1..Len(p)
      PROVE  /\ Creates(p[k]) /\ ~SetsReason(p[k]) /\ ~Ends(p[k])
             /\ p[k].op \in {"create", "set", "ref", "emit", "pour"}
             /\ p[k].op \in {"emit", "pour"} => k = Len(p)
             /\ p[k].fail = "abort" \/ p[k].fail = "rollback"
             /\ p[k].op \in {"set", "ref", "pour"} => p[k].fail = "rollback"
             /\ p[k].op = "create" => p[k].fail = "abort"
  <2>1. CASE k < Len(p)
    <3>1. Builds(p[k])
      BY <2>1
    <3>2. Creates(p[k])
      BY <3>1 DEF Builds, Creates
    <3> QED BY <3>1, <3>2 DEF Builds
  <2>2. CASE k = Len(p)
    <3>1. Crowns(p[k])
      BY <2>2
    <3> QED BY <2>2, <3>1 DEF Crowns, Creates, Announces, SetsReason, Ends, SetsState
  <2> QED BY <1>2, <2>1, <2>2
<1>4. CallsAreLast(p)
  <2> SUFFICES ASSUME NEW j \in 1..Len(p), NEW k \in 1..Len(p), j < k, p[j].op \in Calls PROVE FALSE
    BY DEF CallsAreLast
  <2>1. p[j].op = "pour"
    BY <1>3 DEF Calls, Branches
  <2>2. j = Len(p)
    BY <1>3, <2>1
  <2> QED BY <1>1, <2>2
<1>5. CloseIsLast(p)
  BY <1>3 DEF CloseIsLast
<1>6. FailuresAreMarked(p, c)
  BY <1>3 DEF FailuresAreMarked, SetsState
<1>7. CreationIsWhole(p, c)
  BY <1>3 DEF CreationIsWhole
<1>8. RunsWhenAnnounced(p, c)
  <2>1. ASSUME NEW k \in 1..Len(p), Announces(p[k]) \/ (p[k].op = "pour" /\ p[k].key = "create")
        PROVE  k = Len(p)
    BY <1>3, <2>1 DEF Announces
  <2> QED BY <2>1 DEF RunsWhenAnnounced
<1>9. CloseIsAnnounced(p, c)
  BY DEF CloseIsAnnounced
<1>10. ReasonComesFirst(p, c)
  BY <1>3 DEF ReasonComesFirst
<1>11. HandlesTheLiving(p, c)
  BY <1>3 DEF HandlesTheLiving
<1> QED BY <1>4, <1>5, <1>6, <1>7, <1>8, <1>9, <1>10, <1>11 DEF Orderly

\* The writes of a creation.
LEMMA BuildSteps ==
    ASSUME NEW n \in Nat
    PROVE  /\ \A v \in States \ {"terminated"} :
                 LET s == OrRollback(Set("state", v))
                 IN  s \in Steps(n) /\ Builds(s) /\ SetsState(s) /\ s.v = v
           /\ LET s == OrRollback(Set("formula", "set"))
              IN  s \in Steps(n) /\ Builds(s) /\ ~SetsState(s)
           /\ \A i \in 0..n : LET s == OrRollback(Ref("active", i))
                              IN  s \in Steps(n) /\ Builds(s) /\ ~SetsState(s)
           /\ LET s == OrRollback(Pour(1, "create", None)) IN s \in Steps(n) /\ Crowns(s)
<1>1. ASSUME NEW v \in States \ {"terminated"}
      PROVE  LET s == OrRollback(Set("state", v))
             IN  s \in Steps(n) /\ Builds(s) /\ SetsState(s) /\ s.v = v
  <2>1. PICK k \in SetKeys : k = "state"
    BY DEF SetKeys
  <2>2. v \in Values /\ v \in States /\ v # "terminated"
    BY DEF Values
  <2> DEFINE s == OrRollback(Set(k, v))
  <2>3. s \in Steps(n) /\ s.op = "set" /\ s.key = k /\ s.v = v /\ s.fail = "rollback"
    BY <2>1, <2>2, SetIs
  <2> HIDE DEF s
  <2>4. s \in Steps(n) /\ Builds(s) /\ SetsState(s) /\ s.v = v
    BY <2>1, <2>2, <2>3 DEF Builds, SetsState, SetsReason, Ends
  <2> QED BY <2>1, <2>4 DEF s
<1>2. LET s == OrRollback(Set("formula", "set")) IN s \in Steps(n) /\ Builds(s) /\ ~SetsState(s)
  <2>1. PICK k \in SetKeys : k = "formula"
    BY DEF SetKeys
  <2>2. PICK v \in Values : v = "set"
    BY Words
  <2> DEFINE s == OrRollback(Set(k, v))
  <2>3. s \in Steps(n) /\ s.op = "set" /\ s.key = k /\ s.v = v /\ s.fail = "rollback"
    BY <2>1, <2>2, SetIs
  <2> HIDE DEF s
  <2>4. s \in Steps(n) /\ Builds(s) /\ ~SetsState(s)
    BY <2>1, <2>2, <2>3 DEF Builds, SetsState, SetsReason, Ends
  <2> QED BY <2>1, <2>2, <2>4 DEF s
<1>3. ASSUME NEW i \in 0..n
      PROVE  LET s == OrRollback(Ref("active", i)) IN s \in Steps(n) /\ Builds(s) /\ ~SetsState(s)
  <2>1. "active" \in RefKeys
    BY DEF RefKeys
  <2> QED BY <2>1, RefIs DEF Builds, SetsState, SetsReason, Ends
<1>4. LET s == OrRollback(Pour(1, "create", None)) IN s \in Steps(n) /\ Crowns(s)
  <2>1. "create" \in PourKeys /\ 1 \in Nat /\ None \in 0..n
    BY DEF PourKeys, None
  <2> QED BY <2>1, PourIs DEF Crowns
<1> QED BY <1>1, <1>2, <1>3, <1>4

Created == Emit("created", 0, "")

\* The announcement.
LEMMA CreatedIs ==
    ASSUME NEW n \in Nat
    PROVE  Created \in Steps(n) /\ Crowns(Created) /\ Announces(Created)
<1>1. PICK e \in Values : e = ""
  BY Words
<1>2. PICK k \in Keys : k = "created"
  BY DEF Keys
<1>3. Emit(k, 0, e) \in Steps(n) /\ Crowns(Emit(k, 0, e)) /\ Announces(Emit(k, 0, e))
  BY <1>2, EmitIs DEF Crowns, Announces
<1> QED BY <1>1, <1>2, <1>3, Zenon DEF Created

\* The handler of a creation, with and without a trigger.
LEMMA CreateOrderly ==
    ASSUME NEW n \in Nat, NEW c, ~c.announced, c.root # "closed"
    PROVE  CreateHandler \in Seq(Steps(n)) /\ Orderly(CreateHandler, c)
<1>1. PICK a \in Steps(n) : a = Do("create", None, None, "") /\ Builds(a) /\ a.op = "create"
  <2>1. PICK o \in Ops \ {"set", "ref", "emit", "pour"} : o = "create"
    BY DEF Ops
  <2>2. PICK e \in Values : e = ""
    BY Words
  <2>3. PICK z \in 0..n : z = None
    BY DEF None
  <2>4. Do(o, z, z, e) \in Steps(n) /\ Do(o, z, z, e).op = o /\ Do(o, z, z, e).fail = "abort"
    BY DoIs
  <2>5. Builds(Do(o, z, z, e))
    BY <2>1, <2>4 DEF Builds, SetsReason, Ends, SetsState
  <2> QED BY <2>1, <2>2, <2>3, <2>4, <2>5, Zenon
<1>2. PICK b \in Steps(n) : b = OrRollback(Set("state", "creating")) /\ Builds(b)
  <2>1. "creating" \in States \ {"terminated"}
    BY DEF States
  <2> QED BY <2>1, BuildSteps
<1>3. PICK d \in Steps(n) : d = OrRollback(Set("formula", "set")) /\ Builds(d)
  BY BuildSteps
<1>4. \A v \in Running : \E e \in Steps(n) :
          e = OrRollback(Set("state", v)) /\ Builds(e) /\ SetsState(e) /\ e.v = v
  <2>1. \A v \in Running : v \in States \ {"terminated"}
    BY DEF States, Running
  <2> QED BY <2>1, BuildSteps
<1>5. "waiting_trigger" \in Running /\ "active" \in Running
  BY Words
<1>6. PICK e \in Steps(n) : e = OrRollback(Set("state", "waiting_trigger")) /\ Builds(e) /\ SetsState(e) /\ e.v \in Running
  BY <1>4, <1>5
<1>7. PICK g \in Steps(n) : g = OrRollback(Set("state", "active")) /\ Builds(g) /\ SetsState(g) /\ g.v \in Running
  BY <1>4, <1>5
<1>8. PICK po \in Steps(n) : po = OrRollback(Pour(1, "create", None)) /\ Crowns(po)
  BY BuildSteps
<1>9. PICK cr \in Steps(n) : cr = Created /\ Crowns(cr)
  BY CreatedIs
<1>10. Builds(a) /\ a.op = "create"
  BY <1>1, Zenon
<1>11. ASSUME NEW x \in Steps(n), Builds(x), SetsState(x), x.v \in Running, NEW y \in Steps(n), Crowns(y)
       PROVE  <<a, b, d, x, y>> \in Seq(Steps(n)) /\ Orderly(<<a, b, d, x, y>>, c)
  <2> DEFINE p == <<a, b, d, x, y>>
  <2>1. /\ p \in Seq(Steps(n)) /\ Len(p) = 5
        /\ p[1] = a /\ p[2] = b /\ p[3] = d /\ p[4] = x /\ p[5] = y
    OBVIOUS
  <2> HIDE DEF p
  <2>2. \A k \in 1..5 : k = 1 \/ k = 2 \/ k = 3 \/ k = 4 \/ k = 5
    OBVIOUS
  <2>3. ASSUME NEW k \in 1..Len(p), k < Len(p) PROVE Builds(p[k])
    BY <1>2, <1>3, <1>10, <1>11, <2>1, <2>2, <2>3
  <2>4. Crowns(p[Len(p)]) /\ p # << >>
    BY <1>11, <2>1
  <2>5. \E j \in 1..Len(p) - 1 : p[j].op = "create"
    <3>1. 1 \in 1..Len(p) - 1
      BY <2>1
    <3> QED BY <1>10, <2>1, <3>1
  <2>6. \E j \in 1..Len(p) - 1 : /\ SetsState(p[j]) /\ p[j].v \in Running
                                 /\ \A i \in j + 1..Len(p) - 1 : ~SetsState(p[i])
    <3>1. 4 \in 1..Len(p) - 1 /\ \A i \in 4 + 1..Len(p) - 1 : FALSE
      BY <2>1
    <3> QED BY <1>11, <2>1, <3>1
  <2>7. Orderly(p, c)
    BY <2>1, <2>3, <2>4, <2>5, <2>6, CreationIsOrderly
  <2> QED BY <2>1, <2>7 DEF p
<1>12. /\ <<a, b, d, e, cr>> \in Seq(Steps(n)) /\ Orderly(<<a, b, d, e, cr>>, c)
       /\ <<a, b, d, g, po>> \in Seq(Steps(n)) /\ Orderly(<<a, b, d, g, po>>, c)
  BY <1>6, <1>7, <1>8, <1>9, <1>11
<1>13. /\ <<a, b, d>> \o <<e, cr>> = <<a, b, d, e, cr>>
       /\ <<a, b, d>> \o <<g, po>> = <<a, b, d, g, po>>
  <2>1. ASSUME NEW x \in Steps(n), NEW y \in Steps(n)
        PROVE  <<a, b, d>> \o <<x, y>> = <<a, b, d, x, y>>
    <3>1. /\ <<x, y>> \in Seq(Steps(n)) /\ Len(<<x, y>>) = 2
          /\ <<x, y>>[1] = x /\ <<x, y>>[2] = y
      OBVIOUS
    <3> DEFINE r == <<x, y>>
               l == <<a, b, d>>
               p == l \o r
               q == <<a, b, d, x, y>>
    <3>2. q \in Seq(Steps(n)) /\ Len(q) = 5 /\ q[1] = a /\ q[2] = b /\ q[3] = d /\ q[4] = x /\ q[5] = y
      OBVIOUS
    <3>3. l \in Seq(Steps(n)) /\ Len(l) = 3 /\ l[1] = a /\ l[2] = b /\ l[3] = d
      OBVIOUS
    <3>4. r \in Seq(Steps(n)) /\ Len(r) = 2 /\ r[1] = x /\ r[2] = y
      BY <3>1
    <3> HIDE DEF r, l, q
    <3>5. /\ p \in Seq(Steps(n)) /\ Len(p) = Len(l) + Len(r)
          /\ \A k \in 1..Len(p) : p[k] = IF k <= Len(l) THEN l[k] ELSE r[k - Len(l)]
      <4>1. l \in Seq(Steps(n)) /\ r \in Seq(Steps(n))
        BY <3>3, <3>4
      <4> QED BY <4>1
    <3> HIDE DEF p
    <3>6. Len(p) = 5 /\ p[1] = a /\ p[2] = b /\ p[3] = d /\ p[4] = x /\ p[5] = y
      BY <3>3, <3>4, <3>5
    <3>7. \A k \in 1..5 : k = 1 \/ k = 2 \/ k = 3 \/ k = 4 \/ k = 5
      OBVIOUS
    <3>8. p = q
      BY <3>2, <3>5, <3>6, <3>7, SeqEqual
    <3> QED BY <3>8 DEF p, q, l, r
  <2> QED BY <2>1
<1>14. CreateHandler = <<a, b, d>> \o <<e, cr>> \/ CreateHandler = <<a, b, d>> \o <<g, po>>
  BY <1>1, <1>2, <1>3, <1>6, <1>7, <1>8, <1>9, Zenon DEF CreateHandler, Created
<1> QED BY <1>12, <1>13, <1>14, Zenon

\* What follows the pour of a creation.
LEMMA AfterCreatePour ==
    ASSUME NEW n \in Nat, NEW s, s.key = "create", NEW i \in 0..n, NEW c, ~c.announced,
           c.root = "open", c.state \in Running
    PROVE  AfterPour(s, i) \in Seq(Steps(n)) /\ Orderly(AfterPour(s, i), c)
<1>1. PICK a \in Steps(n) : a = OrRollback(Ref("active", i)) /\ Builds(a) /\ ~SetsState(a)
  BY BuildSteps
<1>2. PICK b \in Steps(n) : b = Created /\ Crowns(b)
  BY CreatedIs
<1> DEFINE p == <<a, b>>
<1>3. AfterPour(s, i) = p
  BY <1>1, <1>2, Zenon DEF AfterPour, Created
<1>4. p \in Seq(Steps(n)) /\ Len(p) = 2 /\ p[1] = a /\ p[2] = b
  OBVIOUS
<1> HIDE DEF p
<1>5. \A k \in 1..2 : k = 1 \/ k = 2
  OBVIOUS
<1>6. ASSUME NEW k \in 1..Len(p), k < Len(p) PROVE Builds(p[k]) /\ ~SetsState(p[k])
  BY <1>1, <1>4, <1>5, <1>6
<1>7. Crowns(p[Len(p)]) /\ p # << >>
  <2>1. p # << >>
    <3>1. ASSUME p = << >> PROVE Len(p) = 0
      BY <3>1
    <3> QED BY <1>4, <3>1
  <2> QED BY <1>2, <1>4, <2>1
<1>8. \A j \in 1..Len(p) - 1 : ~SetsState(p[j])
  BY <1>4, <1>6
<1>9. Orderly(p, c)
  BY <1>4, <1>6, <1>7, <1>8, CreationIsOrderly
<1> QED BY <1>3, <1>4, <1>9

-----------------------------------------------------------------------------
(* The steps of the specification.                                         *)

\* The types grow with the wisps.
LEMMA TypesGrow ==
    ASSUME NEW n \in Nat, NEW m \in Nat, n <= m
    PROVE  Steps(n) \subseteq Steps(m) /\ Metas(n) \subseteq Metas(m) /\ Seq(Steps(n)) \subseteq Seq(Steps(m))
<1>1. \A k \in 0..n : k \in 0..m
  OBVIOUS
<1>2. Steps(n) \subseteq Steps(m)
  BY <1>1 DEF Steps
<1>3. Metas(n) \subseteq Metas(m)
  BY <1>1 DEF Metas
<1>4. ASSUME NEW q \in Seq(Steps(n)) PROVE q \in Seq(Steps(m))
  BY <1>2
<1> QED BY <1>2, <1>3, <1>4

\* The branch a handler takes, before what follows it.
LEMMA JoinFits ==
    ASSUME NEW n, NEW c, NEW p, Fits(p, n, c), NEW q \in Seq(Steps(n)), q # << >>,
           Orderly(q, c), q[1].op \in Calls
    PROVE  p \o Tail(q) \in Seq(Steps(n)) /\ Orderly(p \o Tail(q), c)
<1>1. p \in Seq(Steps(n)) /\ Orderly(p, c) /\ Uncreating(p)
  BY DEF Fits
<1>2. Tail(q) \in Seq(Steps(n))
  BY TailIs
<1>3. Trailing(Tail(q))
  BY TailOfCall
<1> QED BY <1>1, <1>2, <1>3, TrailJoin, JoinIs

\* The head of the handler that runs.
LEMMA HeadIs ==
    ASSUME LoopInv, todo # << >>
    PROVE  /\ Len(wisp) \in Nat /\ todo \in Seq(Steps(Len(wisp))) /\ Len(todo) \in Nat
           /\ s0 = todo[1] /\ s0 \in Steps(Len(wisp)) /\ 1 \in 1..Len(todo)
           /\ Tail(todo) \in Seq(Steps(Len(wisp)))
           /\ s0.op \notin {"ref", "delete", "stop_reread", "index", "reconcile"} =>
                 ~(root = "closed" /\ Announced)
           /\ root = "closed" /\ Announced => Over(Tail(todo))
<1>1. Len(wisp) \in Nat /\ todo \in Seq(Steps(Len(wisp)))
  BY DEF LoopInv, TypeInv
<1>2. /\ Tail(todo) \in Seq(Steps(Len(wisp)))
      /\ Len(todo) \in Nat \ {0} /\ Head(todo) = todo[1]
      /\ \A k \in 1..Len(todo) : todo[k] \in Steps(Len(wisp))
      /\ \A k \in 1..Len(Tail(todo)) : k + 1 \in 1..Len(todo) /\ Tail(todo)[k] = todo[k + 1]
  BY <1>1, TailIs
<1>3. 1 \in 1..Len(todo)
  BY <1>2
<1>4. s0 = todo[1] /\ s0 \in Steps(Len(wisp))
  BY <1>2, <1>3 DEF s0
<1>5. root = "closed" /\ Announced => Over(todo)
  BY DEF LoopInv, ClosedIsOver
<1>6. s0.op \notin {"ref", "delete", "stop_reread", "index", "reconcile"} =>
          ~(root = "closed" /\ Announced)
  BY <1>3, <1>4, <1>5 DEF Over
<1>7. root = "closed" /\ Announced => Over(Tail(todo))
  BY <1>2, <1>5 DEF Over
<1> QED BY <1>1, <1>2, <1>3, <1>4, <1>6, <1>7

\* A step that leaves the root alone.
LEMMA SameStory ==
    ASSUME LoopInv, UNCHANGED <<loop, root, meta, told>>,
           wisp' \in Seq(Wisps), Len(wisp') >= Len(wisp),
           \E b \in Nat : \A i \in 1..Len(wisp') : wisp'[i].iter <= b,
           todo' \in Seq(Steps(Len(wisp'))), Orderly(todo', Now),
           root = "closed" /\ Announced => Over(todo')
    PROVE  LoopInv'
<1>1. Now' = Now /\ (Announced' <=> Announced)
  BY DEF Now, Announced
<1>2. Len(wisp) \in Nat /\ Len(wisp') \in Nat
  BY DEF LoopInv, TypeInv
<1>3. TypeInv'
  <2>1. meta \in Metas(Len(wisp'))
    BY <1>2, TypesGrow DEF LoopInv, TypeInv
  <2>2. loop' \in Loops /\ root' \in {"none", "open", "closed"}
    BY DEF LoopInv, TypeInv
  <2> QED BY <2>1, <2>2 DEF TypeInv
<1>4. Orderly(todo, Now)'
  BY <1>1
<1>5. EndHasReason'
  BY <1>1 DEF LoopInv, EndHasReason
<1>6. ClosedIsOver'
  BY <1>1 DEF LoopInv, ClosedIsOver
<1> QED BY <1>3, <1>4, <1>5, <1>6 DEF LoopInv

\* A step that leaves the wisps alone too.
LEMMA SameWisps ==
    ASSUME LoopInv, UNCHANGED <<loop, root, meta, wisp, told>>,
           todo' \in Seq(Steps(Len(wisp))), Orderly(todo', Now),
           root = "closed" /\ Announced => Over(todo')
    PROVE  LoopInv'
<1>1. wisp' \in Seq(Wisps) /\ Len(wisp') >= Len(wisp)
  BY DEF LoopInv, TypeInv
<1>2. \E b \in Nat : \A i \in 1..Len(wisp') : wisp'[i].iter <= b
  BY DEF LoopInv, TypeInv
<1>3. todo' \in Seq(Steps(Len(wisp')))
  OBVIOUS
<1> QED BY <1>1, <1>2, <1>3, SameStory

\* A handler begins.
LEMMA FreshHandler ==
    ASSUME LoopInv, UNCHANGED <<loop, root, meta, wisp, told>>,
           Fits(todo', Len(wisp), Now), root = "closed" /\ Announced => Over(todo')
    PROVE  LoopInv'
BY SameWisps DEF Fits

\* A wisp changes its status.
LEMMA StatusChange ==
    ASSUME LoopInv, NEW i \in 1..Len(wisp), NEW st \in {"spec", "live", "closed", "gone"},
           wisp' = [wisp EXCEPT ![i].st = st]
    PROVE  /\ wisp' \in Seq(Wisps) /\ Len(wisp') = Len(wisp)
           /\ \A j \in 1..Len(wisp) : wisp'[j].iter = wisp[j].iter /\ wisp'[j].st = IF j = i THEN st ELSE wisp[j].st
           /\ \E b \in Nat : \A j \in 1..Len(wisp') : wisp'[j].iter <= b
<1>1. wisp \in Seq(Wisps) /\ Len(wisp) \in Nat /\ DOMAIN wisp = 1..Len(wisp)
  BY DEF LoopInv, TypeInv
<1>2. \A j \in 1..Len(wisp) : wisp[j] \in Wisps
  BY <1>1
<1>3. [wisp[i] EXCEPT !.st = st] \in Wisps /\ [wisp[i] EXCEPT !.st = st].iter = wisp[i].iter
      /\ [wisp[i] EXCEPT !.st = st].st = st
  BY <1>2 DEF Wisps
<1>4. wisp' = [wisp EXCEPT ![i] = [wisp[i] EXCEPT !.st = st]]
  OBVIOUS
<1>5. wisp' \in Seq(Wisps) /\ Len(wisp') = Len(wisp)
  BY <1>1, <1>3, <1>4
<1>6. \A j \in 1..Len(wisp) : wisp'[j] = IF j = i THEN [wisp[i] EXCEPT !.st = st] ELSE wisp[j]
  BY <1>1, <1>4
<1>7. \A j \in 1..Len(wisp) : wisp'[j].iter = wisp[j].iter /\ wisp'[j].st = IF j = i THEN st ELSE wisp[j].st
  BY <1>3, <1>6
<1>8. \E b \in Nat : \A j \in 1..Len(wisp) : wisp[j].iter <= b
  BY DEF LoopInv, TypeInv
<1> QED BY <1>5, <1>7, <1>8

\* A pour adds at most one wisp.
LEMMA PouredIs ==
    ASSUME LoopInv, NEW n \in Nat, NEW kind
    PROVE  LET q == Poured(n, kind)
           IN /\ q \in Seq(Wisps) /\ Len(q) >= Len(wisp) /\ Len(q) \in Nat
              /\ \E b \in Nat : \A j \in 1..Len(q) : q[j].iter <= b
              /\ Found(n) # None => q = wisp
              /\ Found(n) = None =>
                    /\ Len(q) = Len(wisp) + 1 /\ q[Len(wisp) + 1].iter = n
                    /\ \A j \in 1..Len(wisp) : q[j] = wisp[j]
<1>1. wisp \in Seq(Wisps) /\ Len(wisp) \in Nat
  BY DEF LoopInv, TypeInv
<1>2. PICK b \in Nat : \A j \in 1..Len(wisp) : wisp[j].iter <= b
  BY DEF LoopInv, TypeInv
<1>3. CASE Found(n) # None
  <2>1. Poured(n, kind) = wisp
    BY <1>3 DEF Poured
  <2>2. Len(wisp) >= Len(wisp)
    BY <1>1
  <2>3. \E d \in Nat : \A j \in 1..Len(wisp) : wisp[j].iter <= d
    BY <1>2, Zenon
  <2> QED BY <1>1, <1>3, <2>1, <2>2, <2>3
<1>4. CASE Found(n) = None
  <2> DEFINE r == [iter |-> n, st |-> IF kind = "speculative" THEN "spec" ELSE "live"]
             q == Append(wisp, r)
  <2>1. r \in Wisps /\ r.iter = n
    BY DEF Wisps
  <2> HIDE DEF r
  <2>2. /\ q \in Seq(Wisps) /\ Len(q) = Len(wisp) + 1 /\ q[Len(wisp) + 1] = r
        /\ \A j \in 1..Len(wisp) : q[j] = wisp[j]
    BY <1>1, <2>1
  <2> HIDE DEF q
  <2>3. PICK d \in Nat : b <= d /\ n <= d
    <3>1. b <= n \/ n <= b
      OBVIOUS
    <3> QED BY <3>1
  <2>4. ASSUME NEW j \in 1..Len(q) PROVE q[j].iter <= d
    <3>1. wisp \in Seq(Wisps) /\ \A i \in 1..Len(wisp) : wisp[i] \in Wisps
      BY <1>1
    <3>2. CASE j \in 1..Len(wisp)
      <4>1. wisp[j].iter \in Nat /\ wisp[j].iter <= b
        BY <1>2, <3>1, <3>2 DEF Wisps
      <4> QED BY <2>2, <2>3, <3>2, <4>1
    <3>3. CASE j = Len(wisp) + 1
      BY <2>1, <2>2, <2>3, <3>3
    <3> QED BY <1>1, <2>2, <3>2, <3>3
  <2>5. Poured(n, kind) = q
    BY <1>4 DEF Poured, q, r
  <2>6. Len(q) >= Len(wisp) /\ Len(q) \in Nat /\ q[Len(wisp) + 1].iter = n
    BY <1>1, <2>1, <2>2
  <2> QED BY <1>4, <2>2, <2>4, <2>5, <2>6
<1> QED BY <1>3, <1>4

\* No loop yet.
LEMMA LoopInit ==
    ASSUME Init
    PROVE  LoopInv
<1>1. wisp = << >> /\ todo = << >> /\ told = {} /\ root = "none" /\ loop \in Loops
  BY DEF Init
<1>2. Len(wisp) = 0 /\ wisp \in Seq(Wisps) /\ todo \in Seq(Steps(Len(wisp))) /\ Len(todo) = 0
  BY <1>1
<1>3. meta \in Metas(0)
  <2>1. "" \in States /\ "" \in Values /\ "" \in Reasons
    BY DEF States, Values, Reasons
  <2>2. None \in 0..0
    BY DEF None
  <2>3. PICK e \in States : e = "" /\ e \in Values /\ e \in Reasons
    BY <2>1, Zenon
  <2>4. meta = [state |-> e, formula |-> e, treason |-> e, wreason |-> e, outcome |-> e,
                active |-> None, lpw |-> None, pending |-> None, gated |-> None]
    BY <2>3, Zenon DEF Init
  <2>5. e \in States /\ e \in Values /\ e \in Reasons
    BY <2>3, Zenon
  <2> QED BY <2>2, <2>4, <2>5 DEF Metas
<1>4. TypeInv
  <2>1. \E b \in Nat : \A i \in 1..Len(wisp) : wisp[i].iter <= b
    BY <1>2
  <2> QED BY <1>1, <1>2, <1>3, <2>1 DEF TypeInv
<1>5. ~Announced
  BY <1>1 DEF Announced
<1>6. Orderly(todo, Now)
  BY <1>1, <1>2, EmptyFits DEF Fits
<1> QED BY <1>4, <1>5, <1>6 DEF LoopInv, EndHasReason, ClosedIsOver

-----------------------------------------------------------------------------
(* Beginnings.                                                             *)

\* A closed loop that was announced is in no state that a command accepts.
LEMMA NotOver ==
    ASSUME LoopInv, meta.state # "terminated"
    PROVE  ~(root = "closed" /\ Announced)
BY DEF LoopInv, ClosedIsOver

\* What is known of the loop, field by field.
LEMMA NowIs ==
    /\ (Now.announced <=> Announced) /\ Now.root = root /\ Now.state = meta.state
    /\ Now.treason = meta.treason /\ Now.told = told
BY DEF Now

\* The startup scan.
LEMMA StartupFits ==
    ASSUME NEW n \in Nat, NEW c
    PROVE  Fits(StartupReconcile, n, c) /\ Over(StartupReconcile)
<1>0. None \in 0..n
  BY DEF None
<1>1. PICK a \in Steps(n) : a = Call("reconcile", None) /\ Leaf(a) /\ a.op = "reconcile"
  BY <1>0, CallIs, CallNames
<1>2. PICK o \in Ops \ {"set", "ref", "emit", "pour"} : o = "index"
  BY DEF Ops
<1>3. PICK e \in Values : e = ""
  BY Words
<1>4. PICK b \in Steps(n) : b = Do(o, None, None, e) /\ b.op = o /\ b.fail = "abort"
  BY <1>0, DoIs
<1>5. b.op = "index" /\ b.fail = "abort"
  BY <1>2, <1>4
<1>6. StartupReconcile = <<a, b>>
  BY <1>1, <1>2, <1>3, <1>4, Zenon DEF StartupReconcile, Call
<1>7. Fits(<<a>>, n, c)
  BY <1>1, OneLeafFits
<1>8. <<b>> \in Seq(Steps(n)) /\ Len(<<b>>) = 1 /\ <<b>>[1] = b /\ \A k \in 1..1 : k = 1
  <2> HIDE <1>3
  <2> QED OBVIOUS
<1>9. Trailing(<<b>>)
  BY <1>5, <1>8 DEF Trailing
<1>10. <<a>> \o <<b>> = <<a, b>>
  BY PairIs
<1>11. Fits(<<a>> \o <<b>>, n, c)
  <2>1. <<a>> \in Seq(Steps(n)) /\ Orderly(<<a>>, c) /\ Uncreating(<<a>>)
    BY <1>7 DEF Fits
  <2>2. <<b>> \in Seq(Steps(n))
    BY <1>8
  <2>3. <<a>> \o <<b>> \in Seq(Steps(n))
    BY <2>1, <2>2, JoinIs
  <2> QED BY <1>9, <2>1, <2>2, <2>3, TrailJoin DEF Fits
<1>12. Over(<<a, b>>)
  <2>1. Len(<<a, b>>) = 2 /\ <<a, b>>[1] = a /\ <<a, b>>[2] = b /\ \A k \in 1..2 : k = 1 \/ k = 2
    OBVIOUS
  <2> QED BY <1>1, <1>5, <2>1 DEF Over
<1> QED BY <1>6, <1>10, <1>11, <1>12

\* The operator's commands begin their handlers.
LEMMA CreateStep ==
    ASSUME LoopInv, Create
    PROVE  LoopInv'
<1>1. root = "none" /\ UNCHANGED <<loop, root, meta, wisp, told>> /\ todo' = CreateHandler
  BY DEF Create, Begin
<1>2. ~Announced
  BY <1>1 DEF LoopInv, EndHasReason
<1>3. Len(wisp) \in Nat
  BY DEF LoopInv, TypeInv
<1>4. ~Now.announced /\ Now.root # "closed"
  BY <1>1, <1>2, NowIs
<1>5. todo' \in Seq(Steps(Len(wisp))) /\ Orderly(todo', Now)
  BY <1>1, <1>3, <1>4, CreateOrderly
<1> QED BY <1>1, <1>2, <1>5, SameWisps

\* An approval begins.
LEMMA ApproveStep ==
    ASSUME LoopInv, Approve
    PROVE  LoopInv'
<1>1. /\ meta.state = "waiting_manual" /\ UNCHANGED <<loop, root, meta, wisp, told>>
      /\ todo' = ApproveHandler
  BY DEF Approve, Begin
<1>2. Len(wisp) \in Nat
  BY DEF LoopInv, TypeInv
<1>3. ~(root = "closed" /\ Announced)
  BY <1>1, NotOver
<1>4. Fits(todo', Len(wisp), Now)
  BY <1>1, <1>2, ApproveFits
<1> QED BY <1>1, <1>3, <1>4, FreshHandler

\* A stop begins.
LEMMA StopStep ==
    ASSUME LoopInv, Stop
    PROVE  LoopInv'
<1>1. /\ meta.state \in Running /\ UNCHANGED <<loop, root, meta, wisp, told>>
      /\ todo' = <<Call("stop", None)>>
  BY DEF Stop, Begin, Call
<1>2. Len(wisp) \in Nat /\ None \in 0..Len(wisp)
  BY DEF LoopInv, TypeInv, None
<1>3. meta.state # "terminated" /\ Now.state # "terminated"
  BY <1>1, NowIs DEF Running
<1>4. ~(root = "closed" /\ Announced)
  BY <1>3, NotOver
<1>5. Call("stop", None) \in Steps(Len(wisp)) /\ Leaf(Call("stop", None))
  BY <1>2, CallIs, CallNames
<1>6. Fits(<<Call("stop", None)>>, Len(wisp), Now)
  BY <1>3, <1>5, OneLeafFits
<1> QED BY <1>1, <1>4, <1>6, FreshHandler

\* The pours an operator or a trigger asks for.
LEMMA PourBegins ==
    ASSUME LoopInv, meta.state # "terminated", UNCHANGED <<loop, root, meta, wisp, told>>,
           NEW then \in PourKeys \ {"create"}, todo' = <<Pour(ClosedCount + 1, then, None)>>
    PROVE  LoopInv'
<1>1. TypeInv
  BY DEF LoopInv
<1>2. Len(wisp) \in Nat /\ ClosedCount \in Nat
  BY <1>1, ViewsAreTyped
<1>3. ClosedCount + 1 \in Nat /\ None \in 0..Len(wisp)
  BY <1>2 DEF None
<1>4. ~(root = "closed" /\ Announced)
  BY NotOver
<1> DEFINE l == Pour(ClosedCount + 1, then, None)
<1>5. l \in Steps(Len(wisp)) /\ Leaf(l) /\ l.op = "pour"
  BY <1>2, <1>3, LeafSteps
<1> HIDE DEF l
<1>6. Fits(<<l>>, Len(wisp), Now)
  BY <1>5, OneLeafFits
<1>7. Fits(todo', Len(wisp), Now)
  BY <1>6 DEF l
<1> QED BY <1>4, <1>7, FreshHandler

\* A manual iteration begins.
LEMMA IterateStep ==
    ASSUME LoopInv, IterateHandler
    PROVE  LoopInv'
<1>1. /\ meta.state # "terminated" /\ UNCHANGED <<loop, root, meta, wisp, told>>
      /\ todo' = <<Pour(ClosedCount + 1, "manual", None)>>
  BY DEF IterateHandler, Begin
<1>2. "manual" \in PourKeys \ {"create"}
  BY DEF PourKeys
<1> QED BY <1>1, <1>2, PourBegins

\* A trigger fires.
LEMMA TriggerStep ==
    ASSUME LoopInv, HandleTrigger
    PROVE  LoopInv'
<1>1. /\ meta.state # "terminated" /\ UNCHANGED <<loop, root, meta, wisp, told>>
      /\ todo' = <<Pour(ClosedCount + 1, "trigger", None)>>
  BY DEF HandleTrigger, Begin
<1>2. "trigger" \in PourKeys \ {"create"}
  BY DEF PourKeys
<1> QED BY <1>1, <1>2, PourBegins

\* A tick handles a closed wisp, or reconciles.
LEMMA TickStep ==
    ASSUME LoopInv, Tick
    PROVE  LoopInv'
<1>0. UNCHANGED <<loop, root, meta, wisp, told>>
  BY DEF Tick, Begin
<1>1. Len(wisp) \in Nat /\ None \in 0..Len(wisp) /\ meta.active \in 0..Len(wisp)
  BY ViewsAreTyped DEF LoopInv, None
<1>2. CASE todo' = StartupReconcile
  BY <1>0, <1>1, <1>2, StartupFits, FreshHandler
<1>3. CASE meta.state = "active" /\ todo' = <<Call("handle", meta.active)>>
  <2>1. meta.state # "terminated" /\ Now.state # "terminated"
    BY <1>3, NowIs
  <2>2. Call("handle", meta.active) \in Steps(Len(wisp)) /\ Leaf(Call("handle", meta.active))
    BY <1>1, CallIs, CallNames
  <2>3. Fits(<<Call("handle", meta.active)>>, Len(wisp), Now)
    BY <2>1, <2>2, OneLeafFits
  <2> QED BY <1>0, <1>3, <2>1, <2>3, NotOver, FreshHandler
<1>4. CASE meta.state = "active" /\ todo' = <<Call("reconcile", None)>>
  <2>1. meta.state # "terminated" /\ Now.state # "terminated"
    BY <1>4, NowIs
  <2>2. Call("reconcile", None) \in Steps(Len(wisp)) /\ Leaf(Call("reconcile", None))
    BY <1>1, CallIs, CallNames
  <2>3. Fits(<<Call("reconcile", None)>>, Len(wisp), Now)
    BY <2>1, <2>2, OneLeafFits
  <2> QED BY <1>0, <1>4, <2>1, <2>3, NotOver, FreshHandler
<1> QED BY <1>2, <1>3, <1>4, Zenon DEF Tick, Begin, Call

-----------------------------------------------------------------------------
(* Store calls.                                                            *)

\* A metadata write: the reason, the state, or neither.
LEMMA SetMetadataStep ==
    ASSUME LoopInv, SetMetadata
    PROVE  LoopInv'
<1>1. /\ todo # << >> /\ s0.op = "set" /\ meta' = [meta EXCEPT ![s0.key] = s0.v]
      /\ todo' = Tail(todo) /\ UNCHANGED <<loop, root, wisp, told>>
  BY DEF SetMetadata, At, Go
<1>2. /\ Len(wisp) \in Nat /\ todo \in Seq(Steps(Len(wisp)))
      /\ s0 = todo[1] /\ s0 \in Steps(Len(wisp)) /\ 1 \in 1..Len(todo)
      /\ Tail(todo) \in Seq(Steps(Len(wisp)))
  BY <1>1, HeadIs
<1>3. ~(root = "closed" /\ Announced)
  BY <1>1, HeadIs
<1>4. meta \in Metas(Len(wisp))
  BY DEF LoopInv, TypeInv
<1>5. /\ s0.key \in SetKeys /\ s0.v \in Values
      /\ (s0.key = "state" => s0.v \in States) /\ (s0.key = "treason" => s0.v \in Reasons)
  BY <1>1, <1>2 DEF Steps
<1>6. /\ meta'.state = IF SetsState(s0) THEN s0.v ELSE meta.state
      /\ meta'.treason = IF SetsReason(s0) THEN s0.v ELSE meta.treason
  BY <1>1, <1>4, <1>5 DEF Metas, SetsState, SetsReason, SetKeys
<1>7. meta' \in Metas(Len(wisp))
  BY <1>1, <1>4, <1>5 DEF Metas, SetKeys
<1>8. Announced' <=> Announced
  BY <1>1 DEF Announced
<1>9. /\ Now'.announced = Now.announced /\ Now'.root = Now.root /\ Now'.told = Now.told
      /\ Now'.state = IF SetsState(s0) THEN s0.v ELSE Now.state
      /\ Now'.treason = IF SetsReason(s0) THEN s0.v ELSE Now.treason
  BY <1>1, <1>6, <1>8 DEF Now
<1>10. Orderly(todo, Now)
  BY DEF LoopInv
<1>11. Orderly(todo, Now')
  BY <1>1, <1>2, <1>9, <1>10, SetContext
<1>12. DoneIn(todo[1], Now')
  BY <1>1, <1>2, <1>9 DEF DoneIn, Announces
<1>13. Orderly(Tail(todo), Now')
  BY <1>1, <1>2, <1>11, <1>12, Done
<1>14. TypeInv'
  BY <1>1, <1>2, <1>7 DEF LoopInv, TypeInv
<1>15. EndHasReason'
  <2> SUFFICES ASSUME Announced
               PROVE  /\ root # "none" /\ meta'.state # "creating"
                      /\ meta'.state = "terminated" => Given(meta'.treason)
    BY <1>1, <1>8 DEF EndHasReason
  <2>1. /\ root # "none" /\ meta.state # "creating"
        /\ meta.state = "terminated" => Given(meta.treason)
    BY DEF LoopInv, EndHasReason
  <2>2. Now.announced /\ Now.treason = meta.treason
    BY NowIs
  <2>3. SetsState(s0) => s0.v # "creating"
    <3>1. SetsState(s0) /\ s0.v = "creating" => Creates(s0)
      BY <1>2, <1>10 DEF Orderly, FailuresAreMarked
    <3>2. ~Creates(s0)
      BY <1>2, <1>10, <2>2 DEF Orderly, CreationIsWhole
    <3> QED BY <3>1, <3>2
  <2>4. SetsReason(s0) => Given(s0.v)
    BY <1>2, <1>10 DEF Orderly, ReasonComesFirst
  <2>5. Ends(s0) => Given(meta.treason)
    <3>1. Ends(s0) => Given(Now.treason) \/ \E j \in 1..1 - 1 : SetsReason(todo[j])
      BY <1>2, <1>10, <2>2 DEF Orderly, ReasonComesFirst
    <3>2. 1..1 - 1 = {}
      OBVIOUS
    <3> QED BY <2>2, <3>1, <3>2
  <2> QED BY <1>6, <2>1, <2>3, <2>4, <2>5 DEF Ends
<1>16. ClosedIsOver'
  BY <1>1, <1>3, <1>8 DEF ClosedIsOver
<1> QED BY <1>1, <1>13, <1>14, <1>15, <1>16 DEF LoopInv

\* A reference write.
LEMMA SetReferenceStep ==
    ASSUME LoopInv, SetReference
    PROVE  LoopInv'
<1>1. /\ todo # << >> /\ s0.op = "ref" /\ meta' = [meta EXCEPT ![s0.key] = s0.w]
      /\ todo' = Tail(todo) /\ UNCHANGED <<loop, root, wisp, told>>
  BY DEF SetReference, At, Go
<1>2. /\ Len(wisp) \in Nat /\ todo \in Seq(Steps(Len(wisp)))
      /\ s0 = todo[1] /\ s0 \in Steps(Len(wisp)) /\ 1 \in 1..Len(todo)
      /\ Tail(todo) \in Seq(Steps(Len(wisp)))
      /\ root = "closed" /\ Announced => Over(Tail(todo))
  BY <1>1, HeadIs
<1>3. meta \in Metas(Len(wisp))
  BY DEF LoopInv, TypeInv
<1>4. s0.key \in RefKeys /\ s0.w \in 0..Len(wisp)
  BY <1>1, <1>2 DEF Steps
<1>5. meta'.state = meta.state /\ meta'.treason = meta.treason
  BY <1>1, <1>3, <1>4 DEF Metas, RefKeys
<1>6. meta' \in Metas(Len(wisp))
  BY <1>1, <1>3, <1>4 DEF Metas, RefKeys
<1>7. (Announced' <=> Announced) /\ Now' = Now
  BY <1>1, <1>5 DEF Announced, Now
<1>8. DoneIn(todo[1], Now)
  BY <1>1, <1>2 DEF DoneIn, Announces, SetsState, SetsReason
<1>9. Orderly(Tail(todo), Now)
  BY <1>1, <1>2, <1>8, Done DEF LoopInv
<1>10. TypeInv'
  BY <1>1, <1>2, <1>6 DEF LoopInv, TypeInv
<1>11. EndHasReason' /\ ClosedIsOver'
  BY <1>1, <1>2, <1>5, <1>7 DEF LoopInv, EndHasReason, ClosedIsOver
<1> QED BY <1>1, <1>7, <1>9, <1>10, <1>11 DEF LoopInv

\* An event: the announcement, the end, or an iteration.
LEMMA EmitEventStep ==
    ASSUME LoopInv, EmitEvent
    PROVE  LoopInv'
<1>1. /\ todo # << >> /\ s0.op = "emit"
      /\ told' = told \cup {[kind |-> s0.key, n |-> s0.w, what |-> s0.v]}
      /\ todo' = Tail(todo) /\ UNCHANGED <<loop, root, meta, wisp>>
  BY DEF EmitEvent, At, Go
<1>2. /\ Len(wisp) \in Nat /\ todo \in Seq(Steps(Len(wisp))) /\ Len(todo) \in Nat
      /\ s0 = todo[1] /\ 1 \in 1..Len(todo)
      /\ Tail(todo) \in Seq(Steps(Len(wisp)))
      /\ ~(root = "closed" /\ Announced)
  BY <1>1, HeadIs
<1>3. Orderly(todo, Now)
  BY DEF LoopInv
<1>4. TypeInv'
  BY <1>1, <1>2 DEF LoopInv, TypeInv
<1>5. Announced' <=> (Announced \/ s0.key = "created")
  <2> DEFINE r == [kind |-> s0.key, n |-> s0.w, what |-> s0.v]
  <2>1. r.kind = s0.key
    OBVIOUS
  <2>2. r \in told' /\ (\A e \in told : e \in told') /\ (\A e \in told' : e \in told \/ e = r)
    BY <1>1
  <2> HIDE DEF r
  <2> QED BY <2>1, <2>2 DEF Announced
<1>6. CASE s0.key = "created"
  <2>1. Announces(todo[1])
    BY <1>1, <1>2, <1>6 DEF Announces
  <2>2. /\ 1 = Len(todo)
        /\ Now.root = "open" \/ \E j \in 1..1 - 1 : todo[j].op = "create"
        /\ Now.state \in Running \/ \E j \in 1..1 - 1 : SetsState(todo[j])
    BY <1>2, <1>3, <2>1 DEF Orderly, RunsWhenAnnounced
  <2>3. 1..1 - 1 = {}
    OBVIOUS
  <2>4. root = "open" /\ meta.state \in Running
    BY <2>2, <2>3, NowIs
  <2>5. Tail(todo) = << >>
    <3>1. Len(Tail(todo)) = Len(todo) - 1
      BY <1>1, <1>2, TailIs
    <3>2. Len(Tail(todo)) = 0
      BY <2>2, <3>1
    <3> QED BY <1>2, <3>2, EmptySeq
  <2>6. Orderly(<< >>, Now')
    BY EmptyFits DEF Fits
  <2>7. EndHasReason' /\ ClosedIsOver'
    BY <1>1, <2>4 DEF EndHasReason, ClosedIsOver, Running
  <2> QED BY <1>1, <1>4, <2>5, <2>6, <2>7 DEF LoopInv
<1>7. CASE s0.key # "created"
  <2>1. /\ Now'.announced = Now.announced /\ Now'.root = Now.root
        /\ Now'.state = Now.state /\ Now'.treason = Now.treason
        /\ Now.told = told /\ Now'.told = told'
    <3>1. Announced' <=> Announced
      BY <1>5, <1>7
    <3> QED BY <1>1, <3>1 DEF Now
  <2>2. \A e \in Now.told : e \in Now'.told
    BY <1>1, <2>1
  <2>3. Orderly(todo, Now')
    BY <1>3, <2>1, <2>2, NewContext
  <2>4. s0.key = "terminated" /\ s0.w = 0 => Told(s0.v) \in Now'.told
    BY <1>1, <2>1 DEF Told
  <2>5. DoneIn(todo[1], Now')
    BY <1>1, <1>2, <1>7, <2>4 DEF DoneIn, Announces, SetsState, SetsReason
  <2>6. Orderly(Tail(todo), Now')
    BY <1>1, <1>2, <2>3, <2>5, Done
  <2>7. EndHasReason' /\ ClosedIsOver'
    BY <1>1, <1>2, <1>5, <1>7 DEF LoopInv, EndHasReason, ClosedIsOver
  <2> QED BY <1>1, <1>4, <2>6, <2>7 DEF LoopInv
<1> QED BY <1>6, <1>7

\* The root is created.
LEMMA CreateBeadStep ==
    ASSUME LoopInv, CreateConvergenceBead
    PROVE  LoopInv'
<1>1. /\ todo # << >> /\ s0.op = "create" /\ root' = "open"
      /\ todo' = Tail(todo) /\ UNCHANGED <<loop, meta, wisp, told>>
  BY DEF CreateConvergenceBead, At, Go
<1>2. /\ Len(wisp) \in Nat /\ todo \in Seq(Steps(Len(wisp)))
      /\ s0 = todo[1] /\ 1 \in 1..Len(todo) /\ Tail(todo) \in Seq(Steps(Len(wisp)))
  BY <1>1, HeadIs
<1>3. Orderly(todo, Now)
  BY DEF LoopInv
<1>4. ~Announced
  <2>1. Creates(todo[1])
    BY <1>1, <1>2 DEF Creates
  <2>2. ~Now.announced
    BY <1>2, <1>3, <2>1 DEF Orderly, CreationIsWhole
  <2> QED BY <2>2, NowIs
<1>5. ~Announced'
  BY <1>1, <1>4 DEF Announced
<1>6. /\ Now'.announced = Now.announced /\ Now'.root = "open" /\ Now'.state = Now.state
      /\ Now'.treason = Now.treason /\ Now'.told = Now.told
  <2>1. Announced' <=> Announced
    BY <1>4, <1>5
  <2> QED BY <1>1, <2>1 DEF Now
<1>7. Orderly(todo, Now')
  BY <1>3, <1>6, NewContext
<1>8. DoneIn(todo[1], Now')
  BY <1>1, <1>2, <1>6 DEF DoneIn, Announces, SetsState, SetsReason
<1>9. Orderly(Tail(todo), Now')
  BY <1>1, <1>2, <1>7, <1>8, Done
<1>10. TypeInv'
  BY <1>1, <1>2 DEF LoopInv, TypeInv
<1> QED BY <1>1, <1>5, <1>9, <1>10 DEF LoopInv, EndHasReason, ClosedIsOver

\* The root is closed: what ClosesWith promised is done.
LEMMA CloseRootStep ==
    ASSUME LoopInv, CloseRootBead
    PROVE  LoopInv'
<1>1. /\ todo # << >> /\ s0.op = "close_root" /\ root' = "closed"
      /\ todo' = Tail(todo) /\ UNCHANGED <<loop, meta, wisp, told>>
  BY DEF CloseRootBead, At, Go
<1>2. /\ Len(wisp) \in Nat /\ todo \in Seq(Steps(Len(wisp))) /\ Len(todo) \in Nat
      /\ s0 = todo[1] /\ 1 \in 1..Len(todo) /\ Tail(todo) \in Seq(Steps(Len(wisp)))
  BY <1>1, HeadIs
<1>3. Orderly(todo, Now)
  BY DEF LoopInv
<1>4. Announced' <=> Announced
  BY <1>1 DEF Announced
<1>5. /\ Now'.announced = Now.announced /\ Now'.root = "closed" /\ Now'.state = Now.state
      /\ Now'.treason = Now.treason /\ Now'.told = Now.told
  BY <1>1, <1>4 DEF Now
<1>6. \A k \in 1..Len(todo) : ~Creates(todo[k])
  <2>1. ~Creates(todo[1])
    BY <1>1, <1>2 DEF Creates, Announces
  <2> QED BY <1>2, <1>3, <2>1 DEF Orderly, CreationIsWhole
<1>7. Orderly(todo, Now')
  BY <1>3, <1>5, <1>6, NewContext
<1>8. DoneIn(todo[1], Now')
  BY <1>1, <1>2 DEF DoneIn, Announces, SetsState, SetsReason
<1>9. Orderly(Tail(todo), Now')
  BY <1>1, <1>2, <1>7, <1>8, Done
<1>10. TypeInv'
  BY <1>1, <1>2 DEF LoopInv, TypeInv
<1>11. EndHasReason'
  BY <1>1, <1>4 DEF LoopInv, EndHasReason
<1>12. ClosedIsOver'
  <2> SUFFICES ASSUME Announced
               PROVE  meta.state = "terminated" /\ Told(meta.treason) \in told /\ Over(Tail(todo))
    BY <1>1, <1>4 DEF ClosedIsOver
  <2>1. Now.announced
    BY NowIs
  <2>2. PICK v \in Reasons : ClosesWith(todo, Now, 1, v)
    BY <1>1, <1>2, <1>3, <2>1 DEF Orderly, CloseIsAnnounced
  <2>3. 1..1 - 1 = {}
    OBVIOUS
  <2>4. Told(v) \in Now.told /\ Now.treason = v /\ Now.state = "terminated"
    BY <2>2, <2>3 DEF ClosesWith
  <2>5. /\ \A k \in 1..Len(Tail(todo)) : k + 1 \in 1..Len(todo) /\ Tail(todo)[k] = todo[k + 1]
        /\ Len(Tail(todo)) \in Nat
    BY <1>1, <1>2, TailIs
  <2>6. \A k \in 1..Len(Tail(todo)) : 1 < k + 1
    BY <2>5
  <2>7. Over(Tail(todo))
    BY <1>1, <1>2, <1>3, <2>5, <2>6 DEF Orderly, CloseIsLast, Over
  <2> QED BY <2>4, <2>7, NowIs
<1> QED BY <1>1, <1>9, <1>10, <1>11, <1>12 DEF LoopInv

\* A wisp is closed, deleted or activated.
LEMMA SetWispStep ==
    ASSUME LoopInv, CloseWisp \/ DeleteBead \/ ActivateWisp
    PROVE  LoopInv'
<1>1. PICK st : /\ st \in {"closed", "gone", "live", wisp[s0.w].st}
                /\ wisp' = [wisp EXCEPT ![s0.w].st = st]
  BY DEF CloseWisp, DeleteBead, ActivateWisp, SetWisp
<1>2. /\ todo # << >> /\ s0.op \in {"close_wisp", "delete", "activate"} /\ Exists(s0.w)
      /\ todo' = Tail(todo) /\ UNCHANGED <<loop, root, meta, told>>
  BY DEF CloseWisp, DeleteBead, ActivateWisp, SetWisp, At, Go
<1>3. /\ Len(wisp) \in Nat /\ todo \in Seq(Steps(Len(wisp)))
      /\ s0 = todo[1] /\ s0 \in Steps(Len(wisp)) /\ Tail(todo) \in Seq(Steps(Len(wisp)))
      /\ root = "closed" /\ Announced => Over(Tail(todo))
  BY <1>2, HeadIs
<1>4. s0.w \in 1..Len(wisp)
  <2>1. s0.w \in 0..Len(wisp)
    BY <1>2, <1>3 DEF Steps
  <2> QED BY <1>2, <1>3, <2>1 DEF Exists, None
<1>5. st \in {"spec", "live", "closed", "gone"}
  <2>1. wisp[s0.w] \in Wisps
    BY <1>4 DEF LoopInv, TypeInv
  <2> QED BY <1>1, <2>1 DEF Wisps
<1>6. /\ wisp' \in Seq(Wisps) /\ Len(wisp') = Len(wisp)
      /\ \E b \in Nat : \A j \in 1..Len(wisp') : wisp'[j].iter <= b
  BY <1>1, <1>4, <1>5, StatusChange
<1>7. DoneIn(todo[1], Now)
  BY <1>2, <1>3 DEF DoneIn, Announces, SetsState, SetsReason
<1>8. Orderly(Tail(todo), Now)
  BY <1>2, <1>3, <1>7, Done DEF LoopInv
<1>9. Len(wisp') >= Len(wisp)
  BY <1>3, <1>6
<1> QED BY <1>2, <1>3, <1>6, <1>8, <1>9, SameStory

-----------------------------------------------------------------------------
(* Branches, pours and failures.                                           *)

\* A step that reads and branches takes a branch that fits; in a loop that is
\* over there is nothing left to do.
LEMMA BranchFits ==
    ASSUME LoopInv, todo # << >>, s0.op \in Branches
    PROVE  /\ Fits(Branch(s0), Len(wisp), Now)
           /\ root = "closed" /\ Announced => Branch(s0) = << >>
<1>1. /\ Len(wisp) \in Nat /\ s0 = todo[1] /\ s0 \in Steps(Len(wisp)) /\ 1 \in 1..Len(todo)
  BY HeadIs
<1>2. s0.op \notin {"reconcile", "stop_reread"} => ~(root = "closed" /\ Announced)
  BY HeadIs DEF Branches
<1>3. s0.w \in 0..Len(wisp) /\ s0.x \in 0..Len(wisp)
  BY <1>1 DEF Steps, Branches
<1>4. TypeInv /\ Orderly(todo, Now)
  BY DEF LoopInv
<1>5. s0.op \in {"handle", "stop"} => Now.state # "terminated" /\ meta.state # "terminated"
  BY <1>1, <1>4, NowIs DEF Orderly, HandlesTheLiving
<1>6. CASE s0.op = "handle"
  <2>1. Branch(s0) = HandleWispClosed(s0.w)
    BY <1>6, Zenon DEF Branch
  <2> QED BY <1>2, <1>3, <1>4, <1>5, <1>6, <2>1, HandleFits
<1>7. CASE s0.op = "settle"
  <2>1. Branch(s0) = prepareOutcome(s0.w, s0.x, s0.v = "pour_failed")
    BY <1>7, Zenon DEF Branch
  <2> QED BY <1>2, <1>3, <1>4, <1>7, <2>1, PrepareFits
<1>8. CASE s0.op = "reconcile"
  <2>1. Branch(s0) = reconcileState
    BY <1>8, Zenon DEF Branch
  <2>2. root = "closed" => reconcileState = << >>
    BY DEF reconcileState
  <2> QED BY <1>4, <2>1, <2>2, ReconcileFits DEF LoopInv
<1>9. CASE s0.op = "stop"
  <2>1. Branch(s0) = stopDrain
    BY <1>9, Zenon DEF Branch
  <2> QED BY <1>2, <1>4, <1>5, <1>9, <2>1, StopDrainFits
<1>10. CASE s0.op = "stop_reread"
  <2> DEFINE p == IF meta.state = "terminated" THEN << >> ELSE <<Do("stop_force", meta.active, None, "")>>
  <2>1. Branch(s0) = p
    BY <1>10, Zenon DEF Branch
  <2>2. Fits(p, Len(wisp), Now)
    BY <1>4, RereadFits
  <2>3. root = "closed" /\ Announced => meta.state = "terminated"
    BY DEF LoopInv, ClosedIsOver
  <2>4. meta.state = "terminated" => p = << >>
    BY Zenon
  <2> HIDE DEF p
  <2> QED BY <2>1, <2>2, <2>3, <2>4
<1>11. CASE s0.op = "stop_force"
  <2>1. Branch(s0) = stopForce(s0.w)
    BY <1>11, Zenon DEF Branch
  <2> QED BY <1>2, <1>3, <1>4, <1>11, <2>1, StopForceFits
<1>12. CASE s0.op = "stop_commit"
  <2>1. Branch(s0) = stopCommit(s0.w, s0.v = "forced")
    BY <1>12, Zenon DEF Branch
  <2>2. ClosedCount \in Nat /\ meta.lpw \in 0..Len(wisp)
    BY <1>4, ViewsAreTyped
  <2>3. PICK f \in BOOLEAN : f = (s0.v = "forced")
    OBVIOUS
  <2>4. Fits(stopCommit(s0.w, f), Len(wisp), Now)
    BY <1>1, <1>3, <2>2, StopCommitFits
  <2> QED BY <1>2, <1>12, <2>1, <2>3, <2>4
<1> QED BY <1>6, <1>7, <1>8, <1>9, <1>10, <1>11, <1>12 DEF Branches

\* A branch replaces the step that chose it.
LEMMA ExpandStep ==
    ASSUME LoopInv, Expand
    PROVE  LoopInv'
<1>1. /\ todo # << >> /\ s0.op \in Branches /\ todo' = Branch(s0) \o Tail(todo)
      /\ UNCHANGED <<loop, root, meta, wisp, told>>
  BY DEF Expand, Branches
<1>2. /\ Len(wisp) \in Nat /\ todo \in Seq(Steps(Len(wisp))) /\ s0 = todo[1]
      /\ Tail(todo) \in Seq(Steps(Len(wisp)))
      /\ root = "closed" /\ Announced => Over(Tail(todo))
  BY <1>1, HeadIs
<1>3. /\ Fits(Branch(s0), Len(wisp), Now)
      /\ root = "closed" /\ Announced => Branch(s0) = << >>
  BY <1>1, BranchFits
<1>4. todo[1].op \in Calls
  BY <1>1, <1>2 DEF Calls
<1>5. Orderly(todo, Now)
  BY DEF LoopInv
<1>6. todo' \in Seq(Steps(Len(wisp))) /\ Orderly(todo', Now)
  BY <1>1, <1>2, <1>3, <1>4, <1>5, JoinFits
<1>7. << >> \o Tail(todo) = Tail(todo)
  BY <1>2
<1>8. root = "closed" /\ Announced => Over(todo')
  BY <1>1, <1>2, <1>3, <1>7
<1> QED BY <1>1, <1>6, <1>8, SameWisps

\* A gate is evaluated.
LEMMA EvaluateGateStep ==
    ASSUME LoopInv, EvaluateGate
    PROVE  LoopInv'
<1>1. PICK outcome \in {"pass", "fail", "timeout"} : todo' = gateEvaluation(s0, outcome) \o Tail(todo)
  BY DEF EvaluateGate
<1>2. todo # << >> /\ s0.op = "gate" /\ UNCHANGED <<loop, root, meta, wisp, told>>
  BY DEF EvaluateGate, At
<1>3. /\ Len(wisp) \in Nat /\ todo \in Seq(Steps(Len(wisp))) /\ s0 = todo[1] /\ s0 \in Steps(Len(wisp))
      /\ ~(root = "closed" /\ Announced)
  BY <1>2, HeadIs
<1>4. TypeInv /\ Orderly(todo, Now)
  BY DEF LoopInv
<1>5. Fits(gateEvaluation(s0, outcome), Len(wisp), Now)
  BY <1>2, <1>3, <1>4, GateFits
<1>6. todo[1].op \in Calls
  BY <1>2, <1>3 DEF Calls
<1>7. todo' \in Seq(Steps(Len(wisp))) /\ Orderly(todo', Now)
  BY <1>1, <1>2, <1>3, <1>4, <1>5, <1>6, JoinFits
<1> QED BY <1>2, <1>3, <1>7, SameWisps

\* The scan ends.
LEMMA PopulateIndexStep ==
    ASSUME LoopInv, PopulateIndex
    PROVE  LoopInv'
<1>1. todo # << >> /\ s0.op = "index" /\ todo' = Tail(todo) /\ UNCHANGED <<loop, root, meta, wisp, told>>
  BY DEF PopulateIndex, At, Go
<1>2. /\ Len(wisp) \in Nat /\ todo \in Seq(Steps(Len(wisp))) /\ s0 = todo[1]
      /\ Tail(todo) \in Seq(Steps(Len(wisp)))
      /\ root = "closed" /\ Announced => Over(Tail(todo))
  BY <1>1, HeadIs
<1>3. DoneIn(todo[1], Now)
  BY <1>1, <1>2 DEF DoneIn, Announces, SetsState, SetsReason
<1>4. Orderly(Tail(todo), Now)
  BY <1>1, <1>2, <1>3, Done DEF LoopInv
<1> QED BY <1>1, <1>2, <1>4, SameWisps

\* A handler that gives up leaves the end of its scan.
LEMMA AbortedIs ==
    ASSUME LoopInv, todo # << >>
    PROVE  Aborted \in Seq(Steps(Len(wisp))) /\ Flat(Aborted) /\ Over(Aborted)
<1> DEFINE l == todo[Len(todo)]
<1>1. todo \in Seq(Steps(Len(wisp))) /\ Len(todo) \in 1..Len(todo)
  BY HeadIs
<1>2. l \in Steps(Len(wisp))
  BY <1>1
<1>3. l.op = "index" => Calm(l)
  <2>1. l.fail = "rollback" => Creates(l)
    BY <1>1 DEF LoopInv, Orderly, FailuresAreMarked
  <2> QED BY <2>1 DEF Creates, Announces, Calm
<1>4. Aborted = When(l.op = "index", <<l>>)
  BY DEF Aborted
<1> HIDE DEF l
<1>5. CASE l.op = "index"
  <2>1. Aborted = <<l>>
    BY <1>4, <1>5 DEF When
  <2>2. <<l>> \in Seq(Steps(Len(wisp))) /\ Len(<<l>>) = 1 /\ <<l>>[1] = l /\ \A k \in 1..1 : k = 1
    BY <1>2
  <2> QED BY <1>3, <1>5, <2>1, <2>2 DEF Flat, Over
<1>6. CASE l.op # "index"
  <2>1. Aborted = << >>
    BY <1>4, <1>6 DEF When
  <2>2. << >> \in Seq(Steps(Len(wisp))) /\ Len(<< >>) = 0 /\ 1..0 = {}
    OBVIOUS
  <2> QED BY <2>1, <2>2 DEF Flat, Over
<1> QED BY <1>5, <1>6

\* What a failed store call leaves of the handler.
LEMMA FailureFits ==
    ASSUME LoopInv, todo # << >>, s0.op # "emit"
    PROVE  /\ AfterFailure(s0) \in Seq(Steps(Len(wisp))) /\ Orderly(AfterFailure(s0), Now)
           /\ root = "closed" /\ Announced => Over(AfterFailure(s0))
<1>1. /\ Len(wisp) \in Nat /\ todo \in Seq(Steps(Len(wisp))) /\ Len(todo) \in Nat
      /\ s0 = todo[1] /\ s0 \in Steps(Len(wisp)) /\ 1 \in 1..Len(todo)
      /\ Tail(todo) \in Seq(Steps(Len(wisp)))
      /\ root = "closed" /\ Announced => Over(Tail(todo))
  BY HeadIs
<1>2. Aborted \in Seq(Steps(Len(wisp))) /\ Flat(Aborted) /\ Over(Aborted)
  BY AbortedIs
<1>3. Fits(Aborted, Len(wisp), Now)
  BY <1>2, FlatFits
<1>4. s0.fail \in Fails /\ s0.x \in 0..Len(wisp)
  BY <1>1 DEF Steps
<1>5. Orderly(todo, Now)
  BY DEF LoopInv
<1>6. CASE s0.fail = "abort"
  <2>1. AfterFailure(s0) = Aborted
    BY <1>6, Zenon DEF AfterFailure
  <2> QED BY <1>2, <1>3, <2>1 DEF Fits
<1>7. CASE s0.fail = "burn"
  <2> DEFINE b == burnSpeculativeWisp(s0.x)
             p == b \o Aborted
  <2>1. AfterFailure(s0) = p
    BY <1>7, Zenon DEF AfterFailure
  <2>2. Fits(p, Len(wisp), Now)
    BY <1>1, <1>3, <1>4, BurnFits
  <2>3. b \in Seq(Steps(Len(wisp))) /\ Soft(b)
    BY <1>1, <1>4, BurnIs
  <2> HIDE DEF b
  <2>4. \A k \in 1..Len(p) : \/ k \in 1..Len(b) /\ p[k] = b[k]
                             \/ k - Len(b) \in 1..Len(Aborted) /\ p[k] = Aborted[k - Len(b)]
    BY <1>2, <2>3, JoinIs
  <2> HIDE DEF p
  <2>5. Over(p)
    BY <1>2, <2>3, <2>4 DEF Over, Soft
  <2> QED BY <2>1, <2>2, <2>5 DEF Fits
<1>8. CASE s0.fail = "rollback"
  <2>1. AfterFailure(s0) = closeBead
    BY <1>8, Zenon DEF AfterFailure
  <2>2. Creates(s0)
    BY <1>1, <1>5, <1>8 DEF Orderly, FailuresAreMarked
  <2>3. ~Now.announced
    BY <1>1, <1>5, <2>2 DEF Orderly, CreationIsWhole
  <2>4. Fits(closeBead, Len(wisp), Now)
    BY <1>1, <2>3, CloseBeadFits
  <2>5. ~Announced
    BY <2>3, NowIs
  <2> QED BY <2>1, <2>4, <2>5 DEF Fits
<1>9. CASE s0.fail = "skip" /\ s0.op # "emit" /\ s0.op # "create"
  <2>1. AfterFailure(s0) = Tail(todo)
    BY <1>9, Zenon DEF AfterFailure
  <2>2. CASE s0.op = "set"
    <3>1. ~Now.announced /\ ~Creates(s0)
      BY <1>1, <1>5, <1>9, <2>2 DEF Orderly, FailuresAreMarked, Creates, Announces
    <3>2. Orderly(Tail(todo), Now)
      BY <1>1, <1>5, <2>2, <3>1, SkippedWrite
    <3> QED BY <1>1, <2>1, <3>2
  <2>3. CASE s0.op # "set"
    <3>1. DoneIn(todo[1], Now)
      BY <1>1, <1>9, <2>3 DEF DoneIn, Announces, SetsState, SetsReason
    <3>2. Orderly(Tail(todo), Now)
      BY <1>1, <1>5, <3>1, Done
    <3> QED BY <1>1, <2>1, <3>2
  <2> QED BY <2>2, <2>3
<1>10. CASE s0.fail = "skip" /\ s0.op = "create"
  BY <1>1, <1>5, <1>10 DEF Orderly, FailuresAreMarked
<1> QED BY <1>4, <1>6, <1>7, <1>8, <1>9, <1>10 DEF Fails

\* What a failed pour leaves of the handler: the gate of a speculative pour is
\* evaluated all the same.
LEMMA PourFailureFits ==
    ASSUME LoopInv, todo # << >>, s0.op = "pour"
    PROVE  /\ AfterPourFailure(s0) \in Seq(Steps(Len(wisp))) /\ Orderly(AfterPourFailure(s0), Now)
           /\ root = "closed" /\ Announced => Over(AfterPourFailure(s0))
<1>1. /\ Len(wisp) \in Nat /\ todo \in Seq(Steps(Len(wisp)))
      /\ s0 = todo[1] /\ s0 \in Steps(Len(wisp)) /\ ~(root = "closed" /\ Announced)
  BY HeadIs
<1>2. CASE s0.key = "speculative"
  <2>1. "gate" \in Calls \ {"pour"} /\ "pour_failed" \in Values /\ None \in 0..Len(wisp)
    <3>1. "pour_failed" \in Values
      BY Zenon DEF Values
    <3>2. None \in 0..Len(wisp)
      BY <1>1 DEF None
    <3> QED BY <3>1, <3>2, CallNames
  <2>2. s0.x \in 0..Len(wisp)
    BY <1>1 DEF Steps
  <2> DEFINE l == Do("gate", s0.x, None, "pour_failed")
  <2>3. l \in Steps(Len(wisp)) /\ Leaf(l) /\ l.op = "gate"
    BY <1>1, <2>1, <2>2, LeafSteps
  <2>4. AfterPourFailure(s0) = <<l>> \o Tail(todo)
    BY <1>2 DEF AfterPourFailure
  <2> HIDE DEF l
  <2>5. Fits(<<l>>, Len(wisp), Now)
    BY <2>3, OneLeafFits
  <2>6. Orderly(todo, Now) /\ todo[1].op \in Calls
    BY <1>1 DEF LoopInv, Calls
  <2> QED BY <1>1, <2>4, <2>5, <2>6, JoinFits
<1>3. CASE s0.key # "speculative"
  <2>1. AfterPourFailure(s0) = AfterFailure(s0)
    BY <1>3 DEF AfterPourFailure
  <2>2. s0.op # "emit"
    OBVIOUS
  <2> QED BY <2>1, <2>2, FailureFits
<1> QED BY <1>2, <1>3

\* A handler meets an error.
LEMMA HandlerErrorStep ==
    ASSUME LoopInv, HandlerError
    PROVE  LoopInv'
<1>1. todo # << >> /\ UNCHANGED <<loop, root, meta, wisp, told>>
  BY DEF HandlerError
<1>2. CASE todo' = Aborted
  <2>1. Aborted \in Seq(Steps(Len(wisp))) /\ Flat(Aborted) /\ Over(Aborted)
    BY <1>1, AbortedIs
  <2>2. Fits(Aborted, Len(wisp), Now)
    BY <2>1, FlatFits
  <2> QED BY <1>1, <1>2, <2>1, <2>2, FreshHandler
<1>3. CASE s0.op \in {"activate", "delete", "close_wisp"} /\ todo' = AfterFailure(s0)
  <2>1. s0.op # "emit"
    BY <1>3
  <2> QED BY <1>1, <1>3, <2>1, FailureFits, SameWisps
<1>4. CASE s0.op = "pour" /\ todo' = AfterPourFailure(s0)
  BY <1>1, <1>4, PourFailureFits, SameWisps
<1> QED BY <1>2, <1>3, <1>4, Zenon DEF HandlerError

\* A store call fails.
LEMMA StoreFailsStep ==
    ASSUME LoopInv, StoreFails
    PROVE  LoopInv'
<1>1. /\ todo # << >> /\ s0.op # "emit" /\ todo' = AfterFailure(s0)
      /\ UNCHANGED <<loop, root, meta, wisp, told>>
  BY DEF StoreFails
<1> QED BY <1>1, FailureFits, SameWisps

\* What follows a pour that returned a wisp, before what follows the pour.
LEMMA AfterPourJoins ==
    ASSUME LoopInv, todo # << >>, s0.op = "pour",
           NEW n \in Nat, n >= Len(wisp), NEW i \in 0..n
    PROVE  AfterPour(s0, i) \o Tail(todo) \in Seq(Steps(n)) /\ Orderly(AfterPour(s0, i) \o Tail(todo), Now)
<1>1. /\ Len(wisp) \in Nat /\ todo \in Seq(Steps(Len(wisp))) /\ 1 \in 1..Len(todo)
      /\ s0 = todo[1] /\ s0 \in Steps(Len(wisp))
  BY HeadIs
<1>2. Steps(Len(wisp)) \subseteq Steps(n) /\ todo \in Seq(Steps(n))
  BY <1>1, TypesGrow
<1>3. s0.x \in 0..n /\ s0.key \in PourKeys
  BY <1>1, <1>2 DEF Steps
<1>4. Orderly(todo, Now) /\ todo[1].op \in Calls
  BY <1>1 DEF LoopInv, Calls
<1>5. CASE s0.key # "create"
  <2>1. Fits(AfterPour(s0, i), n, Now)
    BY <1>3, <1>5, AfterPourFits
  <2> QED BY <1>2, <1>4, <2>1, JoinFits
<1>6. CASE s0.key = "create"
  <2>1. Creates(todo[1])
    BY <1>1, <1>4, <1>6 DEF Orderly, FailuresAreMarked
  <2>2. Tail(todo) = << >>
    BY <1>2, <1>4, <2>1, TailOfCall
  <2>3. ~Now.announced
    BY <1>1, <1>4, <2>1 DEF Orderly, CreationIsWhole
  <2>4. 1..1 - 1 = {}
    OBVIOUS
  <2>5. Now.root = "open" /\ Now.state \in Running
    BY <1>1, <1>4, <1>6, <2>4 DEF Orderly, RunsWhenAnnounced
  <2>6. AfterPour(s0, i) \in Seq(Steps(n)) /\ Orderly(AfterPour(s0, i), Now)
    BY <1>6, <2>3, <2>5, AfterCreatePour
  <2>7. AfterPour(s0, i) \o << >> = AfterPour(s0, i)
    BY <2>6
  <2> QED BY <2>2, <2>6, <2>7
<1> QED BY <1>5, <1>6

\* A pour returns a wisp.
LEMMA PourWispStep ==
    ASSUME LoopInv, PourWisp
    PROVE  LoopInv'
<1> DEFINE i == IF Found(s0.w) # None THEN Found(s0.w) ELSE Len(wisp) + 1
<1>1. /\ todo # << >> /\ s0.op = "pour" /\ UNCHANGED <<loop, root, meta, told>>
      /\ wisp' = Poured(s0.w, s0.key) /\ todo' = AfterPour(s0, i) \o Tail(todo)
  BY DEF PourWisp, At
<1>2. Len(wisp) \in Nat /\ s0 \in Steps(Len(wisp)) /\ ~(root = "closed" /\ Announced)
  BY <1>1, HeadIs
<1>3. s0.w \in Nat
  BY <1>2 DEF Steps
<1>4. /\ wisp' \in Seq(Wisps) /\ Len(wisp') >= Len(wisp) /\ Len(wisp') \in Nat
      /\ \E b \in Nat : \A j \in 1..Len(wisp') : wisp'[j].iter <= b
      /\ Found(s0.w) # None => wisp' = wisp
      /\ Found(s0.w) = None => Len(wisp') = Len(wisp) + 1
  BY <1>1, <1>3, PouredIs
<1>5. Found(s0.w) \in 0..Len(wisp)
  BY FindIs DEF LoopInv, Found
<1>6. i \in 0..Len(wisp')
  BY <1>2, <1>4, <1>5
<1> HIDE DEF i
<1>7. todo' \in Seq(Steps(Len(wisp'))) /\ Orderly(todo', Now)
  BY <1>1, <1>4, <1>6, AfterPourJoins
<1> QED BY <1>1, <1>2, <1>4, <1>7, SameStory

\* A pour returns an error, with or without its wisp.
LEMMA PourFailsStep ==
    ASSUME LoopInv, PourFails
    PROVE  LoopInv'
<1> DEFINE i == IF Found(s0.w) # None THEN Found(s0.w) ELSE IF wisp' # wisp THEN Len(wisp') ELSE None
<1>1. /\ todo # << >> /\ s0.op = "pour" /\ UNCHANGED <<loop, root, meta, told>>
      /\ wisp' = wisp \/ wisp' = Poured(s0.w, s0.key)
      /\ todo' = AfterPour(s0, i) \o Tail(todo) \/ todo' = AfterPourFailure(s0)
  BY DEF PourFails, At
<1>2. Len(wisp) \in Nat /\ s0 \in Steps(Len(wisp)) /\ ~(root = "closed" /\ Announced)
  BY <1>1, HeadIs
<1>3. s0.w \in Nat
  BY <1>2 DEF Steps
<1>4. /\ wisp' \in Seq(Wisps) /\ Len(wisp') >= Len(wisp) /\ Len(wisp') \in Nat
      /\ \E b \in Nat : \A j \in 1..Len(wisp') : wisp'[j].iter <= b
  <2>1. CASE wisp' = wisp
    <3>1. wisp \in Seq(Wisps) /\ \E b \in Nat : \A j \in 1..Len(wisp) : wisp[j].iter <= b
      BY DEF LoopInv, TypeInv
    <3>2. Len(wisp) >= Len(wisp)
      BY <1>2
    <3> QED BY <1>2, <2>1, <3>1, <3>2
  <2>2. CASE wisp' = Poured(s0.w, s0.key)
    BY <1>3, <2>2, PouredIs
  <2> QED BY <1>1, <2>1, <2>2
<1>5. Found(s0.w) \in 0..Len(wisp)
  BY FindIs DEF LoopInv, Found
<1>6. i \in 0..Len(wisp')
  BY <1>2, <1>4, <1>5 DEF None
<1> HIDE DEF i
<1>7. CASE todo' = AfterPour(s0, i) \o Tail(todo)
  <2>1. todo' \in Seq(Steps(Len(wisp'))) /\ Orderly(todo', Now)
    BY <1>1, <1>4, <1>6, <1>7, AfterPourJoins
  <2> QED BY <1>1, <1>2, <1>4, <2>1, SameStory
<1>8. CASE todo' = AfterPourFailure(s0)
  <2>1. todo' \in Seq(Steps(Len(wisp))) /\ Orderly(todo', Now)
    BY <1>1, <1>8, PourFailureFits
  <2>2. todo' \in Seq(Steps(Len(wisp')))
    BY <1>2, <1>4, <2>1, TypesGrow
  <2> QED BY <1>1, <1>2, <1>4, <2>1, <2>2, SameStory
<1> QED BY <1>1, <1>7, <1>8

-----------------------------------------------------------------------------
(* Crashes, reloads and the world outside the controller.                  *)

\* A crash or a failed scan forgets the handler.
LEMMA EmptyHandler ==
    ASSUME LoopInv, UNCHANGED <<loop, root, meta, wisp, told>>, todo' = << >>
    PROVE  LoopInv'
<1>1. Fits(todo', Len(wisp), Now)
  BY EmptyFits
<1>2. Over(todo')
  BY DEF Over
<1> QED BY <1>1, <1>2, FreshHandler

\* A restart begins with the scan.
LEMMA RestartStep ==
    ASSUME LoopInv, Restart
    PROVE  LoopInv'
<1>1. todo' = StartupReconcile /\ UNCHANGED <<loop, root, meta, wisp, told>>
  BY DEF Restart
<1>2. Len(wisp) \in Nat
  BY DEF LoopInv, TypeInv
<1> QED BY <1>1, <1>2, StartupFits, FreshHandler

\* A step that touches none of it.
LEMMA IdleStep ==
    ASSUME LoopInv, UNCHANGED <<loop, root, meta, wisp, told, todo>>
    PROVE  LoopInv'
<1>1. todo' \in Seq(Steps(Len(wisp))) /\ Orderly(todo', Now)
  BY DEF LoopInv, TypeInv
<1>2. root = "closed" /\ Announced => Over(todo')
  BY DEF LoopInv, ClosedIsOver
<1> QED BY <1>1, <1>2, SameWisps

\* An agent closes a wisp, or a wisp is reaped, while a handler runs.
LEMMA OutsideStep ==
    ASSUME LoopInv, AgentCloses \/ Reap
    PROVE  LoopInv'
<1>1. PICK i \in DOMAIN wisp, st \in {"closed", "gone"} : wisp' = [wisp EXCEPT ![i].st = st]
  BY DEF AgentCloses, Reap
<1>2. UNCHANGED <<loop, root, meta, told, todo>>
  BY DEF AgentCloses, Reap
<1>3. i \in 1..Len(wisp) /\ Len(wisp) \in Nat
  BY DEF LoopInv, TypeInv
<1>4. st \in {"spec", "live", "closed", "gone"}
  OBVIOUS
<1>5. /\ wisp' \in Seq(Wisps) /\ Len(wisp') = Len(wisp)
      /\ \E b \in Nat : \A j \in 1..Len(wisp') : wisp'[j].iter <= b
  BY <1>1, <1>3, <1>4, StatusChange
<1>6. todo' \in Seq(Steps(Len(wisp'))) /\ Orderly(todo', Now)
  BY <1>2, <1>5 DEF LoopInv, TypeInv
<1>7. root = "closed" /\ Announced => Over(todo')
  BY <1>2 DEF LoopInv, ClosedIsOver
<1>8. Len(wisp') >= Len(wisp)
  BY <1>3, <1>5
<1> QED BY <1>2, <1>5, <1>6, <1>7, <1>8, SameStory

\* Every step keeps the invariant.
LEMMA LoopNext ==
    ASSUME LoopInv, [Next]_vars
    PROVE  LoopInv'
<1>1. CASE Command
  BY <1>1, CreateStep, ApproveStep, StopStep, IterateStep DEF Command
<1>2. CASE HandleTrigger
  BY <1>2, TriggerStep
<1>3. CASE Tick
  BY <1>3, TickStep
<1>4. CASE StoreStep
  BY <1>4, SetMetadataStep, SetReferenceStep, EmitEventStep, CreateBeadStep, CloseRootStep,
     SetWispStep, PourWispStep, EvaluateGateStep, ExpandStep, PopulateIndexStep,
     HandlerErrorStep DEF StoreStep
<1>5. CASE Restart
  BY <1>5, RestartStep
<1>6. CASE AgentCloses
  BY <1>6, OutsideStep
<1>7. CASE Trouble
  <2>1. CASE StoreFails
    BY <2>1, StoreFailsStep
  <2>2. CASE PourFails
    BY <2>2, PourFailsStep
  <2>3. CASE ScanFails
    BY <2>3, EmptyHandler DEF ScanFails
  <2>4. CASE Crash
    BY <2>4, EmptyHandler DEF Crash
  <2>5. CASE Reload
    BY <2>5, IdleStep DEF Reload
  <2>6. CASE Reap
    BY <2>6, OutsideStep
  <2> QED BY <1>7, <2>1, <2>2, <2>3, <2>4, <2>5, <2>6 DEF Trouble
<1>8. CASE UNCHANGED vars
  BY <1>8, IdleStep DEF vars
<1> QED BY <1>1, <1>2, <1>3, <1>4, <1>5, <1>6, <1>7, <1>8 DEF Next

\* Whatever crashes, fails or is reaped, every handler of the controller is in
\* order at every step: a creation is whole and rolled back when it fails, the
\* end is announced and its reason stored before the root is closed, and a loop
\* that was announced and is closed has nothing of weight left to do.
THEOREM LoopIsOrderly == Spec => []LoopInv
<1>1. Init => LoopInv
  BY LoopInit
<1>2. LoopInv /\ [Next]_vars => LoopInv'
  BY LoopNext
<1> QED BY <1>1, <1>2, PTL DEF Spec

\* The terminated event of a loop that was announced is emitted before its root
\* is closed, with the reason in its metadata: by the gate's decision, an
\* operator's approval or stop, or the reconciliation that completes any of
\* them after a crash.
THEOREM EndsAreAnnounced == Spec => []EndIsAnnounced
<1>1. LoopInv => EndIsAnnounced
  BY DEF LoopInv, ClosedIsOver, EndIsAnnounced, Told
<1> QED BY <1>1, LoopIsOrderly, PTL

-----------------------------------------------------------------------------
(* One wisp for a key.                                                     *)

\* A step that revives no wisp and renames none keeps the keys apart.
LEMMA FewerWisps ==
    ASSUME LoopInv, KeysAreIdempotent, loop' = loop, DOMAIN wisp' = DOMAIN wisp,
           \A i \in DOMAIN wisp : wisp'[i].iter = wisp[i].iter
                                  /\ (wisp[i].st = "gone" => wisp'[i].st = "gone")
    PROVE  KeysAreIdempotent'
BY DEF KeysAreIdempotent, OneWispPerIteration, Exists

\* So does a step that leaves the wisps alone.
LEMMA SameKeys ==
    ASSUME LoopInv, KeysAreIdempotent, UNCHANGED <<loop, wisp>>
    PROVE  KeysAreIdempotent'
BY DEF KeysAreIdempotent, OneWispPerIteration, Exists

\* The status of a wisp that exists changes.
LEMMA StatusKeepsKeys ==
    ASSUME LoopInv, KeysAreIdempotent, loop' = loop, NEW i \in DOMAIN wisp, Exists(i),
           NEW st \in {"spec", "live", "closed", "gone"}, wisp' = [wisp EXCEPT ![i].st = st]
    PROVE  KeysAreIdempotent'
<1>1. DOMAIN wisp = 1..Len(wisp)
  BY DEF LoopInv, TypeInv
<1>2. /\ wisp' \in Seq(Wisps) /\ Len(wisp') = Len(wisp)
      /\ \A j \in 1..Len(wisp) : wisp'[j].iter = wisp[j].iter /\ wisp'[j].st = IF j = i THEN st ELSE wisp[j].st
  BY <1>1, StatusChange
<1>3. DOMAIN wisp' = DOMAIN wisp
  BY <1>1, <1>2
<1>4. wisp[i].st # "gone"
  BY DEF Exists
<1> QED BY <1>1, <1>2, <1>3, <1>4, FewerWisps

\* A pour looks its key up among all the wisps there are.
LEMMA PourKeepsKeys ==
    ASSUME LoopInv, KeysAreIdempotent, loop' = loop, NEW n \in Nat, NEW kind,
           wisp' = Poured(n, kind)
    PROVE  KeysAreIdempotent'
<1>1. wisp \in Seq(Wisps) /\ Len(wisp) \in Nat /\ DOMAIN wisp = 1..Len(wisp)
  BY DEF LoopInv, TypeInv
<1>2. CASE Found(n) # None
  <2>1. wisp' = wisp
    BY <1>2, PouredIs
  <2> QED BY <2>1, SameKeys
<1>3. CASE Found(n) = None
  <2>1. /\ wisp' \in Seq(Wisps) /\ Len(wisp') = Len(wisp) + 1 /\ wisp'[Len(wisp) + 1].iter = n
        /\ \A j \in 1..Len(wisp) : wisp'[j] = wisp[j]
    BY <1>3, PouredIs
  <2>2. \A i \in Children : wisp[i].iter # n
    BY <1>3, FindIs DEF Found, LoopInv
  <2> SUFFICES ASSUME loop.listsClosed, NEW i \in DOMAIN wisp', NEW j \in DOMAIN wisp',
                      wisp'[i].st # "gone", wisp'[j].st # "gone", wisp'[i].iter = wisp'[j].iter
               PROVE  i = j
    BY DEF KeysAreIdempotent, OneWispPerIteration, Exists
  <2>3. \A k \in 1..Len(wisp) : wisp[k].st # "gone" => wisp[k].iter # n
    BY <1>1, <2>2 DEF Children, Open, Closed, Exists, None
  <2>4. /\ i \in 1..Len(wisp) \/ i = Len(wisp) + 1
        /\ j \in 1..Len(wisp) \/ j = Len(wisp) + 1
    BY <1>1, <2>1
  <2>5. \A k, m \in 1..Len(wisp) :
            wisp[k].st # "gone" /\ wisp[m].st # "gone" /\ wisp[k].iter = wisp[m].iter => k = m
    BY <1>1 DEF KeysAreIdempotent, OneWispPerIteration, Exists, None
  <2> QED BY <2>1, <2>3, <2>4, <2>5
<1> QED BY <1>2, <1>3

\* Every step keeps the keys apart.
LEMMA KeysNext ==
    ASSUME LoopInv, KeysAreIdempotent, [Next]_vars
    PROVE  KeysAreIdempotent'
<1>1. CASE UNCHANGED <<loop, wisp>>
  BY <1>1, SameKeys
<1>2. CASE CloseWisp \/ DeleteBead \/ ActivateWisp
  <2>1. PICK st : /\ st \in {"closed", "gone", "live", wisp[s0.w].st}
                  /\ wisp' = [wisp EXCEPT ![s0.w].st = st]
    BY <1>2 DEF CloseWisp, DeleteBead, ActivateWisp, SetWisp
  <2>2. /\ todo # << >> /\ s0.op \in {"close_wisp", "delete", "activate"} /\ Exists(s0.w)
        /\ loop' = loop
    BY <1>2 DEF CloseWisp, DeleteBead, ActivateWisp, SetWisp, At
  <2>3. s0 \in Steps(Len(wisp)) /\ Len(wisp) \in Nat
    BY <2>2, HeadIs
  <2>4. s0.w \in 0..Len(wisp) /\ DOMAIN wisp = 1..Len(wisp)
    BY <2>2, <2>3 DEF Steps, LoopInv, TypeInv
  <2>5. s0.w \in DOMAIN wisp
    BY <2>2, <2>3, <2>4 DEF Exists, None
  <2>6. st \in {"spec", "live", "closed", "gone"}
    <3>1. wisp[s0.w] \in Wisps
      BY <2>4, <2>5 DEF LoopInv, TypeInv
    <3> QED BY <2>1, <3>1 DEF Wisps
  <2> QED BY <2>1, <2>2, <2>5, <2>6, StatusKeepsKeys
<1>3. CASE AgentCloses \/ Reap
  <2>1. PICK i \in DOMAIN wisp, st \in {"closed", "gone"} :
            wisp[i].st # "gone" /\ wisp' = [wisp EXCEPT ![i].st = st]
    BY <1>3 DEF AgentCloses, Reap, Exists
  <2>2. loop' = loop
    BY <1>3 DEF AgentCloses, Reap
  <2>3. DOMAIN wisp = 1..Len(wisp) /\ Len(wisp) \in Nat
    BY DEF LoopInv, TypeInv
  <2>4. Exists(i) /\ st \in {"spec", "live", "closed", "gone"}
    BY <2>1, <2>3 DEF Exists, None
  <2> QED BY <2>1, <2>2, <2>4, StatusKeepsKeys
<1>4. CASE PourWisp \/ PourFails
  <2>1. /\ todo # << >> /\ s0.op = "pour" /\ loop' = loop
        /\ wisp' = wisp \/ wisp' = Poured(s0.w, s0.key)
    BY <1>4 DEF PourWisp, PourFails, At
  <2>2. s0.w \in Nat
    BY <2>1, HeadIs DEF Steps
  <2> QED BY <2>1, <2>2, PourKeepsKeys, SameKeys
<1> QED
  <2>1. CASE Command \/ HandleTrigger \/ Tick \/ Restart \/ UNCHANGED vars
    <3>1. UNCHANGED <<loop, wisp>>
      BY <2>1 DEF Command, HandleTrigger, Tick, Restart, vars, Create, Approve, Stop, IterateHandler, Begin
    <3> QED BY <1>1, <3>1
  <2>2. CASE SetMetadata \/ SetReference \/ EmitEvent \/ CreateConvergenceBead \/ CloseRootBead
             \/ EvaluateGate \/ Expand \/ PopulateIndex \/ HandlerError
    <3>1. UNCHANGED <<loop, wisp>>
      BY <2>2 DEF SetMetadata, SetReference, EmitEvent, CreateConvergenceBead, CloseRootBead,
         EvaluateGate, Expand, PopulateIndex, HandlerError
    <3> QED BY <1>1, <3>1
  <2>3. CASE StoreFails \/ ScanFails \/ Crash \/ Reload
    <3>1. UNCHANGED <<loop, wisp>>
      BY <2>3 DEF StoreFails, ScanFails, Crash, Reload
    <3> QED BY <1>1, <3>1
  <2> QED BY <1>2, <1>3, <1>4, <2>1, <2>2, <2>3 DEF Next, StoreStep, Trouble

\* Through crashes, failed calls, retried pours and reaped wisps, at most one
\* wisp exists for an iteration of a loop over a store that lists closed wisps:
\* pourWisp finds the wisp its key names, even one whose creation returned an
\* error or whose handler died before it recorded it.
THEOREM KeysHaveOneWisp == Spec => []KeysAreIdempotent
<1>1. Init => KeysAreIdempotent
  <2>1. Init => wisp = << >>
    BY DEF Init
  <2>2. wisp = << >> => DOMAIN wisp = {}
    OBVIOUS
  <2> QED BY <2>1, <2>2 DEF KeysAreIdempotent, OneWispPerIteration
<1>2. LoopInv /\ KeysAreIdempotent /\ [Next]_vars => KeysAreIdempotent'
  BY KeysNext
<1> QED BY <1>1, <1>2, LoopIsOrderly, PTL DEF Spec

-----------------------------------------------------------------------------
(* Wisps and the handler, while nobody else removes a wisp.  Here is what  *)
(* the steps to come depend on.                                            *)

Here == [loop |-> loop, state |-> meta.state, formula |-> meta.formula,
         active |-> meta.active, pending |-> meta.pending,
         open |-> {i \in DOMAIN wisp : Open(i)}, shut |-> {i \in DOMAIN wisp : Closed(i)},
         iter |-> [i \in DOMAIN wisp |-> wisp[i].iter], count |-> ClosedCount]

Waiting == {"waiting_manual", "waiting_trigger"}

There(c) == c.open \cup c.shut
Empty(c) == c.open = {} /\ c.shut = {}
AllOpen(c, n)  == \A i \in c.open : c.iter[i] = n
OnlyOpen(c, x) == \A i \in c.open : i = x
Speculates(c, w) == c.loop.gate = "condition" /\ ~c.loop.trigger /\ c.iter[w] < c.loop.max

\* No wisp that is listed is of a later iteration than n.
UpTo(c, n) == c.loop.listsClosed => c.count <= n

\* At most one wisp is open.
OneOpen(c) == \A i, j \in c.open : i = j

\* Over a listing with closed wisps, the iterations are numbered without a gap
\* and the open one is the next.
Counted(c) ==
    c.loop.listsClosed =>
        /\ AllOpen(c, c.count + 1)
        /\ \A i \in c.shut : c.iter[i] \in 1..c.count
        /\ \A n \in 1..c.count : \E i \in c.shut : c.iter[i] = n
        /\ \A i, j \in c.shut : c.iter[i] = c.iter[j] => i = j

\* Where the open wisp stands, by the state of the loop.
Placed(c) ==
    /\ c.active # None => c.active \in There(c)
    /\ c.state = "active" /\ c.active \in c.shut =>
           /\ UpTo(c, c.iter[c.active] + 1)
           /\ c.open = {} \/ (AllOpen(c, c.iter[c.active] + 1) /\ Speculates(c, c.active))
    /\ c.state \in Waiting \/ (c.state = "active" /\ c.active = None) =>
           AllOpen(c, c.count + 1)
    /\ c.state = "waiting_manual" => c.active = None
    /\ c.state = "waiting_trigger" => c.loop.trigger
    /\ c.loop.trigger => c.pending = None
    /\ ~Given(c.state) => ~Given(c.formula)
    /\ ~Given(c.formula) \/ c.state = "creating" => Empty(c)

Kept(c) == OneOpen(c) /\ Counted(c) /\ Placed(c)

-----------------------------------------------------------------------------
(* What each step that matters to a wisp relies on.                        *)

SetsActive(s) == s.op = "ref" /\ s.key = "active"
Sets(s, v)    == SetsState(s) /\ s.v = v
Judges(s)     == s.op \in {"handle", "gate", "settle"}

\* No wisp goes, or becomes the active one, before step k.
Settled(q, k) == \A j \in 1..k - 1 : q[j].op # "delete" /\ ~SetsActive(q[j])

\* Nor does the loop change its state.
Unmoved(q, k) == Settled(q, k) /\ \A j \in 1..k - 1 : ~SetsState(q[j])

\* What comes before step k.
Deletes(q, k, i)   == \E j \in 1..k - 1 : q[j].op = "delete" /\ q[j].w = i
Activates(q, k)    == \E j \in 1..k - 1 : SetsActive(q[j])
Becomes(q, k, v)   == \E j \in 1..k - 1 : Sets(q[j], v)
NeverWaits(q, k)   == \A j \in 1..k - 1 : SetsState(q[j]) => q[j].v \notin Waiting
FirstDelete(q, k)  == \A j \in 1..k - 1 : q[j].op # "delete"

\* The loop is left without a wisp, or with one.
EndsIdle(q) == \A j \in 1..Len(q) : SetsActive(q[j]) => q[j].w = None
EndsBusy(q) == \A j \in 1..Len(q) : SetsActive(q[j]) => q[j].w # None

\* A pour is of the iteration of the open wisp, or of the next one.
PourSuits(q, c, k) ==
    /\ q[k].w >= 1 /\ AllOpen(c, q[k].w) /\ UpTo(c, q[k].w)
    /\ c.loop.listsClosed \/ q[k].key # "speculative" => q[k].w <= c.count + 1
    /\ q[k].key # "create" => Unmoved(q, k)
    /\ q[k].key = "create" =>
           /\ Settled(q, k) /\ Empty(c) /\ c.active = None
           /\ c.state \notin Waiting /\ NeverWaits(q, k)
    /\ q[k].key = "speculative" =>
           /\ c.state = "active" /\ c.active = q[k].x /\ q[k].x \in c.shut
           /\ q[k].w = c.iter[q[k].x] + 1 /\ Speculates(c, q[k].x)
    /\ q[k].key = "manual" => c.state = "waiting_manual"
    /\ q[k].key = "trigger" => c.state = "waiting_trigger"
    /\ q[k].key = "first" => ~Given(c.state)
    /\ q[k].key = "recover" => c.state = "active" /\ c.active = None

\* A wisp that may be deleted.
Spare(c, x) ==
    /\ x \in There(c) /\ x # c.active
    /\ x \in c.shut => UpTo(c, c.iter[x]) /\ (c.loop.listsClosed => c.open = {})

\* What is judged is the active wisp, closed; x is the one poured ahead.
JudgeSuits(q, c, k) ==
    /\ Unmoved(q, k)
    /\ q[k].w = c.active /\ q[k].w \in c.shut
    /\ c.state = "active" \/ c.state = "waiting_trigger"
    /\ q[k].op # "handle" =>
           IF q[k].x = None THEN AllOpen(c, c.count + 1)
           ELSE /\ Spare(c, q[k].x) /\ OnlyOpen(c, q[k].x)
                /\ ~c.loop.trigger /\ q[k].v # "pour_failed"

\* What is deleted was poured ahead, and the loop does not come to work on it.
DeleteSuits(q, c, k) ==
    Spare(c, q[k].w) /\ FirstDelete(q, k) /\ EndsIdle(q)

\* The loop lets go of its wisp: none is open but the next one.
LetsGo(q, c, k) ==
    \A i \in c.open : c.iter[i] = c.count + 1 \/ Deletes(q, k, i)

\* The loop may work on w.
Works(c, w) == w \in There(c) /\ OnlyOpen(c, w) /\ UpTo(c, c.iter[w])

ActiveSuits(q, c, k) ==
    IF q[k].w = None THEN LetsGo(q, c, k)
    ELSE /\ Works(c, q[k].w)
         /\ c.state # "waiting_manual" \/ Becomes(q, k, "active")

StateSuits(q, c, k) ==
    /\ Given(q[k].v)
    /\ q[k].v = "creating" => Empty(c)
    /\ q[k].v \in Waiting => LetsGo(q, c, k)
    /\ q[k].v = "waiting_manual" =>
           (c.active = None \/ Activates(q, k)) /\ EndsIdle(q)
    /\ q[k].v = "waiting_trigger" => c.loop.trigger
    /\ q[k].v = "active" =>
           /\ AllOpen(c, c.count + 1)
           /\ c.active = None \/ Works(c, c.active) \/ Activates(q, k)
           /\ EndsBusy(q)

\* The formula is written once the loop has a state.
FormulaSuits(q, c, k) ==
    Given(q[k].v) /\ (Given(c.state) \/ Becomes(q, k, "creating"))

\* A burn comes with a write; what may be skipped is no such step.
FailSuits(q, c, k) ==
    /\ q[k].fail = "burn" => /\ q[k].op \in {"set", "ref"} /\ Settled(q, k)
                             /\ q[k].x # None => Spare(c, q[k].x)
    /\ q[k].fail = "skip" => /\ q[k].op # "delete" /\ ~SetsActive(q[k])
                             /\ SetsState(q[k]) => q[k].v = "terminated"

Suits(q, c, k) ==
    /\ q[k].op = "pour" => PourSuits(q, c, k)
    /\ Judges(q[k]) => JudgeSuits(q, c, k)
    /\ q[k].op = "delete" => DeleteSuits(q, c, k)
    /\ SetsActive(q[k]) => ActiveSuits(q, c, k)
    /\ SetsState(q[k]) => StateSuits(q, c, k)
    /\ q[k].op = "set" /\ q[k].key = "formula" => FormulaSuits(q, c, k)
    /\ q[k].op = "ref" /\ q[k].key = "pending" => q[k].w = None \/ ~c.loop.trigger
    /\ FailSuits(q, c, k)

Tends(q, c) == \A k \in 1..Len(q) : Suits(q, c, k)

\* Before the root is created.
Barren == Empty(Here) /\ ~Given(meta.state) /\ ~Given(meta.formula) /\ meta.active = None

Fresh(q) ==
    \/ q # << >> /\ q[1].op = "create"
    \/ \A k \in 1..Len(q) : q[k].op \in {"reconcile", "index"}

Unborn == root = "none" => Barren /\ Fresh(todo)

Held == Kept(Here) /\ Tends(todo, Here) /\ Unborn

WispInv == trouble.reap = 0 => Held

-----------------------------------------------------------------------------
(* Steps done, and what they leave to do.                                  *)

\* Numbers in range, and no wisp both open and closed.
Sized(c) ==
    /\ c.open \cap c.shut = {} /\ None \notin c.open /\ None \notin c.shut
    /\ \A i \in There(c) : c.iter[i] \in Nat
    /\ c.count \in Nat /\ (~c.loop.listsClosed => c.count = 0)

\* Positions before and after the first step is gone.
LEMMA ShiftIs ==
    ASSUME NEW S, NEW q \in Seq(S), q # << >>, NEW k \in 1..Len(Tail(q))
    PROVE  /\ k + 1 \in 1..Len(q) /\ Tail(q)[k] = q[k + 1]
           /\ \A j \in 1..k - 1 : j + 1 \in 1..(k + 1) - 1 /\ Tail(q)[j] = q[j + 1]
           /\ 1 \in 1..(k + 1) - 1
           /\ \A j \in 1..(k + 1) - 1 : j = 1 \/ (j - 1 \in 1..k - 1 /\ Tail(q)[j - 1] = q[j])
           /\ \A j \in 1..Len(Tail(q)) : j + 1 \in 1..Len(q) /\ Tail(q)[j] = q[j + 1]
           /\ \A j \in 1..Len(Tail(q)) : j < k => j + 1 < k + 1
<1>1. /\ Len(q) \in Nat \ {0} /\ Len(Tail(q)) = Len(q) - 1
      /\ \A j \in 1..Len(Tail(q)) : j + 1 \in 1..Len(q) /\ Tail(q)[j] = q[j + 1]
      /\ \A j \in 2..Len(q) : j - 1 \in 1..Len(Tail(q)) /\ Tail(q)[j - 1] = q[j]
  BY TailIs
<1>2. k \in Nat /\ k + 1 \in 1..Len(q)
  BY <1>1
<1>3. ASSUME NEW j \in 1..k - 1
      PROVE  j + 1 \in 1..(k + 1) - 1 /\ Tail(q)[j] = q[j + 1]
  <2>1. j \in 1..Len(Tail(q)) /\ j + 1 \in 1..(k + 1) - 1
    BY <1>1, <1>2
  <2> QED BY <1>1, <2>1
<1>4. ASSUME NEW j \in 1..(k + 1) - 1, j # 1
      PROVE  j - 1 \in 1..k - 1 /\ Tail(q)[j - 1] = q[j]
  <2>1. j \in 2..Len(q) /\ j - 1 \in 1..k - 1
    BY <1>1, <1>2, <1>4
  <2> QED BY <1>1, <2>1
<1>5. 1 \in 1..(k + 1) - 1
  BY <1>2
<1>6. \A j \in 1..Len(Tail(q)) : j < k => j + 1 < k + 1
  BY <1>1, <1>2
<1> QED BY <1>1, <1>2, <1>3, <1>4, <1>5, <1>6

\* The same wisps.
Alike(c, d) == /\ d.loop = c.loop /\ d.open = c.open /\ d.shut = c.shut
               /\ d.iter = c.iter /\ d.count = c.count

\* What is said of the wisps alone.
LEMMA AlikeIs ==
    ASSUME NEW c, NEW d, Alike(c, d)
    PROVE  /\ There(d) = There(c) /\ (Empty(d) <=> Empty(c))
           /\ \A n : (AllOpen(d, n) <=> AllOpen(c, n)) /\ (OnlyOpen(d, n) <=> OnlyOpen(c, n))
           /\ \A n : (UpTo(d, n) <=> UpTo(c, n)) /\ (Speculates(d, n) <=> Speculates(c, n))
           /\ \A n : Works(d, n) <=> Works(c, n)
           /\ \A q, k : LetsGo(q, d, k) <=> LetsGo(q, c, k)
           /\ (OneOpen(d) <=> OneOpen(c)) /\ (Counted(d) <=> Counted(c)) /\ (Sized(d) <=> Sized(c))
           /\ d.active = c.active => \A x : Spare(d, x) <=> Spare(c, x)
<1>1. d.loop = c.loop /\ d.open = c.open /\ d.shut = c.shut /\ d.iter = c.iter /\ d.count = c.count
  BY DEF Alike
<1>2. There(d) = There(c) /\ (Empty(d) <=> Empty(c))
  BY <1>1 DEF There, Empty
<1>3. \A n : (AllOpen(d, n) <=> AllOpen(c, n)) /\ (OnlyOpen(d, n) <=> OnlyOpen(c, n))
  BY <1>1 DEF AllOpen, OnlyOpen
<1>4. \A n : (UpTo(d, n) <=> UpTo(c, n)) /\ (Speculates(d, n) <=> Speculates(c, n))
  BY <1>1 DEF UpTo, Speculates
<1>5. \A n : Works(d, n) <=> Works(c, n)
  BY <1>1, <1>2, <1>3, <1>4 DEF Works
<1>6. \A q, k : LetsGo(q, d, k) <=> LetsGo(q, c, k)
  BY <1>1 DEF LetsGo
<1>7. (OneOpen(d) <=> OneOpen(c)) /\ (Counted(d) <=> Counted(c))
  BY <1>1, <1>3 DEF OneOpen, Counted
<1>8. Sized(d) <=> Sized(c)
  BY <1>1, <1>2 DEF Sized
<1>9. d.active = c.active => \A x : Spare(d, x) <=> Spare(c, x)
  BY <1>1, <1>2, <1>4 DEF Spare
<1> QED BY <1>2, <1>3, <1>4, <1>5, <1>6, <1>7, <1>8, <1>9

\* What is said of the steps alone.
LEMMA ShiftKeeps ==
    ASSUME NEW S, NEW q \in Seq(S), q # << >>, NEW k \in 1..Len(Tail(q))
    PROVE  LET t == Tail(q)
               m == k + 1
           IN  /\ m \in 1..Len(q) /\ t[k] = q[m] /\ 1 \in 1..Len(q)
               /\ Settled(q, m) => Settled(t, k) /\ q[1].op # "delete" /\ ~SetsActive(q[1])
               /\ Unmoved(q, m) => Unmoved(t, k) /\ q[1].op # "delete" /\ ~SetsActive(q[1])
                                   /\ ~SetsState(q[1])
               /\ EndsIdle(q) => EndsIdle(t) /\ (SetsActive(q[1]) => q[1].w = None)
               /\ EndsBusy(q) => EndsBusy(t) /\ (SetsActive(q[1]) => q[1].w # None)
               /\ FirstDelete(q, m) => FirstDelete(t, k) /\ q[1].op # "delete"
               /\ NeverWaits(q, m) => NeverWaits(t, k) /\ (SetsState(q[1]) => q[1].v \notin Waiting)
               /\ Activates(q, m) => SetsActive(q[1]) \/ Activates(t, k)
               /\ \A v : Becomes(q, m, v) => Sets(q[1], v) \/ Becomes(t, k, v)
               /\ \A i : Deletes(q, m, i) => (q[1].op = "delete" /\ q[1].w = i) \/ Deletes(t, k, i)
<1> DEFINE t == Tail(q)
           m == k + 1
<1>1. /\ m \in 1..Len(q) /\ t[k] = q[m]
      /\ 1 \in 1..m - 1
      /\ \A j \in 1..Len(t) : j + 1 \in 1..Len(q) /\ t[j] = q[j + 1]
  BY ShiftIs
<1>2. \A j \in 1..k - 1 : j + 1 \in 1..m - 1 /\ t[j] = q[j + 1]
  BY ShiftIs
<1>3. \A j \in 1..m - 1 : j = 1 \/ (j - 1 \in 1..k - 1 /\ t[j - 1] = q[j])
  BY ShiftIs
<1>4. 1 \in 1..Len(q)
  BY TailIs
<1> HIDE DEF t, m
<1>5. Settled(q, m) => Settled(t, k) /\ q[1].op # "delete" /\ ~SetsActive(q[1])
  BY <1>1, <1>2, Zenon DEF Settled
<1>6. Unmoved(q, m) => Unmoved(t, k) /\ q[1].op # "delete" /\ ~SetsActive(q[1]) /\ ~SetsState(q[1])
  BY <1>1, <1>2, <1>5, Zenon DEF Unmoved
<1>7. /\ EndsIdle(q) => EndsIdle(t) /\ (SetsActive(q[1]) => q[1].w = None)
      /\ EndsBusy(q) => EndsBusy(t) /\ (SetsActive(q[1]) => q[1].w # None)
  BY <1>1, <1>4, Zenon DEF EndsIdle, EndsBusy
<1>8. FirstDelete(q, m) => FirstDelete(t, k) /\ q[1].op # "delete"
  BY <1>1, <1>2, Zenon DEF FirstDelete
<1>9. NeverWaits(q, m) => NeverWaits(t, k) /\ (SetsState(q[1]) => q[1].v \notin Waiting)
  BY <1>1, <1>2, Zenon DEF NeverWaits
<1>10. Activates(q, m) => SetsActive(q[1]) \/ Activates(t, k)
  BY <1>3, Zenon DEF Activates
<1>11. \A v : Becomes(q, m, v) => Sets(q[1], v) \/ Becomes(t, k, v)
  BY <1>3, Zenon DEF Becomes
<1>12. \A i : Deletes(q, m, i) => (q[1].op = "delete" /\ q[1].w = i) \/ Deletes(t, k, i)
  BY <1>3, Zenon DEF Deletes
<1>13. m \in 1..Len(q) /\ t[k] = q[m]
  BY <1>1
<1> QED BY <1>4, <1>5, <1>6, <1>7, <1>8, <1>9, <1>10, <1>11, <1>12, <1>13, Zenon DEF t, m

\* What a step relies on does not rely on a step without weight before it.
LEMMA LighterHead ==
    ASSUME NEW S, NEW q \in Seq(S), q # << >>, NEW c, Tends(q, c),
           q[1].op # "delete", ~SetsActive(q[1]), SetsState(q[1]) => q[1].v = "terminated"
    PROVE  Tends(Tail(q), c)
<1> DEFINE t == Tail(q)
<1> SUFFICES ASSUME NEW k \in 1..Len(t) PROVE Suits(t, c, k)
  BY DEF Tends
<1> DEFINE m == k + 1
<1>1. m \in 1..Len(q) /\ t[k] = q[m]
  BY ShiftKeeps
<1>2. /\ Settled(q, m) => Settled(t, k)
      /\ Unmoved(q, m) => Unmoved(t, k)
      /\ EndsIdle(q) => EndsIdle(t)
      /\ EndsBusy(q) => EndsBusy(t)
      /\ FirstDelete(q, m) => FirstDelete(t, k)
      /\ NeverWaits(q, m) => NeverWaits(t, k)
      /\ Activates(q, m) => Activates(t, k)
  BY ShiftKeeps
<1>3. /\ LetsGo(q, c, m) => LetsGo(t, c, k)
      /\ Becomes(q, m, "active") => Becomes(t, k, "active")
      /\ Becomes(q, m, "creating") => Becomes(t, k, "creating")
  <2>1. ~Sets(q[1], "active") /\ ~Sets(q[1], "creating")
    BY DEF Sets
  <2>2. \A i : Deletes(q, m, i) => Deletes(t, k, i)
    BY ShiftKeeps
  <2>3. \A v : Becomes(q, m, v) => Sets(q[1], v) \/ Becomes(t, k, v)
    BY ShiftKeeps
  <2> QED BY <2>1, <2>2, <2>3 DEF LetsGo
<1> HIDE DEF t, m
<1>4. Suits(q, c, m)
  BY <1>1 DEF Tends
<1>5. PourSuits(q, c, m) => PourSuits(t, c, k)
  BY <1>1, <1>2 DEF PourSuits
<1>6. JudgeSuits(q, c, m) => JudgeSuits(t, c, k)
  BY <1>1, <1>2 DEF JudgeSuits
<1>7. DeleteSuits(q, c, m) => DeleteSuits(t, c, k)
  BY <1>1, <1>2 DEF DeleteSuits
<1>8. ActiveSuits(q, c, m) => ActiveSuits(t, c, k)
  BY <1>1, <1>3 DEF ActiveSuits
<1>9. StateSuits(q, c, m) => StateSuits(t, c, k)
  BY <1>1, <1>2, <1>3 DEF StateSuits
<1>10. FormulaSuits(q, c, m) => FormulaSuits(t, c, k)
  BY <1>1, <1>3 DEF FormulaSuits
<1>11. FailSuits(q, c, m) => FailSuits(t, c, k)
  BY <1>1, <1>2 DEF FailSuits
<1> QED BY <1>1, <1>4, <1>5, <1>6, <1>7, <1>8, <1>9, <1>10, <1>11 DEF Suits

\* Nothing comes before the first step.
LEMMA FirstStep ==
    ASSUME NEW q
    PROVE  /\ ~Activates(q, 1) /\ \A i : ~Deletes(q, 1, i) /\ ~Becomes(q, 1, i)
           /\ Settled(q, 1) /\ Unmoved(q, 1) /\ FirstDelete(q, 1) /\ NeverWaits(q, 1)
           /\ \A c : LetsGo(q, c, 1) <=> AllOpen(c, c.count + 1)
<1>1. 1..1 - 1 = {}
  OBVIOUS
<1>2. \A i : ~Deletes(q, 1, i)
  BY <1>1 DEF Deletes
<1>3. \A c : LetsGo(q, c, 1) <=> AllOpen(c, c.count + 1)
  BY <1>2 DEF LetsGo, AllOpen
<1> QED BY <1>1, <1>2, <1>3 DEF Activates, Becomes, Settled, Unmoved, FirstDelete, NeverWaits

\* The state is written.
LEMMA StateWritten ==
    ASSUME NEW S, NEW q \in Seq(S), q # << >>, NEW c, NEW d, Tends(q, c), SetsState(q[1]),
           Alike(c, d), d.active = c.active, d.state = q[1].v
    PROVE  Tends(Tail(q), d)
<1> DEFINE t == Tail(q)
<1> SUFFICES ASSUME NEW k \in 1..Len(t) PROVE Suits(t, d, k)
  BY DEF Tends
<1> DEFINE m == k + 1
<1>1. m \in 1..Len(q) /\ t[k] = q[m] /\ 1 \in 1..Len(q)
  BY ShiftKeeps
<1>2. q[1].op # "delete" /\ ~SetsActive(q[1])
  BY DEF SetsState, SetsActive
<1>3. /\ Settled(q, m) => Settled(t, k)
      /\ ~Unmoved(q, m)
      /\ EndsIdle(q) => EndsIdle(t)
      /\ EndsBusy(q) => EndsBusy(t)
      /\ FirstDelete(q, m) => FirstDelete(t, k)
      /\ NeverWaits(q, m) => NeverWaits(t, k) /\ d.state \notin Waiting
      /\ Activates(q, m) => Activates(t, k)
  BY <1>2, ShiftKeeps
<1>4. LetsGo(q, c, m) => LetsGo(t, d, k)
  <2>1. \A i : Deletes(q, m, i) => Deletes(t, k, i)
    BY <1>2, ShiftKeeps
  <2>2. LetsGo(q, c, m) => LetsGo(t, c, k)
    BY <2>1 DEF LetsGo
  <2> QED BY <2>2, AlikeIs
<1>5. \A v : Becomes(q, m, v) => d.state = v \/ Becomes(t, k, v)
  <2>1. \A v : Becomes(q, m, v) => Sets(q[1], v) \/ Becomes(t, k, v)
    BY ShiftKeeps
  <2> QED BY <2>1 DEF Sets
<1> HIDE DEF t, m
<1>6. Suits(q, c, m) /\ StateSuits(q, c, 1)
  BY <1>1 DEF Tends, Suits
<1>7. /\ (Empty(d) <=> Empty(c)) /\ \A n : Works(d, n) <=> Works(c, n)
      /\ \A n : (AllOpen(d, n) <=> AllOpen(c, n)) /\ (UpTo(d, n) <=> UpTo(c, n))
      /\ \A x : Spare(d, x) <=> Spare(c, x)
      /\ d.loop = c.loop /\ d.count = c.count
  BY AlikeIs DEF Alike
<1>8. PourSuits(q, c, m) => PourSuits(t, d, k)
  BY <1>1, <1>3, <1>7 DEF PourSuits
<1>9. ~JudgeSuits(q, c, m)
  BY <1>3 DEF JudgeSuits
<1>10. DeleteSuits(q, c, m) => DeleteSuits(t, d, k)
  BY <1>1, <1>3, <1>7 DEF DeleteSuits
<1>11. SetsActive(q[m]) /\ ActiveSuits(q, c, m) => ActiveSuits(t, d, k)
  <2> SUFFICES ASSUME SetsActive(q[m]), ActiveSuits(q, c, m) PROVE ActiveSuits(t, d, k)
    OBVIOUS
  <2>1. CASE q[m].w = None
    BY <1>1, <1>4, <2>1 DEF ActiveSuits
  <2>2. CASE q[m].w # None
    <3>1. ~EndsIdle(q)
      BY <1>1, <2>2 DEF EndsIdle
    <3>2. d.state # "waiting_manual"
      BY <1>6, <3>1 DEF StateSuits
    <3> QED BY <1>1, <1>7, <2>2, <3>2 DEF ActiveSuits
  <2> QED BY <2>1, <2>2
<1>12. StateSuits(q, c, m) => StateSuits(t, d, k)
  BY <1>1, <1>3, <1>4, <1>7 DEF StateSuits
<1>13. FormulaSuits(q, c, m) => FormulaSuits(t, d, k)
  BY <1>1, <1>6 DEF FormulaSuits, StateSuits
<1>14. FailSuits(q, c, m) => FailSuits(t, d, k)
  BY <1>1, <1>3, <1>7 DEF FailSuits
<1> QED BY <1>1, <1>6, <1>7, <1>8, <1>9, <1>10, <1>11, <1>12, <1>13, <1>14 DEF Suits

\* The place of the wisps in the new state.
LEMMA StatePlaced ==
    ASSUME NEW q, NEW c, NEW d, StateSuits(q, c, 1), Sized(c), Placed(c),
           Alike(c, d), d.active = c.active, d.formula = c.formula, d.pending = c.pending,
           d.state = q[1].v
    PROVE  Placed(d)
<1>1. /\ (Empty(d) <=> Empty(c)) /\ There(d) = There(c)
      /\ \A n : (AllOpen(d, n) <=> AllOpen(c, n)) /\ (UpTo(d, n) <=> UpTo(c, n))
      /\ d.loop = c.loop /\ d.count = c.count /\ d.open = c.open /\ d.shut = c.shut
      /\ d.iter = c.iter
  BY AlikeIs DEF Alike
<1>2. ~Activates(q, 1) /\ (LetsGo(q, c, 1) <=> AllOpen(c, c.count + 1))
  BY FirstStep
<1>3. Given(d.state)
  BY DEF StateSuits
<1>4. CASE d.state = "active"
  <2>1. AllOpen(c, c.count + 1) /\ (c.active = None \/ Works(c, c.active))
    BY <1>2, <1>4 DEF StateSuits
  <2>2. c.active \in c.shut => c.open = {} /\ UpTo(c, c.iter[c.active] + 1)
    <3> SUFFICES ASSUME c.active \in c.shut PROVE c.open = {} /\ UpTo(c, c.iter[c.active] + 1)
      OBVIOUS
    <3>1. c.active # None /\ c.active \notin c.open
      BY DEF Sized
    <3>2. OnlyOpen(c, c.active) /\ UpTo(c, c.iter[c.active])
      BY <2>1, <3>1 DEF Works
    <3>3. c.open = {}
      BY <3>1, <3>2 DEF OnlyOpen
    <3>4. c.count \in Nat /\ c.iter[c.active] \in Nat
      BY DEF Sized, There
    <3> QED BY <3>2, <3>3, <3>4 DEF UpTo
  <2> QED BY <1>1, <1>3, <1>4, <2>1, <2>2 DEF Placed, Waiting
<1>5. CASE d.state # "active"
  <2>1. d.state \in Waiting => AllOpen(c, c.count + 1)
    BY <1>2 DEF StateSuits
  <2>2. d.state = "waiting_manual" => c.active = None
    BY <1>2 DEF StateSuits
  <2>3. d.state = "waiting_trigger" => c.loop.trigger
    BY DEF StateSuits
  <2>4. d.state = "creating" => Empty(c)
    BY DEF StateSuits
  <2> QED BY <1>1, <1>3, <1>5, <2>1, <2>2, <2>3, <2>4 DEF Placed
<1> QED BY <1>4, <1>5

\* The active wisp is written.
LEMMA ActiveWritten ==
    ASSUME NEW S, NEW q \in Seq(S), q # << >>, NEW c, NEW d, Tends(q, c), SetsActive(q[1]),
           Sized(c), Alike(c, d), d.state = c.state, d.active = q[1].w
    PROVE  Tends(Tail(q), d)
<1> DEFINE t == Tail(q)
<1> SUFFICES ASSUME NEW k \in 1..Len(t) PROVE Suits(t, d, k)
  BY DEF Tends
<1> DEFINE m == k + 1
<1>1. m \in 1..Len(q) /\ t[k] = q[m] /\ 1 \in 1..Len(q)
  BY ShiftKeeps
<1>2. q[1].op # "delete" /\ ~SetsState(q[1])
  BY DEF SetsState, SetsActive
<1>3. /\ ~Settled(q, m) /\ ~Unmoved(q, m)
      /\ EndsIdle(q) => EndsIdle(t) /\ d.active = None
      /\ EndsBusy(q) => EndsBusy(t) /\ d.active # None
      /\ FirstDelete(q, m) => FirstDelete(t, k)
  BY <1>2, ShiftKeeps
<1>4. LetsGo(q, c, m) => LetsGo(t, d, k)
  <2>1. \A i : Deletes(q, m, i) => Deletes(t, k, i)
    BY <1>2, ShiftKeeps
  <2>2. LetsGo(q, c, m) => LetsGo(t, c, k)
    BY <2>1 DEF LetsGo
  <2> QED BY <2>2, AlikeIs
<1>5. \A v : Becomes(q, m, v) => Becomes(t, k, v)
  <2>1. \A v : Becomes(q, m, v) => Sets(q[1], v) \/ Becomes(t, k, v)
    BY ShiftKeeps
  <2> QED BY <1>2, <2>1 DEF Sets
<1> HIDE DEF t, m
<1>6. Suits(q, c, m) /\ ActiveSuits(q, c, 1)
  BY <1>1 DEF Tends, Suits
<1>7. /\ (Empty(d) <=> Empty(c)) /\ There(d) = There(c)
      /\ \A n : Works(d, n) <=> Works(c, n)
      /\ \A n : (AllOpen(d, n) <=> AllOpen(c, n)) /\ (UpTo(d, n) <=> UpTo(c, n))
      /\ d.loop = c.loop /\ d.count = c.count /\ d.open = c.open /\ d.shut = c.shut
      /\ d.iter = c.iter
  BY AlikeIs DEF Alike
<1>8. ~PourSuits(q, c, m) /\ ~JudgeSuits(q, c, m)
  BY <1>3 DEF PourSuits, JudgeSuits
<1>9. DeleteSuits(q, c, m) => DeleteSuits(t, d, k)
  <2> SUFFICES ASSUME DeleteSuits(q, c, m) PROVE DeleteSuits(t, d, k)
    OBVIOUS
  <2>1. Spare(c, q[m].w) /\ d.active = None
    BY <1>3 DEF DeleteSuits
  <2>2. q[m].w # None
    BY <2>1 DEF Spare, There, Sized
  <2>3. Spare(d, q[m].w)
    BY <1>7, <2>1, <2>2 DEF Spare
  <2> QED BY <1>1, <1>3, <2>3 DEF DeleteSuits
<1>10. ActiveSuits(q, c, m) => ActiveSuits(t, d, k)
  BY <1>1, <1>4, <1>5, <1>7 DEF ActiveSuits
<1>11. StateSuits(q, c, m) => StateSuits(t, d, k)
  <2> SUFFICES ASSUME StateSuits(q, c, m) PROVE StateSuits(t, d, k)
    OBVIOUS
  <2>1. q[m].v = "active" => Works(d, d.active)
    <3> SUFFICES ASSUME q[m].v = "active" PROVE Works(c, d.active)
      BY <1>7
    <3>1. d.active # None
      BY <1>3 DEF StateSuits
    <3> QED BY <1>6, <3>1 DEF ActiveSuits
  <2>2. q[m].v = "waiting_manual" => d.active = None
    BY <1>3 DEF StateSuits
  <2> QED BY <1>1, <1>3, <1>4, <1>7, <2>1, <2>2 DEF StateSuits
<1>12. FormulaSuits(q, c, m) => FormulaSuits(t, d, k)
  BY <1>1, <1>5 DEF FormulaSuits
<1>13. FailSuits(q, c, m) => FailSuits(t, d, k)
  BY <1>1, <1>3 DEF FailSuits
<1> QED BY <1>1, <1>6, <1>7, <1>8, <1>9, <1>10, <1>11, <1>12, <1>13 DEF Suits

\* The place of the new active wisp.
LEMMA ActivePlaced ==
    ASSUME NEW q, NEW c, NEW d, ActiveSuits(q, c, 1), Sized(c), Placed(c),
           Alike(c, d), d.state = c.state, d.formula = c.formula, d.pending = c.pending,
           d.active = q[1].w
    PROVE  Placed(d)
<1>1. /\ (Empty(d) <=> Empty(c)) /\ There(d) = There(c)
      /\ \A n : (AllOpen(d, n) <=> AllOpen(c, n)) /\ (UpTo(d, n) <=> UpTo(c, n))
      /\ d.loop = c.loop /\ d.count = c.count /\ d.open = c.open /\ d.shut = c.shut
      /\ d.iter = c.iter
  BY AlikeIs DEF Alike
<1>2. ~Becomes(q, 1, "active") /\ (LetsGo(q, c, 1) <=> AllOpen(c, c.count + 1))
  BY FirstStep
<1>3. CASE d.active = None
  <2>1. AllOpen(c, c.count + 1) /\ d.active \notin c.shut
    BY <1>2, <1>3 DEF ActiveSuits, Sized
  <2> QED BY <1>1, <1>3, <2>1 DEF Placed
<1>4. CASE d.active # None
  <2>1. Works(c, d.active) /\ c.state # "waiting_manual"
    BY <1>2, <1>4 DEF ActiveSuits
  <2>2. d.active \in c.shut => c.open = {} /\ UpTo(c, c.iter[d.active] + 1)
    <3> SUFFICES ASSUME d.active \in c.shut PROVE c.open = {} /\ UpTo(c, c.iter[d.active] + 1)
      OBVIOUS
    <3>1. d.active \notin c.open
      BY DEF Sized
    <3>2. OnlyOpen(c, d.active) /\ UpTo(c, c.iter[d.active])
      BY <2>1 DEF Works
    <3>3. c.open = {}
      BY <3>1, <3>2 DEF OnlyOpen
    <3>4. c.count \in Nat /\ c.iter[d.active] \in Nat
      BY DEF Sized, There
    <3> QED BY <3>2, <3>3, <3>4 DEF UpTo
  <2>3. d.active \in There(d)
    BY <1>1, <2>1 DEF Works
  <2> QED BY <1>1, <1>4, <2>1, <2>2, <2>3 DEF Placed
<1> QED BY <1>3, <1>4

-----------------------------------------------------------------------------
(* Wisps close, go and are poured.                                         *)

\* The same root.
SameRoot(c, d) == /\ d.loop = c.loop /\ d.state = c.state /\ d.formula = c.formula
                  /\ d.active = c.active /\ d.pending = c.pending

\* Wisp i closes.
Shuts(c, d, i) ==
    /\ SameRoot(c, d) /\ i \in c.open
    /\ d.open = c.open \ {i} /\ d.shut = c.shut \cup {i} /\ d.iter = c.iter
    /\ d.count = IF c.loop.listsClosed THEN c.count + 1 ELSE c.count

\* No wisp is open once the open one closes.
LEMMA ShutIs ==
    ASSUME NEW c, NEW d, NEW i, Shuts(c, d, i), Sized(c), OneOpen(c), Counted(c)
    PROVE  /\ d.open = {} /\ There(d) = There(c) /\ ~Empty(c) /\ c.count \in Nat
           /\ d.count >= c.count /\ c.count + 1 \in Nat /\ d.count \in Nat
           /\ \A n : AllOpen(d, n) /\ OnlyOpen(d, n)
           /\ c.loop.listsClosed => c.iter[i] = c.count + 1 /\ d.count = c.count + 1
           /\ c.iter[i] \in Nat
<1>1. \A j \in c.open : j = i
  BY DEF OneOpen, Shuts
<1>2. d.open = {}
  BY <1>1 DEF Shuts
<1>3. There(d) = There(c) /\ ~Empty(c)
  BY DEF There, Shuts, Empty
<1>4. c.count \in Nat
  BY DEF Sized
<1>5. \A n : AllOpen(d, n) /\ OnlyOpen(d, n)
  BY <1>2 DEF AllOpen, OnlyOpen
<1>6. c.loop.listsClosed => c.iter[i] = c.count + 1 /\ d.count = c.count + 1
  BY DEF Counted, AllOpen, Shuts
<1>7. c.iter[i] \in Nat
  BY DEF Sized, Shuts, There
<1>8. d.count >= c.count /\ c.count + 1 \in Nat /\ d.count \in Nat
  BY <1>4 DEF Shuts
<1> QED BY <1>2, <1>3, <1>4, <1>5, <1>6, <1>7, <1>8

\* A pour, or a wisp the loop is to work on, is as late as the open wisp.
LEMMA ShutUpTo ==
    ASSUME NEW c, NEW d, NEW i, Shuts(c, d, i), Sized(c), OneOpen(c), Counted(c)
    PROVE  /\ \A n : AllOpen(c, n) => UpTo(d, n)
           /\ \A n : OnlyOpen(c, n) => n = i /\ UpTo(d, c.iter[n])
<1>1. c.loop.listsClosed => c.iter[i] = c.count + 1 /\ d.count = c.count + 1
  BY ShutIs
<1>2. d.loop = c.loop /\ i \in c.open /\ c.count + 1 \in Nat
  BY ShutIs DEF Shuts, SameRoot
<1>3. ASSUME NEW n, AllOpen(c, n) PROVE UpTo(d, n)
  <2>1. c.iter[i] = n
    BY <1>2, <1>3 DEF AllOpen
  <2> QED BY <1>1, <1>2, <2>1 DEF UpTo
<1>4. ASSUME NEW n, OnlyOpen(c, n) PROVE n = i /\ UpTo(d, c.iter[n])
  <2>1. n = i
    BY <1>2, <1>4 DEF OnlyOpen
  <2> QED BY <1>1, <1>2, <2>1 DEF UpTo
<1> QED BY <1>3, <1>4

\* A wisp closes while a handler runs.
LEMMA ShutTends ==
    ASSUME NEW S, NEW q \in Seq(S), NEW c, NEW d, NEW i, Shuts(c, d, i), Sized(c),
           OneOpen(c), Counted(c), Tends(q, c)
    PROVE  Tends(q, d)
<1>1. /\ d.open = {} /\ There(d) = There(c) /\ ~Empty(c) /\ c.count \in Nat
      /\ d.count >= c.count /\ c.count + 1 \in Nat /\ d.count \in Nat
      /\ \A n : AllOpen(d, n) /\ OnlyOpen(d, n)
      /\ c.loop.listsClosed => c.iter[i] = c.count + 1 /\ d.count = c.count + 1
  BY ShutIs
<1>2. /\ d.loop = c.loop /\ d.state = c.state /\ d.active = c.active /\ d.iter = c.iter
      /\ d.shut = c.shut \cup {i} /\ i \in c.open
  BY DEF Shuts, SameRoot
<1>3. /\ \A n : AllOpen(c, n) => UpTo(d, n)
      /\ \A n : OnlyOpen(c, n) => n = i /\ UpTo(d, c.iter[n])
  BY ShutUpTo
<1> SUFFICES ASSUME NEW k \in 1..Len(q) PROVE Suits(q, d, k)
  BY DEF Tends
<1>4. Suits(q, c, k)
  BY DEF Tends
<1>5. LetsGo(q, d, k)
  BY <1>1 DEF LetsGo
<1>6. \A n : Works(c, n) => Works(d, n)
  BY <1>1, <1>2, <1>3 DEF Works
<1>7. \A n : Speculates(c, n) => Speculates(d, n)
  BY <1>2 DEF Speculates
<1>8. \A x : Spare(c, x) => Spare(d, x)
  <2> SUFFICES ASSUME NEW x, Spare(c, x) PROVE Spare(d, x)
    OBVIOUS
  <2>1. x \in There(d) /\ x # d.active
    BY <1>1, <1>2 DEF Spare
  <2>2. CASE x \in c.shut
    <3>1. ~c.loop.listsClosed
      BY <1>1, <1>2, <2>2 DEF Spare
    <3> QED BY <1>1, <1>2, <2>1, <3>1 DEF Spare, UpTo
  <2>3. CASE x \notin c.shut
    <3>1. x = i
      BY <2>3, <1>2 DEF Spare, There, OneOpen
    <3>2. OnlyOpen(c, x)
      BY <1>2, <3>1 DEF OneOpen, OnlyOpen
    <3> QED BY <1>1, <1>2, <1>3, <2>1, <3>2 DEF Spare
  <2> QED BY <2>2, <2>3
<1>9. q[k].op = "pour" => PourSuits(q, d, k)
  <2> SUFFICES ASSUME q[k].op = "pour" PROVE PourSuits(q, d, k)
    OBVIOUS
  <2>1. PourSuits(q, c, k)
    BY <1>4 DEF Suits
  <2>2. q[k].key # "create"
    BY <1>1, <2>1 DEF PourSuits
  <2>3. q[k].w = c.iter[i] /\ UpTo(d, q[k].w) /\ AllOpen(d, q[k].w)
    BY <1>1, <1>2, <1>3, <2>1 DEF PourSuits, AllOpen
  <2>4. c.iter[i] \in Nat
    BY <1>2 DEF Sized, There
  <2>5. d.loop.listsClosed \/ q[k].key # "speculative" => q[k].w <= d.count + 1
    BY <1>1, <1>2, <2>1, <2>3, <2>4 DEF PourSuits
  <2> QED BY <1>2, <1>7, <2>1, <2>2, <2>3, <2>5 DEF PourSuits
<1>10. JudgeSuits(q, c, k) => JudgeSuits(q, d, k)
  BY <1>1, <1>2, <1>8 DEF JudgeSuits
<1>11. DeleteSuits(q, c, k) => DeleteSuits(q, d, k)
  BY <1>8 DEF DeleteSuits
<1>12. ActiveSuits(q, c, k) => ActiveSuits(q, d, k)
  BY <1>2, <1>5, <1>6 DEF ActiveSuits
<1>13. StateSuits(q, c, k) => StateSuits(q, d, k)
  BY <1>1, <1>2, <1>5, <1>6 DEF StateSuits
<1>14. FormulaSuits(q, c, k) => FormulaSuits(q, d, k)
  BY <1>2 DEF FormulaSuits
<1>15. FailSuits(q, c, k) => FailSuits(q, d, k)
  BY <1>8 DEF FailSuits
<1> QED BY <1>2, <1>4, <1>9, <1>10, <1>11, <1>12, <1>13, <1>14, <1>15 DEF Suits

\* Nor does it disturb the numbers.
LEMMA ShutKept ==
    ASSUME NEW c, NEW d, NEW i, Shuts(c, d, i), Sized(c), Kept(c)
    PROVE  Kept(d)
<1>1. OneOpen(c) /\ Counted(c) /\ Placed(c)
  BY DEF Kept
<1>2. /\ d.open = {} /\ There(d) = There(c) /\ ~Empty(c) /\ c.count \in Nat
      /\ d.count >= c.count /\ c.count + 1 \in Nat /\ d.count \in Nat
      /\ \A n : AllOpen(d, n) /\ OnlyOpen(d, n)
      /\ c.loop.listsClosed => c.iter[i] = c.count + 1 /\ d.count = c.count + 1
  BY <1>1, ShutIs
<1>3. /\ d.loop = c.loop /\ d.state = c.state /\ d.active = c.active /\ d.iter = c.iter
      /\ d.formula = c.formula /\ d.pending = c.pending
      /\ d.shut = c.shut \cup {i} /\ i \in c.open
  BY DEF Shuts, SameRoot
<1>4. OneOpen(d)
  BY <1>2 DEF OneOpen
<1>5. Counted(d)
  <2> SUFFICES ASSUME c.loop.listsClosed
               PROVE  /\ AllOpen(d, d.count + 1)
                      /\ \A j \in d.shut : d.iter[j] \in 1..d.count
                      /\ \A n \in 1..d.count : \E j \in d.shut : d.iter[j] = n
                      /\ \A j, k \in d.shut : d.iter[j] = d.iter[k] => j = k
    BY <1>3 DEF Counted
  <2>1. /\ \A j \in c.shut : c.iter[j] \in 1..c.count
        /\ \A n \in 1..c.count : \E j \in c.shut : c.iter[j] = n
        /\ \A j, k \in c.shut : c.iter[j] = c.iter[k] => j = k
    BY <1>1 DEF Counted
  <2>2. c.iter[i] = c.count + 1 /\ d.count = c.count + 1
    BY <1>2
  <2>3. \A j \in d.shut : d.iter[j] \in 1..d.count
    BY <1>2, <1>3, <2>1, <2>2
  <2>4. ASSUME NEW n \in 1..d.count PROVE \E j \in d.shut : d.iter[j] = n
    <3>1. n \in 1..c.count \/ n = c.count + 1
      BY <1>2, <2>2
    <3> QED BY <1>3, <2>1, <2>2, <3>1
  <2>5. ASSUME NEW j \in d.shut, NEW k \in d.shut, d.iter[j] = d.iter[k] PROVE j = k
    <3>1. \A h \in c.shut : c.iter[h] # c.iter[i]
      BY <1>2, <2>1, <2>2
    <3> QED BY <1>3, <2>1, <2>5, <3>1
  <2> QED BY <1>2, <2>3, <2>4, <2>5
<1>6. Placed(d)
  <2>1. d.state = "active" /\ d.active \in d.shut => UpTo(d, d.iter[d.active] + 1)
    <3> SUFFICES ASSUME c.state = "active", c.active \in d.shut, c.loop.listsClosed
                 PROVE  d.count <= c.iter[c.active] + 1
      BY <1>3 DEF UpTo
    <3>1. CASE c.active = i
      BY <1>2, <3>1
    <3>2. CASE c.active \in c.shut
      <4>1. AllOpen(c, c.iter[c.active] + 1)
        BY <1>1, <1>3, <3>2 DEF Placed
      <4>2. c.iter[i] = c.iter[c.active] + 1
        BY <1>3, <4>1 DEF AllOpen
      <4> QED BY <1>2, <4>2
    <3> QED BY <1>3, <3>1, <3>2
  <2>2. Given(c.formula) /\ c.state # "creating"
    BY <1>1, <1>2 DEF Placed
  <2> QED BY <1>1, <1>2, <1>3, <2>1, <2>2 DEF Placed
<1> QED BY <1>4, <1>5, <1>6 DEF Kept

\* Wisp x goes.
Removes(c, d, x) ==
    /\ SameRoot(c, d)
    /\ d.open = c.open \ {x} /\ d.shut = c.shut \ {x} /\ d.iter = c.iter
    /\ d.count = IF c.loop.listsClosed /\ x \in c.shut THEN c.count - 1 ELSE c.count

\* A spare wisp was the last, so the others keep their numbers.
LEMMA RemoveIs ==
    ASSUME NEW c, NEW d, NEW x, Removes(c, d, x), Sized(c), OneOpen(c), Counted(c), Spare(c, x)
    PROVE  /\ d.count = c.count \/ c.open = {}
           /\ c.loop.listsClosed /\ x \in c.shut => c.iter[x] = c.count /\ c.count >= 1
           /\ c.count \in Nat /\ d.count \in Nat /\ d.count <= c.count
           /\ \A n \in There(c) : c.iter[n] \in Nat
<1>1. c.count \in Nat /\ \A n \in There(c) : c.iter[n] \in Nat
  BY DEF Sized
<1>2. c.loop.listsClosed /\ x \in c.shut => c.iter[x] = c.count /\ c.count >= 1
  <2> SUFFICES ASSUME c.loop.listsClosed, x \in c.shut PROVE c.iter[x] = c.count /\ c.count >= 1
    OBVIOUS
  <2>1. c.iter[x] \in 1..c.count /\ c.count <= c.iter[x]
    BY DEF Counted, Spare, UpTo
  <2> QED BY <1>1, <2>1
<1>3. d.count = c.count \/ c.open = {}
  BY DEF Removes, Spare
<1>4. d.count \in Nat /\ d.count <= c.count
  BY <1>1, <1>2 DEF Removes
<1> QED BY <1>1, <1>2, <1>3, <1>4

\* A spare wisp is deleted.
LEMMA RemoveTends ==
    ASSUME NEW S, NEW q \in Seq(S), q # << >>, NEW c, NEW d, q[1].op = "delete",
           Removes(c, d, q[1].w), Sized(c), OneOpen(c), Counted(c), Tends(q, c)
    PROVE  Tends(Tail(q), d)
<1> DEFINE t == Tail(q)
           x == q[1].w
<1> SUFFICES ASSUME NEW k \in 1..Len(t) PROVE Suits(t, d, k)
  BY DEF Tends
<1> DEFINE m == k + 1
<1>1. m \in 1..Len(q) /\ t[k] = q[m] /\ 1 \in 1..Len(q)
  BY ShiftKeeps
<1>2. ~SetsActive(q[1]) /\ ~SetsState(q[1])
  BY DEF SetsState, SetsActive
<1>3. /\ ~Settled(q, m) /\ ~Unmoved(q, m) /\ ~FirstDelete(q, m)
      /\ EndsIdle(q) => EndsIdle(t)
      /\ EndsBusy(q) => EndsBusy(t)
      /\ Activates(q, m) => Activates(t, k)
  BY <1>2, ShiftKeeps
<1>4. \A i : Deletes(q, m, i) => i = x \/ Deletes(t, k, i)
  BY ShiftKeeps
<1>5. \A v : Becomes(q, m, v) => Becomes(t, k, v)
  <2>1. \A v : Becomes(q, m, v) => Sets(q[1], v) \/ Becomes(t, k, v)
    BY ShiftKeeps
  <2> QED BY <1>2, <2>1 DEF Sets
<1> HIDE DEF t, m
<1>6. Suits(q, c, m) /\ DeleteSuits(q, c, 1)
  BY <1>1 DEF Tends, Suits
<1>7. Spare(c, x) /\ EndsIdle(q)
  BY <1>6 DEF DeleteSuits
<1> HIDE DEF x
<1>8. /\ d.count = c.count \/ c.open = {}
      /\ c.count \in Nat /\ d.count \in Nat /\ d.count <= c.count
      /\ \A n \in There(c) : c.iter[n] \in Nat
  BY <1>7, RemoveIs DEF x
<1>9. /\ d.loop = c.loop /\ d.state = c.state /\ d.active = c.active /\ d.iter = c.iter
      /\ d.open = c.open \ {x} /\ d.shut = c.shut \ {x}
  BY DEF Removes, SameRoot, x
<1>10. LetsGo(q, c, m) => LetsGo(t, d, k)
  BY <1>4, <1>8, <1>9 DEF LetsGo
<1>11. AllOpen(c, c.count + 1) => AllOpen(d, d.count + 1)
  BY <1>8, <1>9 DEF AllOpen
<1>12. Works(c, c.active) => Works(d, d.active)
  <2>1. x # c.active
    BY <1>7 DEF Spare
  <2>2. c.active \in There(c) => c.active \in There(d)
    BY <1>9, <2>1 DEF There
  <2> QED BY <1>8, <1>9, <2>2 DEF Works, OnlyOpen, UpTo
<1>13. ~PourSuits(q, c, m) /\ ~JudgeSuits(q, c, m) /\ ~DeleteSuits(q, c, m)
  BY <1>3 DEF PourSuits, JudgeSuits, DeleteSuits
<1>14. SetsActive(q[m]) /\ ActiveSuits(q, c, m) => ActiveSuits(t, d, k)
  <2>1. SetsActive(q[m]) => q[m].w = None
    BY <1>1, <1>7 DEF EndsIdle
  <2> QED BY <1>1, <1>10, <2>1 DEF ActiveSuits
<1>15. Empty(c) => Empty(d)
  BY <1>9 DEF Empty
<1>16. StateSuits(q, c, m) => StateSuits(t, d, k)
  BY <1>1, <1>3, <1>9, <1>10, <1>11, <1>12, <1>15 DEF StateSuits
<1>17. FormulaSuits(q, c, m) => FormulaSuits(t, d, k)
  BY <1>1, <1>5, <1>9 DEF FormulaSuits
<1>18. FailSuits(q, c, m) => FailSuits(t, d, k)
  BY <1>1, <1>3 DEF FailSuits
<1> QED BY <1>1, <1>6, <1>9, <1>13, <1>14, <1>16, <1>17, <1>18 DEF Suits

\* The wisps that stay.
LEMMA RemoveKept ==
    ASSUME NEW c, NEW d, NEW x, Removes(c, d, x), Sized(c), Kept(c), Spare(c, x)
    PROVE  Kept(d)
<1>1. OneOpen(c) /\ Counted(c) /\ Placed(c)
  BY DEF Kept
<1>2. /\ d.count = c.count \/ c.open = {}
      /\ c.loop.listsClosed /\ x \in c.shut => c.iter[x] = c.count /\ c.count >= 1
      /\ c.count \in Nat /\ d.count \in Nat /\ d.count <= c.count
      /\ \A n \in There(c) : c.iter[n] \in Nat
  BY <1>1, RemoveIs
<1>3. /\ d.loop = c.loop /\ d.state = c.state /\ d.active = c.active /\ d.iter = c.iter
      /\ d.formula = c.formula /\ d.pending = c.pending
      /\ d.open = c.open \ {x} /\ d.shut = c.shut \ {x}
      /\ d.count = IF c.loop.listsClosed /\ x \in c.shut THEN c.count - 1 ELSE c.count
  BY DEF Removes, SameRoot
<1>4. OneOpen(d)
  BY <1>1, <1>3 DEF OneOpen
<1>5. AllOpen(c, c.count + 1) => AllOpen(d, d.count + 1)
  BY <1>2, <1>3 DEF AllOpen
<1>6. Counted(d)
  <2> SUFFICES ASSUME c.loop.listsClosed
               PROVE  /\ AllOpen(d, d.count + 1)
                      /\ \A j \in d.shut : d.iter[j] \in 1..d.count
                      /\ \A n \in 1..d.count : \E j \in d.shut : d.iter[j] = n
                      /\ \A j, k \in d.shut : d.iter[j] = d.iter[k] => j = k
    BY <1>3 DEF Counted
  <2>1. /\ AllOpen(c, c.count + 1)
        /\ \A j \in c.shut : c.iter[j] \in 1..c.count
        /\ \A n \in 1..c.count : \E j \in c.shut : c.iter[j] = n
        /\ \A j, k \in c.shut : c.iter[j] = c.iter[k] => j = k
    BY <1>1 DEF Counted
  <2>2. CASE x \notin c.shut
    <3>1. d.shut = c.shut /\ d.count = c.count
      BY <1>3, <2>2
    <3> QED BY <1>3, <1>5, <2>1, <3>1
  <2>3. CASE x \in c.shut
    <3>1. d.count = c.count - 1 /\ c.iter[x] = c.count /\ c.count >= 1
      BY <1>2, <1>3, <2>3
    <3>2. ASSUME NEW j \in d.shut PROVE d.iter[j] \in 1..d.count
      <4>1. c.iter[j] \in 1..c.count /\ c.iter[j] # c.iter[x]
        BY <1>3, <2>1, <2>3
      <4> QED BY <1>2, <1>3, <3>1, <4>1
    <3>3. ASSUME NEW n \in 1..d.count PROVE \E j \in d.shut : d.iter[j] = n
      <4>1. n \in 1..c.count /\ n # c.count
        BY <1>2, <3>1
      <4>2. PICK j \in c.shut : c.iter[j] = n
        BY <2>1, <4>1
      <4> QED BY <1>3, <3>1, <4>1, <4>2
    <3> QED BY <1>3, <1>5, <2>1, <3>2, <3>3
  <2> QED BY <2>2, <2>3
<1>7. Placed(d)
  <2>1. x # c.active /\ (c.active \in There(c) => c.active \in There(d))
    BY <1>3 DEF Spare, There
  <2>2. \A n : AllOpen(c, n) => AllOpen(d, n)
    BY <1>3 DEF AllOpen
  <2>3. \A n \in There(c) : UpTo(c, c.iter[n] + 1) => UpTo(d, c.iter[n] + 1)
    BY <1>2, <1>3 DEF UpTo
  <2>4. d.active \in d.shut => c.active \in c.shut /\ c.active \in There(c)
    BY <1>3 DEF There
  <2>5. Empty(c) => Empty(d)
    BY <1>3 DEF Empty
  <2>6. \A n : Speculates(c, n) => Speculates(d, n)
    BY <1>3 DEF Speculates
  <2>7. c.open = {} => d.open = {}
    BY <1>3
  <2>8. d.state = "active" /\ d.active \in d.shut =>
           /\ UpTo(d, d.iter[d.active] + 1)
           /\ d.open = {} \/ (AllOpen(d, d.iter[d.active] + 1) /\ Speculates(d, d.active))
    BY <1>1, <1>3, <2>2, <2>3, <2>4, <2>6, <2>7 DEF Placed
  <2> QED BY <1>1, <1>3, <1>5, <2>1, <2>5, <2>8 DEF Placed
<1> QED BY <1>4, <1>6, <1>7 DEF Kept

\* Wisp i, of iteration n, is poured.
Adds(c, d, i, n) ==
    /\ SameRoot(c, d) /\ i \notin There(c) /\ i # None /\ n \in Nat
    /\ d.open = c.open \cup {i} /\ d.shut = c.shut
    /\ d.iter[i] = n /\ (\A j \in There(c) : d.iter[j] = c.iter[j])
    /\ d.count = c.count

\* Wisp i is the listed one of iteration n.
Finds(c, i, n) ==
    /\ i \in c.open \/ (c.loop.listsClosed /\ i \in c.shut)
    /\ c.iter[i] = n

\* No listed wisp is of iteration n.
Misses(c, n) ==
    /\ \A j \in c.open : c.iter[j] # n
    /\ c.loop.listsClosed => \A j \in c.shut : c.iter[j] # n

\* A creation pours for a loop that is active.
PoursWell(q, c) ==
    /\ PourSuits(q, c, 1) /\ Given(c.formula) /\ q[1].key \in PourKeys /\ q[1].w \in Nat
    /\ q[1].key = "create" => c.state = "active"

\* A pour that finds nothing is of the next iteration, and nothing is open.
LEMMA MissIs ==
    ASSUME NEW q, NEW c, PoursWell(q, c), Misses(c, q[1].w), Sized(c), Kept(c)
    PROVE  /\ c.open = {}
           /\ c.loop.listsClosed \/ q[1].key # "speculative" => q[1].w = c.count + 1
           /\ q[1].key # "speculative" => c.state \in Waiting \/ (c.state = "active" /\ c.active = None)
           /\ q[1].key = "speculative" => c.state = "active" /\ c.active \in c.shut
<1>1. PourSuits(q, c, 1)
  BY DEF PoursWell
<1>2. c.open = {}
  BY <1>1 DEF PourSuits, AllOpen, Misses
<1>3. c.count \in Nat /\ q[1].w \in Nat /\ q[1].w >= 1
  BY <1>1 DEF Sized, PoursWell, PourSuits
<1>4. CASE c.loop.listsClosed
  <2>1. q[1].w <= c.count + 1
    BY <1>1, <1>4 DEF PourSuits
  <2>2. q[1].w \notin 1..c.count
    BY <1>4 DEF Misses, Kept, Counted
  <2> QED BY <1>1, <1>2, <1>3, <1>4, <2>1, <2>2 DEF PourSuits, PoursWell, PourKeys, Waiting, Kept, Placed
<1>5. CASE ~c.loop.listsClosed
  <2>1. c.count = 0
    BY <1>5 DEF Sized
  <2>2. q[1].key # "speculative" => q[1].w = c.count + 1
    BY <1>1, <1>3, <2>1 DEF PourSuits
  <2> QED BY <1>1, <1>2, <1>5, <2>2 DEF PourSuits, PoursWell, PourKeys, Waiting, Kept, Placed
<1> QED BY <1>4, <1>5

\* A new wisp.
LEMMA AddKept ==
    ASSUME NEW q, NEW c, NEW d, NEW i, PoursWell(q, c), Misses(c, q[1].w), Sized(c), Kept(c),
           Adds(c, d, i, q[1].w)
    PROVE  Kept(d)
<1> DEFINE n == q[1].w
<1>1. OneOpen(c) /\ Counted(c) /\ Placed(c) /\ PourSuits(q, c, 1)
  BY DEF Kept, PoursWell
<1>2. /\ c.open = {}
      /\ c.loop.listsClosed \/ q[1].key # "speculative" => n = c.count + 1
      /\ q[1].key # "speculative" => c.state \in Waiting \/ (c.state = "active" /\ c.active = None)
      /\ q[1].key = "speculative" => c.state = "active" /\ c.active \in c.shut
  BY MissIs
<1>3. /\ d.loop = c.loop /\ d.state = c.state /\ d.active = c.active /\ d.count = c.count
      /\ d.formula = c.formula /\ d.pending = c.pending
      /\ d.open = {i} /\ d.shut = c.shut /\ d.iter[i] = n
      /\ \A j \in c.shut : d.iter[j] = c.iter[j] /\ i # j
      /\ i # None
  BY <1>2 DEF Adds, SameRoot, There
<1> HIDE DEF n
<1>4. OneOpen(d)
  BY <1>3 DEF OneOpen
<1>5. Counted(d)
  BY <1>1, <1>2, <1>3 DEF Counted, AllOpen
<1>6. Placed(d)
  <2>1. d.state = "active" /\ d.active \in d.shut =>
           /\ UpTo(d, d.iter[d.active] + 1)
           /\ AllOpen(d, d.iter[d.active] + 1) /\ Speculates(d, d.active)
    <3> SUFFICES ASSUME c.state = "active", c.active \in c.shut
                 PROVE  /\ UpTo(d, c.iter[c.active] + 1)
                        /\ n = c.iter[c.active] + 1 /\ Speculates(c, c.active)
      BY <1>3 DEF AllOpen, Speculates
    <3>1. q[1].key = "speculative"
      BY <1>2 DEF Waiting, Sized
    <3>2. n = c.iter[c.active] + 1 /\ Speculates(c, c.active)
      BY <1>1, <3>1 DEF PourSuits, n
    <3> QED BY <1>1, <1>3, <3>2 DEF Placed, UpTo
  <2>2. d.state \in Waiting \/ (d.state = "active" /\ d.active = None) => AllOpen(d, d.count + 1)
    <3> SUFFICES ASSUME c.state \in Waiting \/ (c.state = "active" /\ c.active = None)
                 PROVE  n = c.count + 1
      BY <1>3 DEF AllOpen
    <3>1. q[1].key # "speculative"
      BY <1>2 DEF Waiting, Sized
    <3> QED BY <1>2, <3>1
  <2>3. Given(c.formula) /\ c.state # "creating"
    BY <1>2 DEF PoursWell, Waiting
  <2>4. d.active # None => d.active \in There(d)
    BY <1>1, <1>2, <1>3 DEF Placed, There
  <2> QED BY <1>1, <1>3, <2>1, <2>2, <2>3, <2>4 DEF Placed
<1> QED BY <1>4, <1>5, <1>6 DEF Kept

\* What a pour returns, the loop may work on.
Returns(q, d, i) ==
    /\ Works(d, i) /\ i # None
    /\ q[1].key # "speculative" =>
           /\ AllOpen(d, d.count + 1)
           /\ d.state \in Waiting => d.active = None \/ d.state = "waiting_trigger"
           /\ q[1].key # "manual" => d.state # "waiting_manual"
    /\ q[1].key = "speculative" =>
           /\ Spare(d, i) /\ d.state = "active" /\ d.active = q[1].x /\ q[1].x \in d.shut
           /\ ~d.loop.trigger

\* A new wisp is returned.
LEMMA AddReturns ==
    ASSUME NEW q, NEW c, NEW d, NEW i, PoursWell(q, c), Misses(c, q[1].w), Sized(c), Kept(c),
           Adds(c, d, i, q[1].w)
    PROVE  Returns(q, d, i)
<1> DEFINE n == q[1].w
<1>1. Placed(c) /\ PourSuits(q, c, 1)
  BY DEF Kept, PoursWell
<1>2. /\ c.open = {}
      /\ c.loop.listsClosed \/ q[1].key # "speculative" => n = c.count + 1
      /\ q[1].key # "speculative" => c.state \in Waiting \/ (c.state = "active" /\ c.active = None)
  BY MissIs
<1>3. /\ d.loop = c.loop /\ d.state = c.state /\ d.active = c.active /\ d.count = c.count
      /\ d.open = {i} /\ d.shut = c.shut /\ d.iter[i] = n
      /\ i \notin c.shut /\ i # None
  BY <1>2 DEF Adds, SameRoot, There
<1>4. UpTo(d, n)
  BY <1>1, <1>3 DEF PourSuits, UpTo
<1> HIDE DEF n
<1>5. Works(d, i)
  BY <1>3, <1>4 DEF Works, There, OnlyOpen
<1>6. q[1].key # "speculative" =>
           /\ AllOpen(d, d.count + 1)
           /\ d.state \in Waiting => d.active = None \/ d.state = "waiting_trigger"
           /\ q[1].key # "manual" => d.state # "waiting_manual"
  BY <1>1, <1>2, <1>3 DEF AllOpen, Placed, Waiting, PourSuits, PoursWell, PourKeys
<1>7. q[1].key = "speculative" =>
           /\ Spare(d, i) /\ d.state = "active" /\ d.active = q[1].x /\ q[1].x \in d.shut
           /\ ~d.loop.trigger
  BY <1>1, <1>3 DEF PourSuits, Speculates, Spare, There
<1> QED BY <1>3, <1>5, <1>6, <1>7 DEF Returns

\* A wisp that was there is returned.
LEMMA FindReturns ==
    ASSUME NEW q, NEW c, NEW i, PoursWell(q, c), Finds(c, i, q[1].w), Sized(c), Kept(c)
    PROVE  Returns(q, c, i)
<1> DEFINE n == q[1].w
<1>1. OneOpen(c) /\ Counted(c) /\ Placed(c) /\ PourSuits(q, c, 1)
  BY DEF Kept, PoursWell
<1>2. c.iter[i] = n /\ i \in There(c) /\ i # None
  BY DEF Finds, There, Sized
<1>3. i \in c.shut => c.loop.listsClosed /\ c.open = {}
  <2> SUFFICES ASSUME i \in c.shut PROVE c.loop.listsClosed /\ c.open = {}
    OBVIOUS
  <2>1. c.loop.listsClosed
    BY DEF Finds, Sized
  <2>2. c.iter[i] \in 1..c.count /\ AllOpen(c, c.count + 1) /\ AllOpen(c, n) /\ c.count \in Nat
    BY <1>1, <2>1 DEF Counted, PourSuits, Sized
  <2> QED BY <1>2, <2>1, <2>2 DEF AllOpen
<1>4. Works(c, i)
  <2>1. OnlyOpen(c, i)
    BY <1>1, <1>2, <1>3 DEF There, OneOpen, OnlyOpen
  <2> QED BY <1>1, <1>2, <2>1 DEF Works, PourSuits
<1>5. ASSUME q[1].key # "speculative"
      PROVE  /\ AllOpen(c, c.count + 1)
             /\ c.state \in Waiting => c.active = None \/ c.state = "waiting_trigger"
             /\ q[1].key # "manual" => c.state # "waiting_manual"
  <2>1. \/ c.state \in Waiting
        \/ c.state = "active" /\ c.active = None
        \/ ~Given(c.state)
    BY <1>1, <1>5 DEF PourSuits, PoursWell, PourKeys, Waiting
  <2>2. Given(c.state)
    BY <1>1 DEF Placed, PoursWell
  <2>3. q[1].key # "manual" => c.state # "waiting_manual"
    BY <1>1, <1>5, <2>2 DEF PourSuits, PoursWell, PourKeys
  <2> QED BY <1>1, <2>1, <2>2, <2>3 DEF Placed, Waiting
<1>6. ASSUME q[1].key = "speculative"
      PROVE  /\ Spare(c, i) /\ c.state = "active" /\ c.active = q[1].x /\ q[1].x \in c.shut
             /\ ~c.loop.trigger
  <2>1. /\ c.state = "active" /\ c.active = q[1].x /\ q[1].x \in c.shut
        /\ n = c.iter[q[1].x] + 1 /\ Speculates(c, q[1].x)
    BY <1>1, <1>6 DEF PourSuits
  <2>2. c.iter[q[1].x] \in Nat
    BY <2>1 DEF Sized, There
  <2>3. i # c.active
    BY <1>2, <2>1, <2>2
  <2>4. UpTo(c, c.iter[i])
    BY <1>1, <1>2 DEF PourSuits
  <2> QED BY <1>2, <1>3, <2>1, <2>3, <2>4 DEF Spare, Speculates
<1> QED BY <1>2, <1>4, <1>5, <1>6 DEF Returns

-----------------------------------------------------------------------------
(* Sequences of steps.                                                     *)

\* A step that matters to no wisp.
Still(s) ==
    /\ s.op \notin {"pour", "handle", "gate", "settle", "delete"}
    /\ ~SetsActive(s) /\ ~SetsState(s) /\ s.fail # "burn"
    /\ s.op = "set" => s.key # "formula"
    /\ s.op = "ref" /\ s.key = "pending" => s.w = None

AllStill(q) == \A k \in 1..Len(q) : Still(q[k])

\* It relies on nothing.
LEMMA StillSuits ==
    ASSUME NEW q, NEW c, NEW k, Still(q[k])
    PROVE  Suits(q, c, k)
BY DEF Still, Suits, FailSuits, Judges

\* Nor do several.
LEMMA StillTends ==
    ASSUME NEW q, NEW c, AllStill(q)
    PROVE  Tends(q, c)
BY StillSuits DEF AllStill, Tends

\* Still steps may follow.
LEMMA StillAfter ==
    ASSUME NEW S, NEW p \in Seq(S), NEW r \in Seq(S), NEW c, Tends(p, c), AllStill(r)
    PROVE  Tends(p \o r, c)
<1> DEFINE q == p \o r
<1>1. /\ Len(p) \in Nat
      /\ \A k \in 1..Len(p) : k \in 1..Len(q) /\ q[k] = p[k]
      /\ \A k \in 1..Len(q) : \/ k \in 1..Len(p) /\ q[k] = p[k]
                              \/ k - Len(p) \in 1..Len(r) /\ q[k] = r[k - Len(p)]
  BY JoinIs
<1> SUFFICES ASSUME NEW k \in 1..Len(q) PROVE Suits(q, c, k)
  BY DEF Tends
<1> HIDE DEF q
<1>2. CASE k - Len(p) \in 1..Len(r) /\ q[k] = r[k - Len(p)]
  <2>1. Still(q[k])
    BY <1>2 DEF AllStill
  <2> QED BY <2>1, StillSuits
<1>3. CASE k \in 1..Len(p) /\ q[k] = p[k]
  <2>1. \A j \in 1..k - 1 : j \in 1..Len(p) /\ q[j] = p[j]
    BY <1>1, <1>3
  <2>2. \A j \in 1..k - 1 : q[j] = p[j]
    BY <2>1
  <2>3. /\ Settled(p, k) => Settled(q, k)
        /\ Unmoved(p, k) => Unmoved(q, k)
        /\ FirstDelete(p, k) => FirstDelete(q, k)
        /\ NeverWaits(p, k) => NeverWaits(q, k)
        /\ Activates(p, k) => Activates(q, k)
        /\ \A v : Becomes(p, k, v) => Becomes(q, k, v)
        /\ LetsGo(p, c, k) => LetsGo(q, c, k)
    BY <2>2 DEF Settled, Unmoved, FirstDelete, NeverWaits, Activates, Becomes, LetsGo, Deletes
  <2>4. \A j \in 1..Len(q) : SetsActive(q[j]) => j \in 1..Len(p) /\ q[j] = p[j]
    BY <1>1 DEF AllStill, Still
  <2>5. (EndsIdle(p) => EndsIdle(q)) /\ (EndsBusy(p) => EndsBusy(q))
    BY <2>4, Zenon DEF EndsIdle, EndsBusy
  <2>6. Suits(p, c, k)
    BY <1>3 DEF Tends
  <2>7. PourSuits(p, c, k) => PourSuits(q, c, k)
    BY <1>3, <2>3 DEF PourSuits
  <2>8. JudgeSuits(p, c, k) => JudgeSuits(q, c, k)
    BY <1>3, <2>3 DEF JudgeSuits
  <2>9. DeleteSuits(p, c, k) => DeleteSuits(q, c, k)
    BY <1>3, <2>3, <2>5 DEF DeleteSuits
  <2>10. ActiveSuits(p, c, k) => ActiveSuits(q, c, k)
    BY <1>3, <2>3 DEF ActiveSuits
  <2>11. StateSuits(p, c, k) => StateSuits(q, c, k)
    BY <1>3, <2>3, <2>5 DEF StateSuits
  <2>12. FormulaSuits(p, c, k) => FormulaSuits(q, c, k)
    BY <1>3, <2>3 DEF FormulaSuits
  <2>13. FailSuits(p, c, k) => FailSuits(q, c, k)
    BY <1>3, <2>3 DEF FailSuits
  <2> QED BY <1>3, <2>6, <2>7, <2>8, <2>9, <2>10, <2>11, <2>12, <2>13 DEF Suits
<1> QED BY <1>1, <1>2, <1>3

\* And they may come before.
LEMMA StillBefore ==
    ASSUME NEW S, NEW p \in Seq(S), NEW r \in Seq(S), NEW c, AllStill(p), Tends(r, c)
    PROVE  Tends(p \o r, c)
<1> DEFINE q == p \o r
           n == Len(p)
<1>1. /\ n \in Nat /\ Len(r) \in Nat
      /\ \A k \in 1..Len(r) : n + k \in 1..Len(q) /\ q[n + k] = r[k]
      /\ \A k \in 1..Len(q) : \/ k \in 1..n /\ q[k] = p[k]
                              \/ k - n \in 1..Len(r) /\ q[k] = r[k - n]
  BY JoinIs
<1>2. Len(q) = n + Len(r)
  BY JoinIs
<1> SUFFICES ASSUME NEW m \in 1..Len(q) PROVE Suits(q, c, m)
  BY DEF Tends
<1>3. \A j \in 1..n : Still(p[j])
  BY DEF AllStill
<1> HIDE DEF q, n
<1>4. CASE m \in 1..n /\ q[m] = p[m]
  <2>1. Still(q[m])
    BY <1>3, <1>4
  <2> QED BY <2>1, StillSuits
<1>5. CASE m - n \in 1..Len(r) /\ q[m] = r[m - n]
  <2> DEFINE k == m - n
  <2>1. k \in 1..Len(r) /\ q[m] = r[k] /\ m = n + k /\ k \in Nat
    BY <1>1, <1>2, <1>5
  <2> HIDE DEF k
  <2>2. ASSUME NEW j \in 1..m - 1, ~Still(q[j]) PROVE j - n \in 1..k - 1 /\ q[j] = r[j - n]
    <3>1. j \in 1..Len(q)
      BY <1>1, <1>2, <2>1
    <3>2. j - n \in 1..Len(r) /\ q[j] = r[j - n]
      BY <1>1, <1>3, <2>2, <3>1
    <3> QED BY <1>1, <2>1, <3>2
  <2>3. ASSUME NEW j \in 1..k - 1 PROVE n + j \in 1..m - 1 /\ q[n + j] = r[j]
    <3>1. j \in 1..Len(r)
      BY <1>1, <2>1
    <3> QED BY <1>1, <2>1, <3>1
  <2>4. \A j \in 1..Len(q) : Still(q[j]) \/ (j - n \in 1..Len(r) /\ q[j] = r[j - n])
    BY <1>1, <1>3
  <2>5. \A j : Still(q[j]) => q[j].op # "delete" /\ ~SetsActive(q[j]) /\ ~SetsState(q[j])
    BY DEF Still
  <2>6. /\ Settled(r, k) => Settled(q, m)
        /\ Unmoved(r, k) => Unmoved(q, m)
        /\ FirstDelete(r, k) => FirstDelete(q, m)
        /\ NeverWaits(r, k) => NeverWaits(q, m)
    BY <2>2, <2>5, Zenon DEF Settled, Unmoved, FirstDelete, NeverWaits
  <2>7. /\ Activates(r, k) => Activates(q, m)
        /\ \A v : Becomes(r, k, v) => Becomes(q, m, v)
        /\ \A i : Deletes(r, k, i) => Deletes(q, m, i)
    BY <2>3, Zenon DEF Activates, Becomes, Deletes
  <2>8. LetsGo(r, c, k) => LetsGo(q, c, m)
    BY <2>7 DEF LetsGo
  <2>9. (EndsIdle(r) => EndsIdle(q)) /\ (EndsBusy(r) => EndsBusy(q))
    BY <2>4, <2>5, Zenon DEF EndsIdle, EndsBusy
  <2>10. Suits(r, c, k)
    BY <2>1 DEF Tends
  <2>11. PourSuits(r, c, k) => PourSuits(q, c, m)
    BY <2>1, <2>6 DEF PourSuits
  <2>12. JudgeSuits(r, c, k) => JudgeSuits(q, c, m)
    BY <2>1, <2>6 DEF JudgeSuits
  <2>13. DeleteSuits(r, c, k) => DeleteSuits(q, c, m)
    BY <2>1, <2>6, <2>9 DEF DeleteSuits
  <2>14. ActiveSuits(r, c, k) => ActiveSuits(q, c, m)
    BY <2>1, <2>7, <2>8 DEF ActiveSuits
  <2>15. StateSuits(r, c, k) => StateSuits(q, c, m)
    BY <2>1, <2>7, <2>8, <2>9 DEF StateSuits
  <2>16. FormulaSuits(r, c, k) => FormulaSuits(q, c, m)
    BY <2>1, <2>7 DEF FormulaSuits
  <2>17. FailSuits(r, c, k) => FailSuits(q, c, m)
    BY <2>1, <2>6 DEF FailSuits
  <2> QED BY <2>1, <2>10, <2>11, <2>12, <2>13, <2>14, <2>15, <2>16, <2>17 DEF Suits
<1> QED BY <1>1, <1>4, <1>5

\* States have names.
LEMMA NamesAreGiven ==
    /\ Given("terminated") /\ Given("creating") /\ Given("active")
    /\ Given("waiting_manual") /\ Given("waiting_trigger") /\ Given("set")
BY Zenon DEF Given

\* Steps that end a loop, in any loop.
Final(q) == \A k \in 1..Len(q) : Still(q[k]) \/ (Sets(q[k], "terminated") /\ q[k].fail # "burn")

\* The end of a loop relies on nothing.
LEMMA FinalTends ==
    ASSUME NEW q, NEW c, Final(q)
    PROVE  Tends(q, c)
<1> SUFFICES ASSUME NEW k \in 1..Len(q) PROVE Suits(q, c, k)
  BY DEF Tends
<1>1. CASE Still(q[k])
  BY <1>1, StillSuits
<1>2. CASE Sets(q[k], "terminated") /\ q[k].fail # "burn"
  <2>1. SetsState(q[k]) /\ q[k].v = "terminated"
    BY <1>2 DEF Sets
  <2>2. q[k].op = "set" /\ q[k].key = "state"
    BY <2>1 DEF SetsState
  <2>3. StateSuits(q, c, k)
    <3>1. q[k].v \notin Waiting
      BY <2>1 DEF Waiting
    <3> QED BY <2>1, <3>1, NamesAreGiven DEF StateSuits
  <2> QED BY <1>2, <2>1, <2>2, <2>3 DEF Suits, FailSuits, Judges, SetsActive
<1> QED BY <1>1, <1>2 DEF Final

\* Steps by which a loop lets go of its wisp, and waits or ends.
Retreats(q, c) ==
    \A k \in 1..Len(q) :
        \/ Still(q[k])
        \/ q[k].fail = "abort" /\ SetsActive(q[k]) /\ q[k].w = None
        \/ q[k].fail = "abort" /\ Sets(q[k], "waiting_manual") /\ Activates(q, k)
        \/ q[k].fail = "abort" /\ Sets(q[k], "waiting_trigger") /\ c.loop.trigger
        \/ q[k].fail = "abort" /\ Sets(q[k], "terminated")

\* Each of its steps, once no wisp is open but the next one.
LEMMA RetreatSuits ==
    ASSUME NEW q, NEW c, NEW k \in 1..Len(q), EndsIdle(q), LetsGo(q, c, k),
           \/ Still(q[k])
           \/ q[k].fail = "abort" /\ SetsActive(q[k]) /\ q[k].w = None
           \/ q[k].fail = "abort" /\ Sets(q[k], "waiting_manual") /\ Activates(q, k)
           \/ q[k].fail = "abort" /\ Sets(q[k], "waiting_trigger") /\ c.loop.trigger
           \/ q[k].fail = "abort" /\ Sets(q[k], "terminated")
    PROVE  Suits(q, c, k)
<1>1. CASE Still(q[k])
  BY <1>1, StillSuits
<1>2. CASE q[k].fail = "abort" /\ SetsActive(q[k]) /\ q[k].w = None
  <2>1. q[k].op = "ref" /\ q[k].key = "active" /\ ~SetsState(q[k])
    BY <1>2 DEF SetsActive, SetsState
  <2>2. ActiveSuits(q, c, k)
    BY <1>2 DEF ActiveSuits
  <2> QED BY <1>2, <2>1, <2>2 DEF Suits, FailSuits, Judges
<1>3. CASE q[k].fail = "abort" /\ \E v \in {"waiting_manual", "waiting_trigger", "terminated"} :
               /\ Sets(q[k], v) /\ (v = "waiting_manual" => Activates(q, k))
               /\ v = "waiting_trigger" => c.loop.trigger
  <2>1. PICK v \in {"waiting_manual", "waiting_trigger", "terminated"} :
               /\ SetsState(q[k]) /\ q[k].v = v /\ (v = "waiting_manual" => Activates(q, k))
               /\ v = "waiting_trigger" => c.loop.trigger
    BY <1>3 DEF Sets
  <2>2. q[k].op = "set" /\ q[k].key = "state" /\ ~SetsActive(q[k])
    BY <2>1 DEF SetsState, SetsActive
  <2>3. Given(v)
    BY NamesAreGiven
  <2>4. StateSuits(q, c, k)
    BY <2>1, <2>3 DEF StateSuits
  <2> QED BY <1>3, <2>1, <2>2, <2>4 DEF Suits, FailSuits, Judges
<1>4. /\ \A w : Sets(q[k], w) => SetsState(q[k])
      /\ "waiting_manual" # "waiting_trigger" /\ "terminated" # "waiting_manual"
      /\ "terminated" # "waiting_trigger"
  BY DEF Sets
<1> QED BY <1>1, <1>2, <1>3, <1>4, Zenon

\* A loop lets go of its wisp.
LEMMA RetreatTends ==
    ASSUME NEW q, NEW c, Retreats(q, c), EndsIdle(q), AllOpen(c, c.count + 1)
    PROVE  Tends(q, c)
<1>1. \A k : LetsGo(q, c, k)
  BY DEF LetsGo, AllOpen
<1> QED BY <1>1, RetreatSuits DEF Retreats, Tends

\* It burns the wisp poured ahead first.
LEMMA BurnTends ==
    ASSUME NEW S, NEW s \in S, NEW r \in Seq(S), NEW c, s.op = "delete", s.fail = "abort",
           Spare(c, s.w), OnlyOpen(c, s.w), Retreats(r, c), EndsIdle(r)
    PROVE  Tends(<<s>> \o r, c)
<1> DEFINE q == <<s>> \o r
<1>1. /\ Len(r) \in Nat /\ Len(q) = 1 + Len(r) /\ q[1] = s
      /\ \A k \in 1..Len(r) : q[1 + k] = r[k]
  <2>1. <<s>> \in Seq(S) /\ Len(<<s>>) = 1 /\ <<s>>[1] = s /\ 1 \in 1..1
    OBVIOUS
  <2> QED BY <2>1, JoinIs
<1> HIDE DEF q
<1>2. ~SetsActive(s) /\ ~SetsState(s)
  BY DEF SetsActive, SetsState
<1>3. \A j \in 1..Len(q) : j = 1 \/ (j - 1 \in 1..Len(r) /\ q[j] = r[j - 1])
  <2> SUFFICES ASSUME NEW j \in 1..Len(q), j # 1 PROVE j - 1 \in 1..Len(r) /\ q[j] = r[j - 1]
    OBVIOUS
  <2>1. j - 1 \in 1..Len(r) /\ 1 + (j - 1) = j
    BY <1>1
  <2> QED BY <1>1, <2>1
<1>4. EndsIdle(q)
  BY <1>1, <1>2, <1>3 DEF EndsIdle
<1>5. Suits(q, c, 1)
  <2>1. DeleteSuits(q, c, 1)
    BY <1>1, <1>4, FirstStep DEF DeleteSuits
  <2> QED BY <1>1, <1>2, <2>1 DEF Suits, FailSuits, Judges
<1>6. ASSUME NEW m \in 1..Len(q), m # 1 PROVE Suits(q, c, m)
  <2> DEFINE k == m - 1
  <2>1. k \in 1..Len(r) /\ q[m] = r[k] /\ m = 1 + k /\ k \in Nat
    BY <1>1, <1>3, <1>6
  <2> HIDE DEF k
  <2>2. LetsGo(q, c, m)
    <3>1. 1 \in 1..m - 1
      BY <2>1
    <3> QED BY <1>1, <3>1 DEF LetsGo, Deletes, OnlyOpen
  <2>3. ASSUME NEW j \in 1..k - 1 PROVE j + 1 \in 1..m - 1 /\ q[j + 1] = r[j]
    <3>1. j \in 1..Len(r)
      BY <1>1, <2>1
    <3> QED BY <1>1, <2>1, <3>1
  <2>4. Activates(r, k) => Activates(q, m)
    BY <2>3, Zenon DEF Activates
  <2>5. \/ Still(q[m])
        \/ q[m].fail = "abort" /\ SetsActive(q[m]) /\ q[m].w = None
        \/ q[m].fail = "abort" /\ Sets(q[m], "waiting_manual") /\ Activates(q, m)
        \/ q[m].fail = "abort" /\ Sets(q[m], "waiting_trigger") /\ c.loop.trigger
        \/ q[m].fail = "abort" /\ Sets(q[m], "terminated")
    BY <2>1, <2>4 DEF Retreats
  <2> QED BY <1>4, <2>2, <2>5, RetreatSuits
<1>7. Tends(q, c)
  BY <1>5, <1>6 DEF Tends
<1> QED BY <1>7 DEF q

\* A burn with nothing of weight after it.
LEMMA BurnAlone ==
    ASSUME NEW S, NEW s \in S, NEW r \in Seq(S), NEW c, s.op = "delete", s.fail = "abort",
           Spare(c, s.w), AllStill(r)
    PROVE  Tends(<<s>> \o r, c)
<1>1. <<s>> \in Seq(S) /\ Len(<<s>>) = 1 /\ <<s>>[1] = s /\ \A k \in 1..1 : k = 1
  OBVIOUS
<1>2. ~SetsActive(s) /\ ~SetsState(s)
  BY DEF SetsActive, SetsState
<1> DEFINE p == <<s>>
<1>3. p \in Seq(S) /\ Len(p) = 1 /\ p[1] = s /\ \A k \in 1..Len(p) : k = 1
  BY <1>1
<1> HIDE DEF p
<1>4. EndsIdle(p)
  BY <1>2, <1>3 DEF EndsIdle
<1>5. DeleteSuits(p, c, 1)
  BY <1>3, <1>4, FirstStep DEF DeleteSuits
<1>6. Suits(p, c, 1)
  BY <1>2, <1>3, <1>5 DEF Suits, FailSuits, Judges
<1>7. Tends(p, c)
  BY <1>3, <1>6 DEF Tends
<1> QED BY <1>3, <1>7, StillAfter DEF p

\* The fields of references, events, pours and the other steps.
LEMMA RefBits ==
    ASSUME NEW key, NEW w, NEW y
    PROVE  /\ Ref(key, w).op = "ref" /\ Ref(key, w).key = key /\ Ref(key, w).w = w
           /\ Ref(key, w).fail = "abort"
           /\ BestEffort(Ref(key, w)).op = "ref" /\ BestEffort(Ref(key, w)).key = key
           /\ BestEffort(Ref(key, w)).w = w /\ BestEffort(Ref(key, w)).fail = "skip"
           /\ OrRollback(Ref(key, w)).op = "ref" /\ OrRollback(Ref(key, w)).key = key
           /\ OrRollback(Ref(key, w)).w = w /\ OrRollback(Ref(key, w)).fail = "rollback"
           /\ OrBurn(Ref(key, w), y).op = "ref" /\ OrBurn(Ref(key, w), y).key = key
           /\ OrBurn(Ref(key, w), y).w = w /\ OrBurn(Ref(key, w), y).x = y
           /\ OrBurn(Ref(key, w), y).fail = "burn"
<1>1. PICK e : e = ""
  BY Zenon
<1>2. Ref(key, w) = Step("ref", key, w, None, e, "abort")
  BY <1>1, Zenon DEF Ref
<1>3. /\ BestEffort(Ref(key, w)) = Step("ref", key, w, None, e, "skip")
      /\ OrRollback(Ref(key, w)) = Step("ref", key, w, None, e, "rollback")
      /\ OrBurn(Ref(key, w), y) = Step("ref", key, w, y, e, "burn")
  BY <1>2, Refailed
<1> QED BY <1>2, <1>3, StepFields

\* Metadata writes.
LEMMA SetBits ==
    ASSUME NEW key, NEW v, NEW y
    PROVE  /\ Set(key, v).op = "set" /\ Set(key, v).key = key /\ Set(key, v).v = v
           /\ Set(key, v).fail = "abort"
           /\ BestEffort(Set(key, v)).op = "set" /\ BestEffort(Set(key, v)).key = key
           /\ BestEffort(Set(key, v)).v = v /\ BestEffort(Set(key, v)).fail = "skip"
           /\ OrRollback(Set(key, v)).op = "set" /\ OrRollback(Set(key, v)).key = key
           /\ OrRollback(Set(key, v)).v = v /\ OrRollback(Set(key, v)).fail = "rollback"
           /\ OrBurn(Set(key, v), y).op = "set" /\ OrBurn(Set(key, v), y).key = key
           /\ OrBurn(Set(key, v), y).v = v /\ OrBurn(Set(key, v), y).x = y
           /\ OrBurn(Set(key, v), y).fail = "burn"
<1>2. Set(key, v) = Step("set", key, None, None, v, "abort")
  BY Zenon DEF Set
<1>3. /\ BestEffort(Set(key, v)) = Step("set", key, None, None, v, "skip")
      /\ OrRollback(Set(key, v)) = Step("set", key, None, None, v, "rollback")
      /\ OrBurn(Set(key, v), y) = Step("set", key, None, y, v, "burn")
  BY <1>2, Refailed
<1> QED BY <1>2, <1>3, StepFields

\* Pours, events and the rest.
LEMMA DoBits ==
    ASSUME NEW op, NEW key, NEW w, NEW x, NEW v
    PROVE  /\ Do(op, w, x, v).op = op /\ Do(op, w, x, v).w = w /\ Do(op, w, x, v).x = x
           /\ Do(op, w, x, v).v = v /\ Do(op, w, x, v).fail = "abort"
           /\ BestEffort(Do(op, w, x, v)).op = op /\ BestEffort(Do(op, w, x, v)).fail = "skip"
           /\ Emit(key, w, v).op = "emit" /\ Emit(key, w, v).fail = "abort"
           /\ Pour(w, key, x).op = "pour" /\ Pour(w, key, x).key = key /\ Pour(w, key, x).w = w
           /\ Pour(w, key, x).x = x /\ Pour(w, key, x).fail = "abort"
           /\ OrRollback(Pour(w, key, x)).op = "pour" /\ OrRollback(Pour(w, key, x)).key = key
           /\ OrRollback(Pour(w, key, x)).w = w /\ OrRollback(Pour(w, key, x)).x = x
           /\ OrRollback(Pour(w, key, x)).fail = "rollback"
<1>1. PICK e : e = ""
  BY Zenon
<1>2. /\ Do(op, w, x, v) = Step(op, e, w, x, v, "abort")
      /\ Emit(key, w, v) = Step("emit", key, w, None, v, "abort")
      /\ Pour(w, key, x) = Step("pour", key, w, x, e, "abort")
  BY <1>1, Zenon DEF Do, Emit, Pour
<1>3. /\ BestEffort(Do(op, w, x, v)) = Step(op, e, w, x, v, "skip")
      /\ OrRollback(Pour(w, key, x)) = Step("pour", key, w, x, e, "rollback")
  BY <1>2, Refailed
<1> QED BY <1>2, <1>3, StepFields

\* The named ones.
LEMMA CallBits ==
    ASSUME NEW op, NEW w, NEW x
    PROVE  /\ Call(op, w).op = op /\ Call(op, w).w = w /\ Call(op, w).x = None
           /\ Call(op, w).fail = "abort"
           /\ Gate(w, x).op = "gate" /\ Gate(w, x).w = w /\ Gate(w, x).x = x
           /\ Gate(w, x).fail = "abort" /\ Gate(w, x).v # "pour_failed"
           /\ CloseRoot.op = "close_root" /\ CloseRoot.fail = "abort"
           /\ BestEffort(CloseRoot).op = "close_root" /\ BestEffort(CloseRoot).fail = "skip"
           /\ ClearPending.op = "ref" /\ ClearPending.key = "pending" /\ ClearPending.w = None
           /\ ClearPending.fail = "skip"
<1>1. PICK e : e = ""
  BY Zenon
<1>2. /\ Call(op, w) = Do(op, w, None, e) /\ Gate(w, x) = Do("gate", w, x, e)
      /\ CloseRoot = Do("close_root", None, None, e)
  BY <1>1, Zenon DEF Call, Gate, CloseRoot
<1>3. e # "pour_failed"
  BY <1>1, Zenon
<1>4. ClearPending = BestEffort(Ref("pending", None))
  BY DEF ClearPending
<1> QED BY <1>2, <1>3, <1>4, DoBits, RefBits

\* The steps that matter to no wisp.
LEMMA StillSteps ==
    /\ \A key \in {"treason", "wreason", "outcome"} : \A v : Still(Set(key, v))
    /\ \A key \in {"lpw", "gated"} : \A w : Still(Ref(key, w)) /\ Still(BestEffort(Ref(key, w)))
    /\ \A key, w, v : Still(Emit(key, w, v))
    /\ \A op \in Ops \ {"set", "ref", "emit", "pour", "handle", "gate", "settle", "delete"} :
          \A w, x, v : Still(Do(op, w, x, v))
    /\ \A op \in Ops \ {"set", "ref", "emit", "pour", "handle", "gate", "settle", "delete"} :
          \A w : Still(Call(op, w))
    /\ Still(CloseRoot) /\ Still(BestEffort(CloseRoot)) /\ Still(ClearPending)
<1>1. ASSUME NEW key \in {"treason", "wreason", "outcome"}, NEW v PROVE Still(Set(key, v))
  BY SetBits DEF Still, SetsActive, SetsState
<1>2. ASSUME NEW key \in {"lpw", "gated"}, NEW w
      PROVE  Still(Ref(key, w)) /\ Still(BestEffort(Ref(key, w)))
  BY RefBits DEF Still, SetsActive, SetsState
<1>3. ASSUME NEW key, NEW w, NEW v PROVE Still(Emit(key, w, v))
  BY DoBits DEF Still, SetsActive, SetsState
<1>4. ASSUME NEW op \in Ops \ {"set", "ref", "emit", "pour", "handle", "gate", "settle", "delete"},
             NEW w, NEW x, NEW v
      PROVE  Still(Do(op, w, x, v))
  BY DoBits DEF Still, SetsActive, SetsState
<1>5. ASSUME NEW op \in Ops \ {"set", "ref", "emit", "pour", "handle", "gate", "settle", "delete"},
             NEW w
      PROVE  Still(Call(op, w))
  BY CallBits DEF Still, SetsActive, SetsState
<1>6. Still(CloseRoot) /\ Still(BestEffort(CloseRoot)) /\ Still(ClearPending)
  BY CallBits DEF Still, SetsActive, SetsState
<1> QED BY <1>1, <1>2, <1>3, <1>4, <1>5, <1>6

\* Short sequences, place by place.
LEMMA PlacesUpToThree ==
    ASSUME NEW a, NEW b, NEW d
    PROVE  /\ Len(<<a>>) = 1 /\ <<a>>[1] = a /\ \A k \in 1..Len(<<a>>) : k = 1
           /\ Len(<<a, b>>) = 2 /\ <<a, b>>[1] = a /\ <<a, b>>[2] = b
           /\ \A k \in 1..Len(<<a, b>>) : k = 1 \/ k = 2
           /\ Len(<<a, b, d>>) = 3 /\ <<a, b, d>>[1] = a /\ <<a, b, d>>[2] = b /\ <<a, b, d>>[3] = d
           /\ \A k \in 1..Len(<<a, b, d>>) : k = 1 \/ k = 2 \/ k = 3
OBVIOUS

\* Longer ones.
LEMMA PlacesUpToSix ==
    ASSUME NEW a, NEW b, NEW d, NEW e, NEW f, NEW g
    PROVE  /\ Len(<<a, b, d, e>>) = 4 /\ <<a, b, d, e>>[1] = a /\ <<a, b, d, e>>[2] = b
           /\ <<a, b, d, e>>[3] = d /\ <<a, b, d, e>>[4] = e
           /\ \A k \in 1..Len(<<a, b, d, e>>) : k = 1 \/ k = 2 \/ k = 3 \/ k = 4
           /\ Len(<<a, b, d, e, f>>) = 5 /\ <<a, b, d, e, f>>[1] = a /\ <<a, b, d, e, f>>[2] = b
           /\ <<a, b, d, e, f>>[3] = d /\ <<a, b, d, e, f>>[4] = e /\ <<a, b, d, e, f>>[5] = f
           /\ \A k \in 1..Len(<<a, b, d, e, f>>) : k = 1 \/ k = 2 \/ k = 3 \/ k = 4 \/ k = 5
           /\ Len(<<a, b, d, e, f, g>>) = 6
           /\ <<a, b, d, e, f, g>>[1] = a /\ <<a, b, d, e, f, g>>[2] = b
           /\ <<a, b, d, e, f, g>>[3] = d /\ <<a, b, d, e, f, g>>[4] = e
           /\ <<a, b, d, e, f, g>>[5] = f /\ <<a, b, d, e, f, g>>[6] = g
           /\ \A k \in 1..Len(<<a, b, d, e, f, g>>) :
                 k = 1 \/ k = 2 \/ k = 3 \/ k = 4 \/ k = 5 \/ k = 6
<1>1. /\ Len(<<a, b, d, e>>) = 4 /\ <<a, b, d, e>>[1] = a /\ <<a, b, d, e>>[2] = b
      /\ <<a, b, d, e>>[3] = d /\ <<a, b, d, e>>[4] = e
      /\ \A k \in 1..Len(<<a, b, d, e>>) : k = 1 \/ k = 2 \/ k = 3 \/ k = 4
  OBVIOUS
<1>2. /\ Len(<<a, b, d, e, f>>) = 5 /\ <<a, b, d, e, f>>[1] = a /\ <<a, b, d, e, f>>[2] = b
      /\ <<a, b, d, e, f>>[3] = d /\ <<a, b, d, e, f>>[4] = e /\ <<a, b, d, e, f>>[5] = f
      /\ \A k \in 1..Len(<<a, b, d, e, f>>) : k = 1 \/ k = 2 \/ k = 3 \/ k = 4 \/ k = 5
  OBVIOUS
<1>3. /\ Len(<<a, b, d, e, f, g>>) = 6
      /\ <<a, b, d, e, f, g>>[1] = a /\ <<a, b, d, e, f, g>>[2] = b
      /\ <<a, b, d, e, f, g>>[3] = d /\ <<a, b, d, e, f, g>>[4] = e
      /\ <<a, b, d, e, f, g>>[5] = f /\ <<a, b, d, e, f, g>>[6] = g
      /\ \A k \in 1..Len(<<a, b, d, e, f, g>>) :
            k = 1 \/ k = 2 \/ k = 3 \/ k = 4 \/ k = 5 \/ k = 6
  OBVIOUS
<1> QED BY <1>1, <1>2, <1>3

\* The writes that move a loop.
LEMMA MoveSteps ==
    ASSUME NEW w, NEW v, NEW y
    PROVE  /\ SetsActive(Ref("active", w)) /\ ~SetsState(Ref("active", w))
           /\ SetsActive(OrRollback(Ref("active", w))) /\ ~SetsState(OrRollback(Ref("active", w)))
           /\ Sets(Set("state", v), v) /\ ~SetsActive(Set("state", v))
           /\ Sets(BestEffort(Set("state", v)), v) /\ ~SetsActive(BestEffort(Set("state", v)))
           /\ Sets(OrRollback(Set("state", v)), v) /\ ~SetsActive(OrRollback(Set("state", v)))
           /\ SetsState(Set("state", v)) /\ SetsState(OrRollback(Set("state", v)))
BY RefBits, SetBits DEF SetsActive, SetsState, Sets

\* Letting go of the wisp leaves the loop without one.
LEMMA RetreatEnds ==
    ASSUME NEW q, NEW c, Retreats(q, c)
    PROVE  EndsIdle(q)
<1>1. \A k \in 1..Len(q) : \A v : Sets(q[k], v) => ~SetsActive(q[k])
  BY DEF Sets, SetsState, SetsActive
<1>2. \A k \in 1..Len(q) : Still(q[k]) => ~SetsActive(q[k])
  BY DEF Still
<1> QED BY <1>1, <1>2 DEF Retreats, EndsIdle

\* Holding for the operator.
LEMMA WaitManualRetreats ==
    ASSUME NEW w, NEW reason, NEW c
    PROVE  Retreats(transitionToWaitingManual(w, reason), c)
<1>1. PICK a, b, d, e, f :
         /\ a = Emit("iteration", IterOf(w), "waiting_manual") /\ b = Ref("active", None)
         /\ d = Set("wreason", reason) /\ e = Set("state", "waiting_manual") /\ f = Ref("lpw", w)
  OBVIOUS
<1>2. Still(a) /\ Still(d) /\ Still(f)
  BY <1>1, StillSteps
<1>3. b.fail = "abort" /\ SetsActive(b) /\ b.w = None /\ e.fail = "abort" /\ Sets(e, "waiting_manual")
  BY <1>1, MoveSteps, RefBits, SetBits
<1> DEFINE q == <<a, b, d, e, f>>
<1>4. transitionToWaitingManual(w, reason) = q
  BY <1>1 DEF transitionToWaitingManual
<1>5. /\ q[1] = a /\ q[2] = b /\ q[3] = d /\ q[4] = e /\ q[5] = f
      /\ \A k \in 1..Len(q) : k = 1 \/ k = 2 \/ k = 3 \/ k = 4 \/ k = 5
  BY PlacesUpToSix
<1> HIDE DEF q
<1>6. Activates(q, 4)
  <2>1. 2 \in 1..4 - 1
    OBVIOUS
  <2> QED BY <1>3, <1>5, <2>1 DEF Activates
<1>7. Retreats(q, c)
  BY <1>2, <1>3, <1>5, <1>6 DEF Retreats
<1> QED BY <1>4, <1>7

\* Holding for the trigger.
LEMMA WaitTriggerRetreats ==
    ASSUME NEW w, NEW c, c.loop.trigger
    PROVE  Retreats(transitionToWaitingTrigger(w), c)
<1>1. PICK a, b, d, e :
         /\ a = Emit("iteration", IterOf(w), "waiting_trigger") /\ b = Ref("active", None)
         /\ d = Set("state", "waiting_trigger") /\ e = Ref("lpw", w)
  OBVIOUS
<1>2. Still(a) /\ Still(e)
  BY <1>1, StillSteps
<1>3. b.fail = "abort" /\ SetsActive(b) /\ b.w = None /\ d.fail = "abort" /\ Sets(d, "waiting_trigger")
  BY <1>1, MoveSteps, RefBits, SetBits
<1> DEFINE q == <<a, b, d, e>>
<1>4. transitionToWaitingTrigger(w) = q
  BY <1>1 DEF transitionToWaitingTrigger
<1>5. /\ q[1] = a /\ q[2] = b /\ q[3] = d /\ q[4] = e
      /\ \A k \in 1..Len(q) : k = 1 \/ k = 2 \/ k = 3 \/ k = 4
  BY PlacesUpToSix
<1> HIDE DEF q
<1>7. Retreats(q, c)
  BY <1>2, <1>3, <1>5 DEF Retreats
<1> QED BY <1>4, <1>7

\* The end that a gate or the budget decides.
LEMMA TerminateRetreats ==
    ASSUME NEW w, NEW reason, NEW c
    PROVE  Retreats(terminate(w, reason), c)
<1>1. PICK a, b, d, e, f, g :
         /\ a = Emit("iteration", IterOf(w), reason) /\ b = Emit("terminated", 0, reason)
         /\ d = Set("treason", reason) /\ e = Set("state", "terminated")
         /\ f = CloseRoot /\ g = Ref("lpw", w)
  OBVIOUS
<1>2. Still(a) /\ Still(b) /\ Still(d) /\ Still(f) /\ Still(g)
  BY <1>1, StillSteps
<1>3. e.fail = "abort" /\ Sets(e, "terminated")
  BY <1>1, MoveSteps, SetBits
<1> DEFINE q == <<a, b, d, e, f, g>>
<1>4. terminate(w, reason) = q
  BY <1>1 DEF terminate
<1>5. /\ q[1] = a /\ q[2] = b /\ q[3] = d /\ q[4] = e /\ q[5] = f /\ q[6] = g
      /\ \A k \in 1..Len(q) : k = 1 \/ k = 2 \/ k = 3 \/ k = 4 \/ k = 5 \/ k = 6
  BY PlacesUpToSix
<1> HIDE DEF q
<1>7. Retreats(q, c)
  BY <1>2, <1>3, <1>5 DEF Retreats
<1> QED BY <1>4, <1>7

\* Still steps may come before.
LEMMA StillRetreats ==
    ASSUME NEW S, NEW s \in S, Still(s), NEW r \in Seq(S), NEW c, Retreats(r, c)
    PROVE  <<s>> \o r \in Seq(S) /\ Retreats(<<s>> \o r, c)
<1> DEFINE q == <<s>> \o r
<1>1. <<s>> \in Seq(S) /\ Len(<<s>>) = 1 /\ <<s>>[1] = s
  OBVIOUS
<1>2. /\ q \in Seq(S) /\ Len(r) \in Nat
      /\ \A k \in 1..Len(q) : \/ k \in 1..1 /\ q[k] = <<s>>[k]
                              \/ k - 1 \in 1..Len(r) /\ q[k] = r[k - 1]
      /\ \A k \in 1..Len(r) : 1 + k \in 1..Len(q) /\ q[1 + k] = r[k]
  BY <1>1, JoinIs
<1>3. \A k \in 1..1 : k = 1
  OBVIOUS
<1> HIDE DEF q
<1>4. ASSUME NEW k \in 1..Len(q), k - 1 \in 1..Len(r), Activates(r, k - 1)
      PROVE  Activates(q, k)
  <2>1. PICK j \in 1..(k - 1) - 1 : SetsActive(r[j])
    BY <1>4 DEF Activates
  <2>2. 1 + j \in 1..k - 1 /\ q[1 + j] = r[j]
    BY <1>2, <1>4, <2>1
  <2> QED BY <2>1, <2>2 DEF Activates
<1>5. Retreats(q, c)
  <2> SUFFICES ASSUME NEW k \in 1..Len(q), ~Still(q[k])
               PROVE  \/ q[k].fail = "abort" /\ SetsActive(q[k]) /\ q[k].w = None
                      \/ q[k].fail = "abort" /\ Sets(q[k], "waiting_manual") /\ Activates(q, k)
                      \/ q[k].fail = "abort" /\ Sets(q[k], "waiting_trigger") /\ c.loop.trigger
                      \/ q[k].fail = "abort" /\ Sets(q[k], "terminated")
    BY DEF Retreats
  <2>1. k - 1 \in 1..Len(r) /\ q[k] = r[k - 1]
    BY <1>1, <1>2, <1>3
  <2> QED BY <1>4, <2>1 DEF Retreats
<1> QED BY <1>2, <1>5 DEF q

\* The steps of a burn.
LEMMA BurnSteps ==
    ASSUME NEW n \in Nat, NEW x \in 0..n, x # None
    PROVE  /\ Call("delete", x) \in Steps(n) /\ ClearPending \in Steps(n)
           /\ burnSpeculativeWisp(x) = <<Call("delete", x)>> \o <<ClearPending>>
<1>1. PICK op \in {"activate", "delete", "close_wisp", "index"} : op = "delete"
  OBVIOUS
<1>2. PICK e \in Values : e = ""
  BY Words
<1>3. None \in 0..n
  BY DEF None
<1>4. Do(op, x, None, e) \in Steps(n)
  BY <1>1, <1>2, <1>3, CalmSteps
<1>5. Call("delete", x) = Do(op, x, None, e)
  BY <1>1, <1>2, Zenon DEF Call
<1>6. Call("delete", x) \in Steps(n) /\ ClearPending \in Steps(n)
  BY <1>4, <1>5, Stock
<1>7. burnSpeculativeWisp(x) = <<Call("delete", x), ClearPending>>
  BY Zenon DEF burnSpeculativeWisp, When, Call
<1> QED BY <1>6, <1>7, PairIs

\* The burn of the wisp poured ahead, if there is one, and then the retreat.
LEMMA BurnRetreats ==
    ASSUME NEW n \in Nat, NEW x \in 0..n, NEW r \in Seq(Steps(n)), NEW c, Retreats(r, c),
           IF x = None THEN AllOpen(c, c.count + 1) ELSE Spare(c, x) /\ OnlyOpen(c, x)
    PROVE  Tends(burnSpeculativeWisp(x) \o r, c)
<1>1. CASE x = None
  <2>1. burnSpeculativeWisp(x) = << >>
    BY <1>1 DEF burnSpeculativeWisp, When
  <2>2. << >> \o r = r
    OBVIOUS
  <2>3. Tends(r, c)
    BY <1>1, RetreatEnds, RetreatTends
  <2> QED BY <2>1, <2>2, <2>3
<1>2. CASE x # None
  <2>1. PICK s, t \in Steps(n) :
           /\ s = Call("delete", x) /\ t = ClearPending
           /\ burnSpeculativeWisp(x) = <<s>> \o <<t>>
    BY <1>2, BurnSteps
  <2>2. s.op = "delete" /\ s.w = x /\ s.fail = "abort" /\ Still(t)
    BY <2>1, CallBits, StillSteps
  <2>3. (<<s>> \o <<t>>) \o r = <<s>> \o (<<t>> \o r)
    OBVIOUS
  <2>4. <<t>> \o r \in Seq(Steps(n)) /\ Retreats(<<t>> \o r, c)
    BY <2>2, StillRetreats
  <2>5. Tends(<<s>> \o (<<t>> \o r), c)
    BY <1>2, <2>2, <2>4, RetreatEnds, BurnTends
  <2> QED BY <2>1, <2>3, <2>5
<1> QED BY <1>1, <1>2

\* The steps that end a loop.
Closing(s) == Still(s) \/ (Sets(s, "terminated") /\ s.fail # "burn")

\* Their names.
LEMMA ClosingSteps ==
    /\ \A s : Still(s) => Closing(s)
    /\ Closing(Set("state", "terminated")) /\ Closing(BestEffort(Set("state", "terminated")))
BY MoveSteps, SetBits DEF Closing

\* Short ends.
LEMMA ShortFinal ==
    ASSUME NEW a, NEW b, NEW d, Closing(a)
    PROVE  /\ Final(<< >>) /\ Final(<<a>>)
           /\ Closing(b) => Final(<<a, b>>)
           /\ Closing(b) /\ Closing(d) => Final(<<a, b, d>>)
<1>1. Final(<< >>)
  BY DEF Final
<1>2. Final(<<a>>) /\ (Closing(b) => Final(<<a, b>>))
  BY PlacesUpToThree DEF Final, Closing
<1>3. Closing(b) /\ Closing(d) => Final(<<a, b, d>>)
  BY PlacesUpToThree DEF Final, Closing
<1> QED BY <1>1, <1>2, <1>3

\* One end after another.
LEMMA FinalJoin ==
    ASSUME NEW S, NEW p \in Seq(S), NEW r \in Seq(S), Final(p), Final(r)
    PROVE  Final(p \o r)
<1>1. \A k \in 1..Len(p \o r) :
                 \/ k \in 1..Len(p) /\ (p \o r)[k] = p[k]
                 \/ k - Len(p) \in 1..Len(r) /\ (p \o r)[k] = r[k - Len(p)]
  BY JoinIs
<1> QED BY <1>1 DEF Final

\* A step under a condition.
LEMMA WhenFinal ==
    ASSUME NEW t, NEW a, Closing(a)
    PROVE  Final(When(t, <<a>>))
<1>1. CASE t
  <2>1. When(t, <<a>>) = <<a>>
    BY <1>1 DEF When
  <2> QED BY <2>1, ShortFinal
<1>2. CASE ~t
  <2>1. When(t, <<a>>) = << >>
    BY <1>2 DEF When
  <2> QED BY <2>1, ShortFinal
<1> QED BY <1>1, <1>2

\* The ends that need no wisp.
LEMMA EndsAreFinal ==
    Final(closeBead) /\ Final(ApproveHandler) /\ Final(reconcileCreating)
      /\ Final(reconcileTerminatedNotClosed)
<1>1. Final(closeBead)
  <2>1. Closing(BestEffort(Set("state", "terminated"))) /\ Closing(BestEffort(CloseRoot))
    BY ClosingSteps, StillSteps
  <2> QED BY <2>1, ShortFinal DEF closeBead
<1>2. Final(ApproveHandler)
  <2>1. PICK m : m = ""
    BY Zenon
  <2>2. PICK a, b, d, e, f :
           /\ a = Set("treason", "approved") /\ b = Set("wreason", m)
           /\ d = Set("state", "terminated") /\ e = Emit("terminated", 0, "approved")
           /\ f = CloseRoot
    OBVIOUS
  <2>3. Closing(a) /\ Closing(b) /\ Closing(d) /\ Closing(e) /\ Closing(f)
    BY <2>2, ClosingSteps, StillSteps
  <2>4. ApproveHandler = <<a, b, d, e, f>>
    BY <2>1, <2>2, Zenon DEF ApproveHandler
  <2>5. Final(<<a, b, d, e, f>>)
    BY <2>3, PlacesUpToSix DEF Final, Closing
  <2> QED BY <2>4, <2>5
<1>3. Final(reconcileCreating)
  <2>1. Closing(Set("treason", "partial_creation")) /\ Closing(Set("state", "terminated"))
        /\ Closing(CloseRoot)
    BY ClosingSteps, StillSteps
  <2> QED BY <2>1, ShortFinal DEF reconcileCreating
<1>4. Final(reconcileTerminatedNotClosed)
  <2>1. PICK v : v = IF meta.treason = "" THEN "no_convergence" ELSE meta.treason
    BY Zenon
  <2>2. PICK a : a = Emit("terminated", 0, v)
    BY Zenon
  <2>3. Closing(a) /\ Closing(CloseRoot)
    BY <2>2, ClosingSteps, StillSteps, Zenon
  <2>4. reconcileTerminatedNotClosed = <<a, CloseRoot>>
    BY <2>1, <2>2, Zenon DEF reconcileTerminatedNotClosed
  <2> QED BY <2>3, <2>4, ShortFinal, Zenon
<1> QED BY <1>1, <1>2, <1>3, <1>4

\* The end an operator asks for.
LEMMA StopCommitFinal ==
    ASSUME NEW w, NEW forced \in BOOLEAN
    PROVE  Final(stopCommit(w, forced))
<1> DEFINE final == IF forced THEN w ELSE meta.lpw
           x == When(forced, <<Emit("iteration", ClosedCount, "stopped")>>)
           y == When(final # None, <<Ref("lpw", final)>>)
<1>1. PICK m : m = ""
  BY Zenon
<1>2. PICK a, b, d, e, f, g, h :
         /\ a = Set("treason", "stopped") /\ b = Set("wreason", m) /\ d = Set("state", "terminated")
         /\ e = Emit("terminated", 0, "stopped") /\ f = CloseRoot
         /\ g = Emit("iteration", ClosedCount, "stopped") /\ h = Ref("lpw", final)
  OBVIOUS
<1>3. /\ Closing(a) /\ Closing(b) /\ Closing(d) /\ Closing(e) /\ Closing(f) /\ Closing(g)
      /\ Closing(h)
  BY <1>2, ClosingSteps, StillSteps
<1>4. x = When(forced, <<g>>) /\ y = When(final # None, <<h>>)
  BY <1>2
<1>5. stopCommit(w, forced) = <<a, b, d>> \o x \o <<e, f>> \o y
  BY <1>1, <1>2, Zenon DEF stopCommit
<1> HIDE DEF x, y, final
<1> HIDE <1>1, <1>2
<1>6. PICK S : S = {a, b, d, e, f, g, h}
  OBVIOUS
<1>7. x \in Seq(S) /\ y \in Seq(S) /\ <<a, b, d>> \in Seq(S) /\ <<e, f>> \in Seq(S)
  BY <1>4, <1>6, WhenIs
<1>8. Final(x) /\ Final(y) /\ Final(<<a, b, d>>) /\ Final(<<e, f>>)
  BY <1>3, <1>4, WhenFinal, ShortFinal
<1>9. PICK p, r \in Seq(S) : p = <<a, b, d>> /\ r = <<e, f>> /\ Final(p) /\ Final(r)
  BY <1>7, <1>8
<1>10. p \o x \in Seq(S) /\ Final(p \o x)
  BY <1>7, <1>8, <1>9, FinalJoin, JoinIs
<1>11. p \o x \o r \in Seq(S) /\ Final(p \o x \o r)
  BY <1>9, <1>10, FinalJoin, JoinIs
<1>12. Final(p \o x \o r \o y)
  BY <1>7, <1>8, <1>11, FinalJoin
<1> QED BY <1>5, <1>9, <1>12

\* The end that was interrupted.
LEMMA CompleteFinal == Final(completeTerminalTransition)
<1> DEFINE y == When(HighestClosed # None, <<BestEffort(Ref("lpw", HighestClosed))>>)
<1>1. PICK a, b, d, e :
         /\ a = Emit("terminated", 0, meta.treason) /\ b = Set("state", "terminated")
         /\ d = CloseRoot /\ e = BestEffort(Ref("lpw", HighestClosed))
  OBVIOUS
<1>2. Closing(a) /\ Closing(b) /\ Closing(d) /\ Closing(e)
  BY <1>1, ClosingSteps, StillSteps
<1>3. completeTerminalTransition = <<a, b, d>> \o y /\ y = When(HighestClosed # None, <<e>>)
  BY <1>1 DEF completeTerminalTransition
<1> HIDE DEF y
<1>4. PICK S : S = {a, b, d, e}
  OBVIOUS
<1>5. y \in Seq(S) /\ <<a, b, d>> \in Seq(S)
  BY <1>3, <1>4, WhenIs
<1>6. Final(y) /\ Final(<<a, b, d>>)
  BY <1>2, <1>3, WhenFinal, ShortFinal
<1> QED BY <1>3, <1>5, <1>6, FinalJoin

\* Reconciling a loop that waits, and the branches of a stop that pour nothing.
LEMMA WaitsAreFinal ==
    /\ Final(reconcileWaitingManual) /\ Final(reconcileWaitingTrigger)
    /\ \A w : Final(stopForce(w))
    /\ Final(IF meta.state = "terminated" THEN << >> ELSE <<Do("stop_force", meta.active, None, "")>>)
<1>0. PICK o : Closing(o) /\ o = CloseRoot
  BY ClosingSteps, StillSteps
<1>1. Final(reconcileWaitingManual)
  <2>1. Closing(Ref("lpw", HighestClosed)) /\ Closing(Set("wreason", "manual"))
    BY ClosingSteps, StillSteps
  <2>2. /\ Final(When(HighestClosed \notin {None, meta.lpw}, <<Ref("lpw", HighestClosed)>>))
        /\ Final(When(HighestClosed # None, <<Set("wreason", "manual")>>))
    BY <2>1, WhenFinal
  <2> QED BY <2>2, CompleteFinal, Zenon DEF reconcileWaitingManual
<1>2. Final(<< >>)
  BY <1>0, ShortFinal
<1>3. Final(reconcileWaitingTrigger)
  BY <1>2, CompleteFinal, Zenon DEF reconcileWaitingTrigger
<1>4. "close_wisp" \in Ops \ {"set", "ref", "emit", "pour", "handle", "gate", "settle", "delete"}
      /\ "stop_commit" \in Ops \ {"set", "ref", "emit", "pour", "handle", "gate", "settle", "delete"}
      /\ "stop_force" \in Ops \ {"set", "ref", "emit", "pour", "handle", "gate", "settle", "delete"}
  BY DEF Ops, Calls, Branches
<1>5. \A w : /\ Closing(Call("close_wisp", w)) /\ Closing(Call("stop_commit", w))
             /\ Closing(Call("stop_force", w))
  BY <1>4, ClosingSteps, StillSteps
<1>6. \A w : Closing(Do("stop_commit", w, None, "forced"))
  BY <1>4, ClosingSteps, StillSteps
<1>7. ASSUME NEW active PROVE Final(stopForce(active))
  <2> DEFINE w == IF active = None \/ Exists(active) THEN active ELSE recoverCurrentActiveWisp
  <2>1. \/ stopForce(active) = <<Call("close_wisp", w), Do("stop_commit", w, None, "forced")>>
        \/ stopForce(active) = <<Call("stop_commit", w)>>
    BY Zenon DEF stopForce, Call
  <2> HIDE DEF w
  <2>2. Final(<<Call("close_wisp", w), Do("stop_commit", w, None, "forced")>>)
    BY <1>5, <1>6, ShortFinal
  <2>3. Final(<<Call("stop_commit", w)>>)
    BY <1>5, ShortFinal
  <2> QED BY <2>1, <2>2, <2>3, Zenon
<1>8. Final(<<Call("stop_force", meta.active)>>)
  BY <1>5, ShortFinal
<1>9. Final(IF meta.state = "terminated" THEN << >> ELSE <<Do("stop_force", meta.active, None, "")>>)
  BY <1>2, <1>8, Zenon DEF Call
<1> QED BY <1>1, <1>3, <1>7, <1>9, Zenon

-----------------------------------------------------------------------------
(* What each handler relies on.                                            *)

\* Wisp w is to be judged.
Judging(c, w) ==
    w = c.active /\ w \in c.shut /\ (c.state = "active" \/ c.state = "waiting_trigger")

\* Wisp x, if any, is the one poured ahead.
Ahead(c, x, v) ==
    IF x = None THEN AllOpen(c, c.count + 1)
    ELSE Spare(c, x) /\ OnlyOpen(c, x) /\ ~c.loop.trigger /\ v # "pour_failed"

\* One step that branches.
LEMMA JudgeTends ==
    ASSUME NEW s, NEW c, Judges(s), s.fail = "abort", Judging(c, s.w),
           s.op # "handle" => Ahead(c, s.x, s.v)
    PROVE  Tends(<<s>>, c)
<1> DEFINE q == <<s>>
<1>1. q[1] = s /\ \A k \in 1..Len(q) : k = 1
  BY PlacesUpToThree
<1> HIDE DEF q
<1>2. JudgeSuits(q, c, 1)
  BY <1>1, FirstStep DEF JudgeSuits, Judging, Ahead
<1>3. s.op \in {"handle", "gate", "settle"}
  BY DEF Judges
<1>4. ~SetsActive(s) /\ ~SetsState(s)
  BY <1>3 DEF SetsActive, SetsState
<1>5. Suits(q, c, 1)
  BY <1>1, <1>2, <1>3, <1>4 DEF Suits, FailSuits
<1>6. Tends(q, c)
  BY <1>1, <1>5 DEF Tends
<1> QED BY <1>6 DEF q

\* One pour.
LEMMA PourTends ==
    ASSUME NEW s, NEW c, s.op = "pour", s.fail = "abort" \/ s.fail = "rollback",
           PourSuits(<<s>>, c, 1)
    PROVE  Tends(<<s>>, c)
<1> DEFINE q == <<s>>
<1>1. q[1] = s /\ \A k \in 1..Len(q) : k = 1
  BY PlacesUpToThree
<1>2. PourSuits(q, c, 1)
  OBVIOUS
<1> HIDE DEF q
<1>3. ~SetsActive(s) /\ ~SetsState(s) /\ ~Judges(s)
  BY DEF SetsActive, SetsState, Judges
<1>4. Suits(q, c, 1)
  BY <1>1, <1>2, <1>3 DEF Suits, FailSuits
<1>5. Tends(q, c)
  BY <1>1, <1>4 DEF Tends
<1> QED BY <1>5 DEF q

\* A gate.
LEMMA GateTends ==
    ASSUME NEW n \in Nat, NEW s \in Steps(n), NEW outcome, NEW c, s.w \in 0..n, IterOf(s.w) \in Nat,
           Judging(c, s.w), Ahead(c, s.x, s.v)
    PROVE  Tends(gateEvaluation(s, outcome), c)
<1>1. s.x \in 0..n
  BY DEF Steps
<1>2. PICK l : l = Do("settle", s.w, s.x, s.v) /\ l.op = "settle" /\ l.w = s.w /\ l.x = s.x
               /\ l.v = s.v /\ l.fail = "abort"
  BY DoBits
<1>3. Judges(l)
  BY <1>2 DEF Judges
<1>4. Tends(<<l>>, c)
  BY <1>2, <1>3, JudgeTends
<1>5. Tends(burnSpeculativeWisp(s.x) \o transitionToWaitingManual(s.w, "manual"), c)
  <2>1. transitionToWaitingManual(s.w, "manual") \in Seq(Steps(n))
    BY Words, WaitManualFits DEF Fits
  <2> QED BY <1>1, <2>1, WaitManualRetreats, BurnRetreats DEF Ahead
<1>6. Tends(<<OrBurn(Set("outcome", outcome), s.x), OrBurn(Ref("gated", s.w), s.x), l>>, c)
  <2>1. PICK a : /\ a = OrBurn(Set("outcome", outcome), s.x) /\ a.op = "set" /\ a.key = "outcome"
                 /\ a.fail = "burn" /\ a.x = s.x
    BY SetBits
  <2>2. PICK b : /\ b = OrBurn(Ref("gated", s.w), s.x) /\ b.op = "ref" /\ b.key = "gated"
                 /\ b.fail = "burn" /\ b.x = s.x
    BY RefBits
  <2> DEFINE q == <<a, b, l>>
  <2>3. q[1] = a /\ q[2] = b /\ q[3] = l /\ \A k \in 1..Len(q) : k = 1 \/ k = 2 \/ k = 3
    BY PlacesUpToThree
  <2> HIDE DEF q
  <2>4. /\ ~SetsActive(a) /\ ~SetsState(a) /\ ~SetsActive(b) /\ ~SetsState(b)
        /\ ~SetsActive(l) /\ ~SetsState(l) /\ ~Judges(a) /\ ~Judges(b)
    BY <1>2, <2>1, <2>2 DEF SetsActive, SetsState, Judges
  <2>5. Settled(q, 1) /\ Settled(q, 2) /\ Unmoved(q, 3)
    <3>1. (\A j \in 1..2 - 1 : j = 1) /\ (\A j \in 1..3 - 1 : j = 1 \/ j = 2)
      OBVIOUS
    <3> QED BY <2>1, <2>2, <2>3, <2>4, <3>1, FirstStep DEF Settled, Unmoved
  <2>6. s.x # None => Spare(c, s.x)
    BY DEF Ahead
  <2>7. Suits(q, c, 1)
    BY <2>1, <2>3, <2>4, <2>5, <2>6 DEF Suits, FailSuits
  <2>8. Suits(q, c, 2)
    BY <2>2, <2>3, <2>4, <2>5, <2>6 DEF Suits, FailSuits
  <2>9. JudgeSuits(q, c, 3)
    BY <1>2, <2>3, <2>5 DEF JudgeSuits, Judging, Ahead
  <2>10. Suits(q, c, 3)
    BY <1>2, <2>3, <2>4, <2>9 DEF Suits, FailSuits
  <2>11. Tends(q, c)
    BY <2>3, <2>7, <2>8, <2>10 DEF Tends
  <2> QED BY <2>1, <2>2, <2>11 DEF q
<1> QED BY <1>2, <1>4, <1>5, <1>6, Zenon DEF gateEvaluation

\* The write of the active wisp, with nothing but still steps around it.
Adopts(q, w) ==
    \A k \in 1..Len(q) :
        Still(q[k]) \/ (SetsActive(q[k]) /\ q[k].w = w /\ q[k].fail \in {"abort", "rollback"})

\* A loop adopts a wisp it may work on.
LEMMA AdoptTends ==
    ASSUME NEW q, NEW w, NEW c, Adopts(q, w), c.state # "waiting_manual",
           IF w = None THEN AllOpen(c, c.count + 1) ELSE Works(c, w)
    PROVE  Tends(q, c)
<1> SUFFICES ASSUME NEW k \in 1..Len(q) PROVE Suits(q, c, k)
  BY DEF Tends
<1>1. CASE Still(q[k])
  BY <1>1, StillSuits
<1>2. CASE SetsActive(q[k]) /\ q[k].w = w /\ q[k].fail \in {"abort", "rollback"}
  <2>1. q[k].op = "ref" /\ q[k].key = "active" /\ ~SetsState(q[k])
    BY <1>2 DEF SetsActive, SetsState
  <2>2. AllOpen(c, c.count + 1) => LetsGo(q, c, k)
    BY DEF LetsGo, AllOpen
  <2>3. ActiveSuits(q, c, k)
    BY <1>2, <2>2 DEF ActiveSuits
  <2> QED BY <1>2, <2>1, <2>3 DEF Suits, FailSuits, Judges
<1> QED BY <1>1, <1>2 DEF Adopts

\* A wisp poured ahead may be worked on.
LEMMA AheadWorks ==
    ASSUME NEW c, NEW x, Sized(c), Counted(c), Spare(c, x), OnlyOpen(c, x)
    PROVE  Works(c, x)
<1>1. CASE x \in c.shut
  BY <1>1 DEF Spare, Works
<1>2. CASE x \in c.open
  <2>1. c.loop.listsClosed => c.iter[x] = c.count + 1 /\ c.count \in Nat
    BY <1>2 DEF Counted, AllOpen, Sized
  <2>2. UpTo(c, c.iter[x])
    BY <2>1 DEF UpTo
  <2> QED BY <2>2 DEF Spare, Works
<1> QED BY <1>1, <1>2 DEF Spare, There

\* The next iteration.
LEMMA IterateTends ==
    ASSUME NEW w, NEW x, NEW c, NEW v, Sized(c), Counted(c), Judging(c, w), Ahead(c, x, v)
    PROVE  Tends(iterate(w, x), c)
<1>1. PICK a, b, d, e, f :
         /\ a = Call("activate", x) /\ b = Emit("iteration", IterOf(w), "iterate")
         /\ d = Ref("active", x) /\ e = Ref("lpw", w) /\ f = ClearPending
  OBVIOUS
<1>2. Still(a) /\ Still(b) /\ Still(e) /\ Still(f)
  <2>1. "activate" \in Ops \ {"set", "ref", "emit", "pour", "handle", "gate", "settle", "delete"}
    BY DEF Ops
  <2> QED BY <1>1, <2>1, StillSteps
<1>3. SetsActive(d) /\ d.w = x /\ d.fail = "abort"
  BY <1>1, MoveSteps, RefBits
<1>4. iterate(w, x) = <<a, b, d, e, f>>
  BY <1>1, Zenon DEF iterate, Call
<1>5. Adopts(<<a, b, d, e, f>>, x)
  BY <1>2, <1>3, PlacesUpToSix DEF Adopts
<1>6. c.state # "waiting_manual"
  BY DEF Judging
<1>7. IF x = None THEN AllOpen(c, c.count + 1) ELSE Works(c, x)
  BY AheadWorks DEF Ahead
<1> QED BY <1>4, <1>5, <1>6, <1>7, AdoptTends

\* What the outcome means for the loop.
LEMMA PrepareTends ==
    ASSUME NEW n \in Nat, NEW w \in 0..n, NEW x \in 0..n, NEW v, NEW c, IterOf(w) \in Nat,
           c.loop = loop, Sized(c), Counted(c), Judging(c, w), Ahead(c, x, v)
    PROVE  Tends(prepareOutcome(w, x, v = "pour_failed"), c)
<1>1. Tends(burnSpeculativeWisp(x) \o transitionToWaitingManual(w, "timeout"), c)
  <2>1. transitionToWaitingManual(w, "timeout") \in Seq(Steps(n))
    BY Words, WaitManualFits DEF Fits
  <2> QED BY <2>1, WaitManualRetreats, BurnRetreats DEF Ahead
<1>2. /\ Tends(burnSpeculativeWisp(x) \o terminate(w, "approved"), c)
      /\ Tends(burnSpeculativeWisp(x) \o terminate(w, "no_convergence"), c)
  <2>1. /\ "approved" \in Reasons /\ Given("approved")
        /\ "no_convergence" \in Reasons /\ Given("no_convergence")
    BY Words DEF Given
  <2>2. /\ terminate(w, "approved") \in Seq(Steps(n))
        /\ terminate(w, "no_convergence") \in Seq(Steps(n))
    BY <2>1, TerminateFits DEF Fits
  <2> QED BY <2>2, TerminateRetreats, BurnRetreats DEF Ahead
<1>3. v = "pour_failed" => Tends(transitionToWaitingManual(w, "sling_failure"), c)
  BY WaitManualRetreats, RetreatEnds, RetreatTends DEF Ahead
<1>4. loop.trigger => Tends(transitionToWaitingTrigger(w), c)
  BY WaitTriggerRetreats, RetreatEnds, RetreatTends DEF Ahead
<1>5. Tends(iterate(w, x), c)
  BY IterateTends
<1> QED BY <1>1, <1>2, <1>3, <1>4, <1>5, Zenon DEF prepareOutcome

\* Names of operations that matter to no wisp.
LEMMA StillCalls ==
    \A op \in {"activate", "create", "index", "error", "reconcile", "stop", "stop_reread",
               "stop_force", "stop_commit", "close_wisp"} : \A w : Still(Call(op, w))
<1>1. {"activate", "create", "index", "error", "reconcile", "stop", "stop_reread",
       "stop_force", "stop_commit", "close_wisp"}
        \subseteq Ops \ {"set", "ref", "emit", "pour", "handle", "gate", "settle", "delete"}
  BY DEF Ops, Calls, Branches
<1> QED BY <1>1, StillSteps

\* What follows a pour.
LEMMA AfterPourTends ==
    ASSUME NEW q, NEW d, NEW i, Returns(q, d, i), q[1].key \in PourKeys \ {"first"}, Placed(d),
           q[1].key = "manual" => d.state = "waiting_manual"
    PROVE  Tends(AfterPour(q[1], i), d)
<1> DEFINE s == q[1]
<1>1. PICK ac : ac = Ref("active", i) /\ SetsActive(ac) /\ ~SetsState(ac) /\ ac.w = i /\ ac.fail = "abort"
                /\ ac.op = "ref" /\ ac.key = "active"
  BY MoveSteps, RefBits
<1>2. PICK st : st = Set("state", "active") /\ SetsState(st) /\ ~SetsActive(st) /\ st.v = "active"
                /\ st.fail = "abort" /\ st.op = "set" /\ st.key = "state" /\ Sets(st, "active")
  BY MoveSteps, SetBits
<1>3. PICK wr : \E e : e = "" /\ wr = Set("wreason", e)
  BY Zenon
<1>4. Still(wr)
  <2>1. PICK e : wr = Set("wreason", e)
    BY <1>3, Zenon
  <2> QED BY <2>1, StillSteps
<1>5. PICK av : av = Call("activate", i) /\ Still(av)
  BY StillCalls
<1>6. PICK cp : cp = ClearPending /\ Still(cp)
  BY StillSteps
<1>7. Works(d, i) /\ i # None
  BY DEF Returns
<1>8. CASE s.key = "speculative"
  <2>1. PICK pe : pe = OrBurn(Ref("pending", i), i) /\ pe.op = "ref" /\ pe.key = "pending" /\ pe.w = i
                  /\ pe.x = i /\ pe.fail = "burn"
    BY RefBits
  <2>2. PICK ga : ga = Gate(s.x, i) /\ ga.op = "gate" /\ ga.w = s.x /\ ga.x = i /\ ga.fail = "abort"
                  /\ ga.v # "pour_failed"
    BY CallBits
  <2> DEFINE p == <<pe, ga>>
  <2>3. AfterPour(s, i) = p
    BY <1>8, <2>1, <2>2, Zenon DEF AfterPour, Gate
  <2>4. p[1] = pe /\ p[2] = ga /\ \A k \in 1..Len(p) : k = 1 \/ k = 2
    BY PlacesUpToThree
  <2> HIDE DEF p
  <2>5. /\ ~SetsActive(pe) /\ ~SetsState(pe) /\ ~Judges(pe)
        /\ ~SetsActive(ga) /\ ~SetsState(ga)
    BY <2>1, <2>2 DEF SetsActive, SetsState, Judges
  <2>6. Settled(p, 1) /\ Unmoved(p, 2)
    <3>1. \A j \in 1..2 - 1 : j = 1
      OBVIOUS
    <3> QED BY <2>1, <2>4, <2>5, <3>1, FirstStep DEF Settled, Unmoved
  <2>7. Spare(d, i) /\ d.state = "active" /\ d.active = s.x /\ s.x \in d.shut /\ ~d.loop.trigger
    BY <1>8 DEF Returns
  <2>8. Suits(p, d, 1)
    BY <2>1, <2>4, <2>5, <2>6, <2>7 DEF Suits, FailSuits
  <2>9. JudgeSuits(p, d, 2)
    BY <1>7, <2>2, <2>4, <2>6, <2>7 DEF JudgeSuits, Works
  <2>10. Suits(p, d, 2)
    BY <2>2, <2>4, <2>5, <2>9 DEF Suits, FailSuits
  <2>11. Tends(p, d)
    BY <2>4, <2>8, <2>10 DEF Tends
  <2> QED BY <2>3, <2>11
<1>9. CASE s.key = "create"
  <2>1. PICK a : a = OrRollback(Ref("active", i)) /\ SetsActive(a) /\ a.w = i /\ a.fail = "rollback"
    BY MoveSteps, RefBits
  <2>2. PICK b : b = Created /\ Still(b)
    <3>1. PICK e : e = ""
      BY Zenon
    <3>2. Created = Emit("created", 0, e)
      BY <3>1, Zenon DEF Created
    <3> QED BY <3>2, StillSteps
  <2>3. AfterPour(s, i) = <<a, b>>
    BY <1>9, <2>1, <2>2, Zenon DEF AfterPour, Created
  <2>4. Adopts(<<a, b>>, i)
    BY <2>1, <2>2, PlacesUpToThree DEF Adopts
  <2>5. d.state # "waiting_manual"
    BY <1>9 DEF Returns
  <2> QED BY <1>7, <2>3, <2>4, <2>5, AdoptTends
<1>10. CASE s.key = "recover"
  <2>3. AfterPour(s, i) = <<av, ac, cp>>
    BY <1>1, <1>5, <1>6, <1>10, Zenon DEF AfterPour, Call
  <2>4. Adopts(<<av, ac, cp>>, i)
    BY <1>1, <1>5, <1>6, PlacesUpToThree DEF Adopts
  <2>5. d.state # "waiting_manual"
    BY <1>10 DEF Returns
  <2> QED BY <1>7, <2>3, <2>4, <2>5, AdoptTends
<1>11. CASE s.key = "manual"
  <2> DEFINE p == <<wr, st, ac>>
  <2>1. AfterPour(s, i) = p
    BY <1>1, <1>2, <1>3, <1>11, Zenon DEF AfterPour
  <2>2. p[1] = wr /\ p[2] = st /\ p[3] = ac /\ \A k \in 1..Len(p) : k = 1 \/ k = 2 \/ k = 3
    BY PlacesUpToThree
  <2> HIDE DEF p
  <2>3. ~SetsActive(wr)
    BY <1>4 DEF Still
  <2>4. EndsBusy(p)
    BY <1>1, <1>2, <1>7, <2>2, <2>3 DEF EndsBusy
  <2>5. d.active = None /\ AllOpen(d, d.count + 1)
    BY <1>11 DEF Placed, Returns
  <2>6. StateSuits(p, d, 2)
    <3>1. Given(st.v) /\ st.v \notin Waiting
      BY <1>2, NamesAreGiven DEF Waiting
    <3> QED BY <1>2, <2>2, <2>4, <2>5, <3>1 DEF StateSuits
  <2>7. Suits(p, d, 2)
    BY <1>2, <2>2, <2>6 DEF Suits, FailSuits, Judges
  <2>8. Becomes(p, 3, "active")
    <3>1. 2 \in 1..3 - 1
      OBVIOUS
    <3> QED BY <1>2, <2>2, <3>1 DEF Becomes
  <2>9. Suits(p, d, 3)
    BY <1>1, <1>7, <2>2, <2>8 DEF Suits, FailSuits, Judges, ActiveSuits
  <2>10. Suits(p, d, 1)
    BY <1>4, <2>2, StillSuits
  <2>11. Tends(p, d)
    BY <2>2, <2>7, <2>9, <2>10 DEF Tends
  <2> QED BY <2>1, <2>11
<1>12. CASE s.key = "trigger"
  <2> DEFINE p == <<av, ac, st>>
  <2>1. AfterPour(s, i) = p
    BY <1>1, <1>2, <1>5, <1>12, Zenon DEF AfterPour, Call
  <2>2. p[1] = av /\ p[2] = ac /\ p[3] = st /\ \A k \in 1..Len(p) : k = 1 \/ k = 2 \/ k = 3
    BY PlacesUpToThree
  <2> HIDE DEF p
  <2>3. ~SetsActive(av)
    BY <1>5 DEF Still
  <2>4. EndsBusy(p)
    BY <1>1, <1>2, <1>7, <2>2, <2>3 DEF EndsBusy
  <2>5. d.state # "waiting_manual" /\ AllOpen(d, d.count + 1)
    BY <1>12 DEF Returns
  <2>6. Activates(p, 3)
    <3>1. 2 \in 1..3 - 1
      OBVIOUS
    <3> QED BY <1>1, <2>2, <3>1 DEF Activates
  <2>7. StateSuits(p, d, 3)
    <3>1. Given(st.v) /\ st.v \notin Waiting
      BY <1>2, NamesAreGiven DEF Waiting
    <3> QED BY <1>2, <2>2, <2>4, <2>5, <2>6, <3>1 DEF StateSuits
  <2>8. Suits(p, d, 3)
    BY <1>2, <2>2, <2>7 DEF Suits, FailSuits, Judges
  <2>9. Suits(p, d, 2)
    BY <1>1, <1>7, <2>2, <2>5 DEF Suits, FailSuits, Judges, ActiveSuits
  <2>10. Suits(p, d, 1)
    BY <1>5, <2>2, StillSuits
  <2>11. Tends(p, d)
    BY <2>2, <2>8, <2>9, <2>10 DEF Tends
  <2> QED BY <2>1, <2>11
<1> QED BY <1>8, <1>9, <1>10, <1>11, <1>12 DEF PourKeys

\* Three steps and two.
LEMMA ThreeAndTwo ==
    ASSUME NEW a, NEW b, NEW d, NEW x, NEW y
    PROVE  LET q == <<a, b, d>> \o <<x, y>>
           IN  /\ q[1] = a /\ q[2] = b /\ q[3] = d /\ q[4] = x /\ q[5] = y
               /\ \A k \in 1..Len(q) : k = 1 \/ k = 2 \/ k = 3 \/ k = 4 \/ k = 5
<1> DEFINE l == <<a, b, d>>
           r == <<x, y>>
           q == l \o r
<1>1. PICK S : S = {a, b, d, x, y}
  OBVIOUS
<1>2. l \in Seq(S) /\ Len(l) = 3 /\ l[1] = a /\ l[2] = b /\ l[3] = d
  BY <1>1
<1>3. r \in Seq(S) /\ Len(r) = 2 /\ r[1] = x /\ r[2] = y
  BY <1>1
<1> HIDE DEF l, r
<1>4. /\ Len(q) = Len(l) + Len(r)
      /\ \A k \in 1..Len(l) : q[k] = l[k]
      /\ \A k \in 1..Len(r) : q[Len(l) + k] = r[k]
  <2>1. l \in Seq(S) /\ r \in Seq(S)
    BY <1>2, <1>3
  <2> QED BY <2>1, JoinIs
<1>5. 1 \in 1..3 /\ 2 \in 1..3 /\ 3 \in 1..3 /\ 1 \in 1..2 /\ 2 \in 1..2
      /\ \A k \in 1..5 : k = 1 \/ k = 2 \/ k = 3 \/ k = 4 \/ k = 5
  OBVIOUS
<1> HIDE DEF q
<1>6. q[1] = a /\ q[2] = b /\ q[3] = d /\ q[4] = x /\ q[5] = y /\ Len(q) = 5
  BY <1>2, <1>3, <1>4, <1>5
<1> QED BY <1>5, <1>6 DEF q, l, r

\* No wisp, so none is counted.
LEMMA EmptyCounts ==
    ASSUME NEW c, Empty(c), Sized(c), Counted(c)
    PROVE  c.count = 0 /\ \A n : AllOpen(c, n)
<1>1. c.count \in Nat /\ (~c.loop.listsClosed => c.count = 0)
  BY DEF Sized
<1>2. ASSUME c.loop.listsClosed, c.count # 0 PROVE FALSE
  <2>1. 1 \in 1..c.count
    BY <1>1, <1>2
  <2> QED BY <1>2, <2>1 DEF Counted, Empty
<1> QED BY <1>1, <1>2 DEF Empty, AllOpen

\* A creation, of which x and y are the last two steps.
LEMMA CreationTends ==
    ASSUME NEW c, NEW a, NEW b, NEW d, NEW x, NEW y, Empty(c), Sized(c), Counted(c),
           ~Given(c.state), c.active = None,
           Still(a), Sets(b, "creating"), b.fail = "rollback",
           d.op = "set", d.key = "formula", d.v = "set", d.fail = "rollback",
           \/ Sets(x, "waiting_trigger") /\ c.loop.trigger /\ Still(y)
           \/ Sets(x, "active") /\ y.op = "pour" /\ y.key = "create" /\ y.w = 1 /\ y.fail = "rollback",
           x.fail = "rollback"
    PROVE  Tends(<<a, b, d>> \o <<x, y>>, c)
<1> DEFINE q == <<a, b, d>> \o <<x, y>>
<1>1. /\ q[1] = a /\ q[2] = b /\ q[3] = d /\ q[4] = x /\ q[5] = y
      /\ \A k \in 1..Len(q) : k = 1 \/ k = 2 \/ k = 3 \/ k = 4 \/ k = 5
  BY ThreeAndTwo
<1> HIDE DEF q
<1>2. /\ b.op = "set" /\ b.key = "state" /\ b.v = "creating" /\ SetsState(b)
      /\ x.op = "set" /\ x.key = "state" /\ (x.v = "waiting_trigger" \/ x.v = "active") /\ SetsState(x)
  BY DEF Sets, SetsState
<1>3. /\ ~SetsActive(a) /\ ~SetsActive(b) /\ ~SetsActive(d) /\ ~SetsActive(x) /\ ~SetsActive(y)
      /\ ~SetsState(a) /\ ~SetsState(d)
      /\ a.op # "delete"
  BY <1>2 DEF Still, SetsActive, SetsState
<1>4. Suits(q, c, 1)
  BY <1>1, StillSuits
<1>5. Suits(q, c, 2)
  <2>1. StateSuits(q, c, 2)
    BY <1>1, <1>2, NamesAreGiven DEF StateSuits, Waiting
  <2> QED BY <1>1, <1>2, <1>3, <2>1 DEF Suits, FailSuits, Judges
<1>6. Suits(q, c, 3)
  <2>1. 2 \in 1..3 - 1
    OBVIOUS
  <2>2. Becomes(q, 3, "creating")
    BY <1>1, <2>1 DEF Becomes
  <2>3. FormulaSuits(q, c, 3)
    BY <1>1, <2>2, NamesAreGiven DEF FormulaSuits
  <2> QED BY <1>1, <1>3, <2>3 DEF Suits, FailSuits, Judges
<1>7. Suits(q, c, 4)
  <2>1. \A n : AllOpen(c, n) /\ LetsGo(q, c, 4)
    BY DEF Empty, AllOpen, LetsGo
  <2>2. EndsBusy(q)
    BY <1>1, <1>3 DEF EndsBusy
  <2>3. x.v = "waiting_trigger" => c.loop.trigger
    BY <1>2 DEF Sets
  <2>4. StateSuits(q, c, 4)
    BY <1>1, <1>2, <2>1, <2>2, <2>3, NamesAreGiven DEF StateSuits, Waiting
  <2> QED BY <1>1, <1>2, <1>3, <2>4 DEF Suits, FailSuits, Judges
<1>8. Suits(q, c, 5)
  <2>1. CASE Still(y)
    BY <1>1, <2>1, StillSuits
  <2>2. CASE Sets(x, "active") /\ y.op = "pour" /\ y.key = "create" /\ y.w = 1 /\ y.fail = "rollback"
    <3>1. \A j \in 1..5 - 1 : j = 1 \/ j = 2 \/ j = 3 \/ j = 4
      OBVIOUS
    <3>2. Settled(q, 5)
      BY <1>1, <1>2, <1>3, <3>1 DEF Settled
    <3>3. NeverWaits(q, 5)
      <4>1. x.v = "active"
        BY <2>2 DEF Sets
      <4> QED BY <1>1, <1>2, <1>3, <3>1, <4>1 DEF NeverWaits, Waiting
    <3>4. c.state \notin Waiting
      BY NamesAreGiven DEF Waiting
    <3>5. c.count = 0 /\ AllOpen(c, 1) /\ UpTo(c, 1)
      BY EmptyCounts DEF UpTo
    <3>6. PourSuits(q, c, 5)
      BY <1>1, <2>2, <3>2, <3>3, <3>4, <3>5 DEF PourSuits
    <3>7. ~SetsState(y) /\ ~Judges(y)
      BY <2>2 DEF SetsState, Judges
    <3> QED BY <1>1, <1>3, <2>2, <3>6, <3>7 DEF Suits, FailSuits
  <2> QED BY <2>1, <2>2
<1>9. Tends(q, c)
  BY <1>1, <1>4, <1>5, <1>6, <1>7, <1>8 DEF Tends
<1> QED BY <1>9 DEF q

\* The creation of a loop.
LEMMA CreateTends ==
    ASSUME NEW c, Empty(c), Sized(c), Counted(c), ~Given(c.state), c.active = None, c.loop = loop
    PROVE  Tends(CreateHandler, c)
<1>1. PICK a, b, d :
         /\ a = Call("create", None) /\ b = OrRollback(Set("state", "creating"))
         /\ d = OrRollback(Set("formula", "set"))
  OBVIOUS
<1>2. /\ Still(a) /\ Sets(b, "creating") /\ b.fail = "rollback" /\ d.op = "set" /\ d.key = "formula"
      /\ d.v = "set" /\ d.fail = "rollback"
  BY <1>1, StillCalls, MoveSteps, SetBits
<1>3. PICK g, po :
         /\ g = OrRollback(Set("state", "active")) /\ po = OrRollback(Pour(1, "create", None))
  OBVIOUS
<1>4. /\ Sets(g, "active") /\ g.fail = "rollback" /\ po.op = "pour" /\ po.key = "create"
      /\ po.w = 1 /\ po.fail = "rollback"
  BY <1>3, MoveSteps, SetBits, DoBits
<1>5. PICK e, cr : e = OrRollback(Set("state", "waiting_trigger")) /\ cr = Created
  OBVIOUS
<1>6. Sets(e, "waiting_trigger") /\ e.fail = "rollback" /\ Still(cr)
  <2>1. PICK m : m = ""
    BY Zenon
  <2>2. Created = Emit("created", 0, m)
    BY <2>1, Zenon DEF Created
  <2> QED BY <1>5, <2>2, MoveSteps, SetBits, StillSteps
<1>7. loop.trigger => Tends(<<a, b, d>> \o <<e, cr>>, c)
  BY <1>2, <1>6, CreationTends
<1>8. Tends(<<a, b, d>> \o <<g, po>>, c)
  BY <1>2, <1>4, CreationTends
<1>9. CreateHandler = <<a, b, d>> \o IF loop.trigger THEN <<e, cr>> ELSE <<g, po>>
  BY <1>1, <1>3, <1>5, Zenon DEF CreateHandler, Call, Created
<1>10. \/ loop.trigger /\ CreateHandler = <<a, b, d>> \o <<e, cr>>
       \/ CreateHandler = <<a, b, d>> \o <<g, po>>
  BY <1>9, Zenon
<1> QED BY <1>7, <1>8, <1>10, Zenon

-----------------------------------------------------------------------------
(* The loop as it is.                                                      *)

\* The parts of Here.
LEMMA HereIs ==
    /\ Here.loop = loop /\ Here.state = meta.state /\ Here.formula = meta.formula
    /\ Here.active = meta.active /\ Here.pending = meta.pending
    /\ Here.open = {i \in DOMAIN wisp : Open(i)} /\ Here.shut = {i \in DOMAIN wisp : Closed(i)}
    /\ Here.iter = [i \in DOMAIN wisp |-> wisp[i].iter] /\ Here.count = ClosedCount
BY DEF Here

\* The wisps of Here.
LEMMA HereWisps ==
    ASSUME TypeInv
    PROVE  /\ \A i : i \in Here.open <=> i \in 1..Len(wisp) /\ Open(i)
           /\ \A i : i \in Here.shut <=> i \in 1..Len(wisp) /\ Closed(i)
           /\ \A i \in 1..Len(wisp) : Here.iter[i] = wisp[i].iter /\ wisp[i].iter \in Nat
           /\ \A i \in 0..Len(wisp) : /\ Exists(i) <=> i \in There(Here)
                                      /\ Open(i) <=> i \in Here.open
                                      /\ Closed(i) <=> i \in Here.shut
           /\ \A i \in There(Here) : IterOf(i) = Here.iter[i] /\ i \in 1..Len(wisp)
           /\ Len(wisp) \in Nat
<1>1. DOMAIN wisp = 1..Len(wisp) /\ Len(wisp) \in Nat /\ \A i \in 1..Len(wisp) : wisp[i] \in Wisps
  BY DEF TypeInv
<1>2. \A i : i \in Here.open <=> i \in 1..Len(wisp) /\ Open(i)
  BY <1>1, HereIs
<1>3. \A i : i \in Here.shut <=> i \in 1..Len(wisp) /\ Closed(i)
  BY <1>1, HereIs
<1>4. \A i \in 1..Len(wisp) : Here.iter[i] = wisp[i].iter /\ wisp[i].iter \in Nat
  BY <1>1, HereIs DEF Wisps
<1>5. ASSUME NEW i \in 0..Len(wisp)
      PROVE  /\ Exists(i) <=> i \in There(Here)
             /\ Open(i) <=> i \in Here.open
             /\ Closed(i) <=> i \in Here.shut
  <2>1. i \in 1..Len(wisp) \/ i = None
    BY <1>1 DEF None
  <2>2. Exists(i) => i # None
    BY DEF Exists
  <2>3. Exists(i) <=> Open(i) \/ Closed(i)
    BY DEF Open, Closed
  <2> QED BY <1>2, <1>3, <2>1, <2>2, <2>3 DEF There, Open, Closed
<1>6. ASSUME NEW i \in There(Here) PROVE IterOf(i) = Here.iter[i] /\ i \in 1..Len(wisp)
  <2>1. i \in 1..Len(wisp) /\ Exists(i)
    BY <1>2, <1>3 DEF There, Open, Closed
  <2> QED BY <1>4, <2>1 DEF IterOf
<1> QED BY <1>1, <1>2, <1>3, <1>4, <1>5, <1>6

\* How many are counted.
LEMMA HereCount ==
    ASSUME TypeInv
    PROVE  /\ IsFiniteSet(Here.shut)
           /\ Here.count = IF loop.listsClosed THEN Cardinality(Here.shut) ELSE 0
<1>1. DOMAIN wisp = 1..Len(wisp) /\ Len(wisp) \in Nat
  BY DEF TypeInv
<1>2. \A i : ~(Open(i) /\ Closed(i))
  BY DEF Open, Closed
<1>3. Here.shut \subseteq 1..Len(wisp)
  BY HereWisps
<1>4. IsFiniteSet(Here.shut)
  <2>1. IsFiniteSet(1..Len(wisp))
    BY <1>1, FS_Interval
  <2> QED BY <1>3, <2>1, FS_Subset
<1>5. CASE loop.listsClosed
  <2>1. ClosedChildren = Here.shut
    BY <1>5, HereIs DEF ClosedChildren, Children
  <2> QED BY <1>4, <1>5, <2>1, HereIs DEF ClosedCount
<1>6. CASE ~loop.listsClosed
  <2>1. ClosedChildren = {}
    BY <1>2, <1>6 DEF ClosedChildren, Children
  <2> QED BY <1>4, <1>6, <2>1, HereIs, FS_EmptySet DEF ClosedCount
<1> QED BY <1>4, <1>5, <1>6

\* Here has the size it should.
LEMMA HereSized ==
    ASSUME TypeInv
    PROVE  Sized(Here)
<1>1. Here.open \cap Here.shut = {}
  BY HereIs DEF Open, Closed
<1>2. None \notin Here.open /\ None \notin Here.shut
  BY HereWisps DEF None
<1>3. \A i \in There(Here) : Here.iter[i] \in Nat
  BY HereWisps
<1>4. Here.count \in Nat
  BY HereIs, ViewsAreTyped
<1>5. ~Here.loop.listsClosed => Here.count = 0
  BY HereCount, HereIs
<1> QED BY <1>1, <1>2, <1>3, <1>4, <1>5 DEF Sized

\* The key lookup.
LEMMA HereFinds ==
    ASSUME TypeInv, NEW n
    PROVE  /\ FindByIdempotencyKey(n) = None => Misses(Here, n)
           /\ FindByIdempotencyKey(n) # None => Finds(Here, FindByIdempotencyKey(n), n)
<1>1. \A i : i \in Children <=> \/ i \in Here.open
                                \/ loop.listsClosed /\ i \in Here.shut
  BY HereIs DEF Children
<1>2. \A i \in Here.open \cup Here.shut : Here.iter[i] = wisp[i].iter
  BY HereWisps
<1>3. FindByIdempotencyKey(n) = None => Misses(Here, n)
  BY <1>1, <1>2, FindIs, HereIs DEF Misses
<1>4. FindByIdempotencyKey(n) # None => Finds(Here, FindByIdempotencyKey(n), n)
  BY <1>1, <1>2, FindIs, HereIs DEF Finds
<1> QED BY <1>3, <1>4

\* The pending wisp.
LEMMA HerePending ==
    ASSUME TypeInv, NEW n
    PROVE  validPendingNextWisp(n) # None =>
              /\ validPendingNextWisp(n) = meta.pending /\ meta.pending # None
              /\ meta.pending \in Here.open /\ Here.iter[meta.pending] = n
<1>1. meta.pending \in 0..Len(wisp)
  BY ViewsAreTyped
<1>2. ASSUME validPendingNextWisp(n) # None
      PROVE  validPendingNextWisp(n) = meta.pending /\ Open(meta.pending) /\ wisp[meta.pending].iter = n
  BY <1>2 DEF validPendingNextWisp
<1>3. Open(meta.pending) => meta.pending \in Here.open /\ meta.pending # None
  BY <1>1, HereWisps DEF Open, Exists
<1>4. meta.pending \in Here.open => Here.iter[meta.pending] = wisp[meta.pending].iter
  BY HereWisps
<1> QED BY <1>2, <1>3, <1>4

\* Nothing is open but the next wisp, unless one was poured ahead.
LEMMA NothingAhead ==
    ASSUME NEW c, NEW w, Sized(c), Kept(c), Judging(c, w), ~Speculates(c, w)
    PROVE  AllOpen(c, c.count + 1)
<1>1. CASE c.state = "active"
  BY <1>1 DEF Kept, Placed, Judging, AllOpen
<1>2. CASE c.state = "waiting_trigger"
  BY <1>2 DEF Kept, Placed, Waiting
<1> QED BY <1>1, <1>2 DEF Judging

\* A pending wisp was poured ahead.
LEMMA PendingAhead ==
    ASSUME TypeInv, Kept(Here), NEW n, NEW w, Judging(Here, w), validPendingNextWisp(n) # None,
           NEW v, v # "pour_failed"
    PROVE  Ahead(Here, validPendingNextWisp(n), v)
<1> DEFINE x == validPendingNextWisp(n)
           c == Here
<1>1. x = c.pending /\ x # None /\ x \in c.open
  BY HerePending, HereIs
<1>2. Sized(c)
  BY HereSized
<1> HIDE DEF x, c
<1>3. x \notin c.shut /\ x # c.active
  BY <1>1, <1>2 DEF Sized, Judging, c
<1>4. Spare(c, x)
  BY <1>1, <1>3 DEF Spare, There
<1>5. OnlyOpen(c, x)
  BY <1>1 DEF Kept, OneOpen, OnlyOpen, c
<1>6. ~c.loop.trigger
  BY <1>1 DEF Kept, Placed, c
<1> QED BY <1>1, <1>4, <1>5, <1>6 DEF Ahead, x, c

\* The wisp after the one that closed is poured ahead.
LEMMA SpeculativeTends ==
    ASSUME NEW c, NEW w, NEW s, Sized(c), Kept(c), Judging(c, w), Speculates(c, w),
           s.op = "pour", s.fail = "abort", s.key = "speculative", s.x = w, s.w = c.iter[w] + 1
    PROVE  Tends(<<s>>, c)
<1>1. c.state = "active"
  BY DEF Judging, Speculates, Kept, Placed
<1>2. w \in c.shut /\ w = c.active /\ c.iter[w] \in Nat /\ c.count \in Nat
  BY DEF Judging, Sized, There
<1>3. UpTo(c, c.iter[w] + 1) /\ AllOpen(c, c.iter[w] + 1)
  BY <1>1, <1>2 DEF Kept, Placed, AllOpen
<1>4. c.loop.listsClosed => s.w <= c.count + 1
  <2>1. c.loop.listsClosed => c.iter[w] \in 1..c.count
    BY <1>2 DEF Kept, Counted
  <2> QED BY <1>2, <2>1
<1>5. s.w >= 1
  BY <1>2
<1> DEFINE q == <<s>>
<1>6. q[1] = s
  BY PlacesUpToThree
<1> HIDE DEF q
<1>7. PourSuits(q, c, 1)
  BY <1>1, <1>2, <1>3, <1>4, <1>5, <1>6, FirstStep DEF PourSuits
<1> QED BY <1>7, PourTends DEF q

\* A still step that may come first.
LEMMA StaleTends ==
    ASSUME NEW n \in Nat, NEW t, NEW r \in Seq(Steps(n)), NEW c, Tends(r, c)
    PROVE  Tends(When(t, <<ClearPending>>) \o r, c)
<1>1. PICK a \in Steps(n) : a = ClearPending /\ Still(a)
  BY Stock, StillSteps
<1>2. /\ When(t, <<a>>) \in Seq(Steps(n))
      /\ \A k \in 1..Len(When(t, <<a>>)) : t /\ When(t, <<a>>)[k] = a
  BY WhenIs
<1>3. AllStill(When(t, <<a>>))
  BY <1>1, <1>2 DEF AllStill
<1> QED BY <1>1, <1>2, <1>3, StillBefore

\* A closed wisp is handled.
LEMMA HandleTends ==
    ASSUME TypeInv, Kept(Here), NEW w, Judging(Here, w)
    PROVE  Tends(HandleWispClosed(w), Here)
<1> DEFINE c == Here
           n == Len(wisp)
           m == IterOf(w)
           spec == validPendingNextWisp(m + 1)
           stale == When(meta.pending # None /\ spec = None, <<ClearPending>>)
<1>1. n \in Nat /\ w \in 1..n /\ m = c.iter[w] /\ m \in Nat /\ spec \in 0..n /\ w \in 0..n
      /\ Exists(w) /\ w \in c.shut
  <2>1. w \in There(c) /\ w \in c.shut
    BY DEF Judging, There
  <2>2. n \in Nat /\ w \in 1..n /\ m = c.iter[w]
    BY <2>1, HereWisps
  <2>3. w \in 0..n
    BY <2>2
  <2>4. Exists(w)
    BY <2>1, <2>3, HereWisps
  <2>5. m \in Nat /\ spec \in 0..n
    BY <2>3, ViewsAreTyped
  <2> QED BY <2>1, <2>2, <2>3, <2>4, <2>5
<1>2. Sized(c) /\ c.loop = loop /\ Kept(c)
  BY HereSized, HereIs
<1>3. meta.state # "terminated"
  BY HereIs DEF Judging
<1>4. spec # None => \A v : v # "pour_failed" => Ahead(c, spec, v)
  BY PendingAhead
<1>5. Speculates(c, w) <=> loop.gate = "condition" /\ ~loop.trigger /\ m < loop.max
  BY <1>1, <1>2 DEF Speculates
<1>6. spec = None /\ ~Speculates(c, w) => \A v : Ahead(c, spec, v)
  BY <1>2, NothingAhead DEF Ahead
<1>7. PICK er \in Steps(n) : er = Call("error", None) /\ Still(er)
  <2>1. None \in 0..n
    BY <1>1 DEF None
  <2>2. Call("error", None) \in Steps(n)
    BY <1>1, <2>1, CallIs, CallNames
  <2> QED BY <2>2, StillCalls
<1>8. PICK ga \in Steps(n) : ga = Gate(w, spec) /\ ga.op = "gate" /\ ga.w = w /\ ga.x = spec
                             /\ ga.fail = "abort" /\ ga.v # "pour_failed"
  BY <1>1, GateIs, CallBits
<1>9. PICK po \in Steps(n) : po = Pour(m + 1, "speculative", w) /\ po.op = "pour" /\ po.fail = "abort"
                             /\ po.key = "speculative" /\ po.x = w /\ po.w = m + 1
  <2>1. "speculative" \in PourKeys \ {"create"} /\ m + 1 \in Nat
    BY <1>1 DEF PourKeys
  <2>2. Pour(m + 1, "speculative", w) \in Steps(n)
    BY <1>1, <2>1, LeafSteps
  <2> HIDE DEF m, n
  <2> QED BY <2>2, DoBits
<1> HIDE DEF c, n, m, spec
<1>10. Speculates(c, w) => Tends(stale \o <<po>>, c)
  <2>1. ASSUME Speculates(c, w) PROVE Tends(<<po>>, c)
    BY <1>1, <1>2, <1>9, <2>1, SpeculativeTends DEF c
  <2>2. <<po>> \in Seq(Steps(n))
    OBVIOUS
  <2> QED BY <1>1, <2>1, <2>2, StaleTends
<1>11. spec # None \/ ~Speculates(c, w) => Tends(stale \o <<ga>>, c)
  <2>1. ASSUME spec # None \/ ~Speculates(c, w) PROVE Tends(<<ga>>, c)
    <3>1. Ahead(c, spec, ga.v)
      BY <1>4, <1>6, <1>8, <2>1
    <3>2. Judges(ga)
      BY <1>8 DEF Judges
    <3> QED BY <1>8, <3>1, <3>2, JudgeTends DEF c
  <2>2. <<ga>> \in Seq(Steps(n))
    OBVIOUS
  <2> QED BY <1>1, <2>1, <2>2, StaleTends
<1>12. loop.gate = "unset" => Tends(stale \o burnSpeculativeWisp(spec) \o <<er>>, c)
  <2>1. ASSUME loop.gate = "unset" PROVE Tends(burnSpeculativeWisp(spec) \o <<er>>, c)
    <3>1. Retreats(<<er>>, c)
      BY <1>7, PlacesUpToThree DEF Retreats
    <3>2. PICK v : v # "pour_failed"
      <4>1. "pass" # "pour_failed"
        OBVIOUS
      <4> QED BY <4>1
    <3>3. Ahead(c, spec, v)
      BY <1>4, <1>5, <1>6, <2>1, <3>2
    <3>4. <<er>> \in Seq(Steps(n))
      OBVIOUS
    <3> QED BY <1>1, <3>1, <3>3, <3>4, BurnRetreats DEF Ahead
  <2>2. burnSpeculativeWisp(spec) \in Seq(Steps(n))
    BY <1>1, BurnIs
  <2>3. burnSpeculativeWisp(spec) \o <<er>> \in Seq(Steps(n))
    BY <2>2
  <2>4. loop.gate = "unset" => Tends(stale \o (burnSpeculativeWisp(spec) \o <<er>>), c)
    BY <1>1, <2>1, <2>3, StaleTends
  <2>5. stale \in Seq(Steps(n))
    <3>1. ClearPending \in Steps(n)
      BY <1>1, Stock
    <3> QED BY <3>1, WhenIs
  <2> HIDE DEF stale
  <2>6. stale \o (burnSpeculativeWisp(spec) \o <<er>>) = stale \o burnSpeculativeWisp(spec) \o <<er>>
    BY <2>2, <2>5
  <2> QED BY <2>4, <2>6
<1>13. Tends(<< >>, c)
  BY DEF Tends
<1> HIDE DEF stale
<1>14. \/ HandleWispClosed(w) = << >>
       \/ loop.gate = "unset" /\ HandleWispClosed(w) = stale \o burnSpeculativeWisp(spec) \o <<er>>
       \/ Speculates(c, w) /\ HandleWispClosed(w) = stale \o <<po>>
       \/ (spec # None \/ ~Speculates(c, w)) /\ HandleWispClosed(w) = stale \o <<ga>>
  <2>1. \/ HandleWispClosed(w) = << >>
        \/ loop.gate = "unset" /\ HandleWispClosed(w) = stale \o burnSpeculativeWisp(spec) \o <<er>>
        \/ /\ m < loop.max /\ loop.gate = "condition" /\ ~loop.trigger /\ spec = None
           /\ HandleWispClosed(w) = stale \o <<po>>
        \/ /\ ~(m < loop.max /\ loop.gate = "condition" /\ ~loop.trigger /\ spec = None)
           /\ HandleWispClosed(w) = stale \o <<ga>>
    BY <1>1, <1>3, <1>7, <1>8, <1>9, Zenon DEF HandleWispClosed, m, spec, stale, Gate, Call
  <2> QED BY <1>5, <2>1, Zenon
<1>15. Tends(HandleWispClosed(w), c)
  BY <1>10, <1>11, <1>12, <1>13, <1>14, Zenon
<1> QED BY <1>15 DEF c

\* A root without a state has no wisp.
LEMMA MissingTends ==
    ASSUME TypeInv, Kept(Here), ~Given(meta.state)
    PROVE  Tends(reconcileMissingState, Here)
<1> DEFINE c == Here
<1>1. Sized(c) /\ c.state = meta.state /\ Kept(c)
  BY HereSized, HereIs
<1>2. Empty(c)
  BY <1>1 DEF Kept, Placed
<1>3. FindByIdempotencyKey(1) = None
  BY <1>2, HereFinds DEF Finds, Empty
<1>4. PICK po : po = Pour(1, "first", None) /\ po.op = "pour" /\ po.fail = "abort"
                /\ po.key = "first" /\ po.w = 1
  BY DoBits
<1>5. reconcileMissingState = <<po>>
  BY <1>3, <1>4, Zenon DEF reconcileMissingState
<1> HIDE DEF c
<1>6. c.count = 0 /\ AllOpen(c, 1) /\ UpTo(c, 1)
  BY <1>1, <1>2, EmptyCounts DEF UpTo, Kept
<1> DEFINE q == <<po>>
<1>7. q[1] = po
  BY PlacesUpToThree
<1> HIDE DEF q
<1>8. PourSuits(q, c, 1)
  BY <1>1, <1>4, <1>6, <1>7, FirstStep DEF PourSuits
<1> QED BY <1>4, <1>5, <1>8, PourTends DEF q, c

\* The chain is rebuilt.
LEMMA RebuildTends ==
    ASSUME TypeInv, Kept(Here), meta.state = "active", meta.active = None
    PROVE  Tends(rebuildChain, Here)
<1> DEFINE c == Here
           n == Len(wisp)
           m == ClosedCount + 1
           next == IF validPendingNextWisp(m) # None THEN meta.pending ELSE FindByIdempotencyKey(m)
           t == meta.pending # None /\ validPendingNextWisp(m) = None
           p == When(t, <<ClearPending>>)
<1>1. Sized(c) /\ c.state = "active" /\ c.active = None /\ Kept(c) /\ c.count \in Nat /\ m = c.count + 1
  BY HereSized, HereIs DEF Sized
<1>2. AllOpen(c, m) /\ UpTo(c, m)
  BY <1>1 DEF Kept, Placed, UpTo
<1>3. n \in Nat /\ m \in Nat /\ next \in 0..n
  <2>1. n \in Nat /\ ClosedCount \in Nat /\ meta.pending \in 0..n
    BY ViewsAreTyped
  <2>2. FindByIdempotencyKey(m) \in 0..n
    BY FindIs
  <2> QED BY <2>1, <2>2
<1>4. next # None => next \in c.open /\ c.iter[next] = m
  <2>1. validPendingNextWisp(m) # None => next \in c.open /\ c.iter[next] = m
    BY HerePending
  <2>2. validPendingNextWisp(m) = None /\ next # None => Finds(c, next, m)
    BY HereFinds
  <2>3. Finds(c, next, m) => next \in c.open /\ c.iter[next] = m
    <3> HIDE DEF c, m, next
    <3>1. c.loop.listsClosed /\ next \in c.shut => c.iter[next] \in 1..c.count
      BY <1>1 DEF Kept, Counted
    <3> QED BY <1>1, <3>1 DEF Finds
  <2> QED BY <2>1, <2>2, <2>3
<1>5. PICK po \in Steps(n) : po = Pour(m, "recover", None) /\ po.op = "pour" /\ po.key = "recover"
                             /\ po.w = m /\ po.fail = "abort"
  <2>1. "recover" \in PourKeys \ {"create"} /\ None \in 0..n
    BY <1>3 DEF PourKeys, None
  <2>2. Pour(m, "recover", None) \in Steps(n)
    BY <1>3, <2>1, LeafSteps
  <2> HIDE DEF m, n
  <2> QED BY <2>2, DoBits
<1> HIDE DEF c, n, m, next
<1>6. PICK av, ac, cp \in Steps(n) :
         /\ av = Call("activate", next) /\ ac = Ref("active", next) /\ cp = ClearPending
  <2>1. Do("activate", next, None, "") \in Steps(n)
    BY <1>3, Stock, Zenon
  <2>2. Call("activate", next) \in Steps(n)
    BY <2>1, Zenon DEF Call
  <2>3. Ref("active", next) \in Steps(n) /\ ClearPending \in Steps(n)
    BY <1>3, Stock
  <2> QED BY <2>2, <2>3
<1>7. Still(av) /\ Still(cp) /\ SetsActive(ac) /\ ac.w = next /\ ac.fail = "abort"
  BY <1>6, StillCalls, StillSteps, MoveSteps, RefBits
<1>8. Tends(p \o <<po>>, c)
  <2> DEFINE q == <<po>>
  <2>1. q[1] = po /\ q \in Seq(Steps(n))
    BY PlacesUpToThree
  <2> HIDE DEF q
  <2>2. PourSuits(q, c, 1)
    BY <1>1, <1>2, <1>5, <2>1, FirstStep DEF PourSuits
  <2>3. Tends(q, c)
    BY <1>5, <2>2, PourTends DEF q
  <2> QED BY <1>3, <2>1, <2>3, StaleTends DEF q
<1>9. next # None => Tends(p \o <<av, ac, cp>>, c)
  <2> SUFFICES ASSUME next # None PROVE Tends(p \o <<av, ac, cp>>, c)
    OBVIOUS
  <2>1. Works(c, next)
    <3>1. OnlyOpen(c, next)
      BY <1>1, <1>4 DEF Kept, OneOpen, OnlyOpen
    <3> QED BY <1>2, <1>4, <3>1 DEF Works, There
  <2> DEFINE q == <<av, ac, cp>>
  <2>2. q \in Seq(Steps(n))
    OBVIOUS
  <2>3. Adopts(q, next)
    BY <1>7, PlacesUpToThree DEF Adopts
  <2> HIDE DEF q
  <2>4. Tends(q, c)
    BY <1>1, <2>1, <2>3, AdoptTends
  <2> QED BY <1>3, <2>2, <2>4, StaleTends DEF q
<1> HIDE DEF p
<1>10. \/ rebuildChain = p \o <<po>>
       \/ next # None /\ rebuildChain = p \o <<av, ac, cp>>
  <2>1. rebuildChain = p \o IF next = None THEN <<po>> ELSE <<av, ac, cp>>
    BY <1>5, <1>6, Zenon DEF rebuildChain, p, next, m, Call
  <2> QED BY <2>1, Zenon
<1> QED BY <1>8, <1>9, <1>10, Zenon DEF c

\* A call to handle the active wisp, once it is closed.
LEMMA HandleCall ==
    ASSUME NEW c, NEW w, Judging(c, w)
    PROVE  Tends(<<Call("handle", w)>>, c)
<1>1. PICK h : h = Call("handle", w) /\ h.op = "handle" /\ h.w = w /\ h.fail = "abort"
  BY CallBits
<1>2. Judges(h)
  BY <1>1 DEF Judges
<1> QED BY <1>1, <1>2, JudgeTends

\* The active wisp has not been lost.
LEMMA ActiveIsThere ==
    ASSUME TypeInv, Kept(Here)
    PROVE  /\ meta.active = None \/ Exists(meta.active)
           /\ Closed(meta.active) => meta.active \in Here.shut
<1>1. meta.active \in 0..Len(wisp) /\ Here.active = meta.active
  BY ViewsAreTyped, HereIs
<1>2. meta.active # None => meta.active \in There(Here)
  BY <1>1 DEF Kept, Placed
<1> QED BY <1>1, <1>2, HereWisps

\* Reconciling an active loop.
LEMMA ActiveTends ==
    ASSUME TypeInv, Kept(Here), meta.state = "active"
    PROVE  Tends(reconcileActive, Here)
<1> DEFINE w == meta.active
<1>1. w = None \/ Exists(w)
  BY ActiveIsThere
<1>2. Tends(completeTerminalTransition, Here)
  BY CompleteFinal, FinalTends
<1>3. w = None => Tends(rebuildChain, Here)
  BY RebuildTends
<1>4. Closed(w) => Tends(<<Call("handle", w)>>, Here)
  BY ActiveIsThere, HereIs, HandleCall DEF Judging
<1>5. Tends(<< >>, Here)
  BY DEF Tends
<1>6. \/ reconcileActive = completeTerminalTransition
      \/ w = None /\ reconcileActive = rebuildChain
      \/ reconcileActive = << >> \o When(Closed(w) /\ meta.lpw # w, <<Call("handle", w)>>)
  BY <1>1, Zenon DEF reconcileActive, When, Call
<1>7. PICK h : h = Call("handle", w)
  OBVIOUS
<1>8. \/ When(Closed(w) /\ meta.lpw # w, <<h>>) = << >>
      \/ Closed(w) /\ When(Closed(w) /\ meta.lpw # w, <<h>>) = <<h>>
  BY DEF When
<1>9. << >> \o << >> = << >> /\ << >> \o <<h>> = <<h>>
  OBVIOUS
<1> QED BY <1>2, <1>3, <1>4, <1>5, <1>6, <1>7, <1>8, <1>9, Zenon

\* Reconciling the loop as it is.
LEMMA ReconcileTends ==
    ASSUME TypeInv, Kept(Here)
    PROVE  Tends(reconcileState, Here)
<1>1. meta.state \in States
  BY ViewsAreTyped
<1>2. Tends(<< >>, Here)
  BY DEF Tends
<1>3. /\ Tends(reconcileCreating, Here) /\ Tends(reconcileTerminatedNotClosed, Here)
      /\ Tends(reconcileWaitingManual, Here) /\ Tends(reconcileWaitingTrigger, Here)
  BY EndsAreFinal, WaitsAreFinal, FinalTends
<1>4. CASE root # "open"
  BY <1>2, <1>4, Zenon DEF reconcileState
<1>5. CASE root = "open" /\ meta.state = ""
  <2>1. ~Given(meta.state)
    BY <1>5, Zenon DEF Given
  <2>2. reconcileState = reconcileMissingState
    BY <1>5, Zenon DEF reconcileState
  <2> QED BY <2>1, <2>2, MissingTends, Zenon
<1>6. CASE root = "open" /\ meta.state = "creating"
  <2>1. reconcileState = reconcileCreating
    BY <1>6, Zenon DEF reconcileState
  <2> QED BY <1>3, <2>1
<1>7. CASE root = "open" /\ meta.state = "terminated"
  <2>1. reconcileState = reconcileTerminatedNotClosed
    BY <1>7, Zenon DEF reconcileState
  <2> QED BY <1>3, <2>1
<1>8. CASE root = "open" /\ meta.state = "waiting_manual"
  <2>1. reconcileState = reconcileWaitingManual
    BY <1>8, Zenon DEF reconcileState
  <2> QED BY <1>3, <2>1
<1>9. CASE root = "open" /\ meta.state = "waiting_trigger"
  <2>1. reconcileState = reconcileWaitingTrigger
    BY <1>9, Zenon DEF reconcileState
  <2> QED BY <1>3, <2>1
<1>10. CASE root = "open" /\ meta.state = "active"
  <2>1. reconcileState = reconcileActive
    BY <1>10, Zenon DEF reconcileState
  <2> QED BY <1>10, <2>1, ActiveTends
<1> QED BY <1>1, <1>4, <1>5, <1>6, <1>7, <1>8, <1>9, <1>10, Zenon DEF States, Running

\* The first half of a stop.
LEMMA StopDrainTends ==
    ASSUME TypeInv, Kept(Here), meta.state # "terminated"
    PROVE  Tends(stopDrain, Here)
<1> DEFINE w == meta.active
           n == Len(wisp)
           c == Here
<1>1. (w = None \/ Exists(w)) /\ (Closed(w) => w \in c.shut) /\ w \in 0..n /\ n \in Nat
  BY ActiveIsThere, ViewsAreTyped
<1>2. Closed(w) => Judging(c, w)
  <2> SUFFICES ASSUME Closed(w) PROVE Judging(c, w)
    OBVIOUS
  <2>1. c.state = meta.state /\ c.active = w /\ w \in c.shut /\ Sized(c)
    BY <1>1, HereIs, HereSized
  <2>2. ~Empty(c) /\ w # None
    BY <2>1 DEF Empty, Sized
  <2>3. Given(c.state) /\ c.state # "creating" /\ c.state # "waiting_manual"
    BY <2>1, <2>2 DEF Kept, Placed
  <2>4. c.state \in States
    BY <2>1, ViewsAreTyped
  <2>5. c.state = "active" \/ c.state = "waiting_trigger"
    BY <2>1, <2>3, <2>4, Zenon DEF States, Running, Given
  <2> QED BY <2>1, <2>5 DEF Judging
<1>3. PICK h, r, f \in Steps(n) :
         h = Call("handle", w) /\ r = Call("stop_reread", None) /\ f = Call("stop_force", w)
  <2>1. None \in 0..n
    BY <1>1 DEF None
  <2> QED BY <1>1, <2>1, CallIs, CallNames
<1>4. Still(r) /\ Still(f)
  BY <1>3, StillCalls
<1>5. stopDrain = IF Closed(w) THEN <<h, r>> ELSE <<f>>
  BY <1>1, <1>3, Zenon DEF stopDrain, Call
<1>6. Tends(<<f>>, c)
  BY <1>4, ClosingSteps, ShortFinal, FinalTends
<1>7. Closed(w) => Tends(<<h, r>>, c)
  <2> SUFFICES ASSUME Closed(w) PROVE Tends(<<h, r>>, c)
    OBVIOUS
  <2>1. Tends(<<h>>, c)
    BY <1>2, <1>3, HandleCall
  <2>2. AllStill(<<r>>)
    BY <1>4, PlacesUpToThree DEF AllStill
  <2>3. <<h>> \in Seq(Steps(n)) /\ <<r>> \in Seq(Steps(n))
    OBVIOUS
  <2>4. Tends(<<h>> \o <<r>>, c)
    BY <2>1, <2>2, <2>3, StillAfter
  <2> QED BY <2>4, PairIs
<1> QED BY <1>5, <1>6, <1>7

\* Every branch.
LEMMA BranchTends ==
    ASSUME TypeInv, Kept(Here), NEW s \in Steps(Len(wisp)), s.op \in Branches,
           s.op \in {"handle", "settle"} => Judging(Here, s.w),
           s.op = "settle" => Ahead(Here, s.x, s.v),
           s.op = "stop" => meta.state # "terminated"
    PROVE  Tends(Branch(s), Here)
<1> DEFINE n == Len(wisp)
<1>1. n \in Nat /\ s.x \in 0..n
  BY ViewsAreTyped DEF Steps
<1>2. CASE s.op = "handle"
  <2>1. Branch(s) = HandleWispClosed(s.w)
    BY <1>2, Zenon DEF Branch
  <2> QED BY <1>2, <2>1, HandleTends
<1>3. CASE s.op = "settle"
  <2>1. Branch(s) = prepareOutcome(s.w, s.x, s.v = "pour_failed")
    BY <1>3, Zenon DEF Branch
  <2>2. s.w \in 0..n /\ IterOf(s.w) \in Nat
    <3>1. s.w \in 0..n
      BY <1>3 DEF Steps
    <3> QED BY <3>1, ViewsAreTyped
  <2>3. Here.loop = loop /\ Sized(Here) /\ Counted(Here)
    BY HereIs, HereSized DEF Kept
  <2>4. Judging(Here, s.w) /\ Ahead(Here, s.x, s.v)
    BY <1>3
  <2> HIDE DEF n
  <2> QED BY <1>1, <2>1, <2>2, <2>3, <2>4, PrepareTends
<1>4. CASE s.op = "reconcile"
  <2>1. Branch(s) = reconcileState
    BY <1>4, Zenon DEF Branch
  <2> QED BY <2>1, ReconcileTends
<1>5. CASE s.op = "stop"
  <2>1. Branch(s) = stopDrain
    BY <1>5, Zenon DEF Branch
  <2> QED BY <1>5, <2>1, StopDrainTends
<1>6. CASE s.op = "stop_reread"
  <2>1. Branch(s) = IF meta.state = "terminated" THEN << >>
                    ELSE <<Do("stop_force", meta.active, None, "")>>
    BY <1>6, Zenon DEF Branch
  <2>2. Final(Branch(s))
    BY <2>1, WaitsAreFinal, Zenon
  <2> QED BY <2>2, FinalTends
<1>7. CASE s.op = "stop_force"
  <2>1. Branch(s) = stopForce(s.w)
    BY <1>7, Zenon DEF Branch
  <2> QED BY <2>1, WaitsAreFinal, FinalTends
<1>8. CASE s.op = "stop_commit"
  <2>1. Branch(s) = stopCommit(s.w, s.v = "forced")
    BY <1>8, Zenon DEF Branch
  <2>2. (s.v = "forced") \in BOOLEAN
    OBVIOUS
  <2> QED BY <2>1, <2>2, StopCommitFinal, FinalTends
<1> QED BY <1>2, <1>3, <1>4, <1>5, <1>6, <1>7, <1>8 DEF Branches

-----------------------------------------------------------------------------
(* How a step changes the loop.                                            *)

\* Here, said of the wisps' status.
HereShape ==
    /\ Here.loop = loop /\ Here.state = meta.state /\ Here.formula = meta.formula
    /\ Here.active = meta.active /\ Here.pending = meta.pending
    /\ \A i : i \in Here.open <=> i \in 1..Len(wisp) /\ wisp[i].st \notin {"gone", "closed"}
    /\ \A i : i \in Here.shut <=> i \in 1..Len(wisp) /\ wisp[i].st = "closed"
    /\ Here.iter = [i \in 1..Len(wisp) |-> wisp[i].iter]
    /\ Here.count = (IF loop.listsClosed THEN Cardinality(Here.shut) ELSE 0)
    /\ IsFiniteSet(Here.shut) /\ Len(wisp) \in Nat

LEMMA HereShaped == TypeInv => HereShape
<1> SUFFICES ASSUME TypeInv PROVE HereShape
  OBVIOUS
<1>1. DOMAIN wisp = 1..Len(wisp) /\ Len(wisp) \in Nat
  BY DEF TypeInv
<1>2. \A i : i \in Here.open <=> i \in 1..Len(wisp) /\ wisp[i].st \notin {"gone", "closed"}
  BY <1>1, HereWisps DEF Open, Exists, None
<1>3. \A i : i \in Here.shut <=> i \in 1..Len(wisp) /\ wisp[i].st = "closed"
  BY <1>1, HereWisps DEF Closed, Exists, None
<1>4. Here.iter = [i \in 1..Len(wisp) |-> wisp[i].iter]
  BY <1>1, HereIs
<1> QED BY <1>1, <1>2, <1>3, <1>4, HereIs, HereCount DEF HereShape

\* The same of the next state.
LEMMA HereShapedNext == TypeInv' => HereShape'
BY HereShaped, PTL

\* Nothing that Here tells changes.
LEMMA SameHere ==
    ASSUME UNCHANGED <<loop, meta, wisp>>
    PROVE  Here' = Here
BY DEF Here, Open, Closed, Exists, ClosedCount, ClosedChildren, Children

\* The wisps do not change.
LEMMA AlikeHere ==
    ASSUME UNCHANGED <<loop, wisp>>
    PROVE  /\ Alike(Here, Here') /\ Here'.state = meta'.state /\ Here'.formula = meta'.formula
           /\ Here'.active = meta'.active /\ Here'.pending = meta'.pending
BY DEF Alike, Here, Open, Closed, Exists, ClosedCount, ClosedChildren, Children

\* Steps that suit a loop suit one that differs in what they do not look at.
LEMMA TendsSame ==
    ASSUME NEW q, NEW c, NEW d, Alike(c, d), d.state = c.state, d.active = c.active, Tends(q, c)
    PROVE  Tends(q, d)
<1> SUFFICES ASSUME NEW k \in 1..Len(q) PROVE Suits(q, d, k)
  BY DEF Tends
<1>1. Suits(q, c, k)
  BY DEF Tends
<1>2. d.loop = c.loop /\ d.open = c.open /\ d.shut = c.shut /\ d.iter = c.iter /\ d.count = c.count
  BY DEF Alike
<1>3. q[k].op = "pour" => PourSuits(q, d, k)
  BY <1>1, <1>2, AlikeIs DEF Suits, PourSuits
<1>4. Judges(q[k]) => JudgeSuits(q, d, k)
  BY <1>1, <1>2, AlikeIs DEF Suits, JudgeSuits
<1>5. q[k].op = "delete" => DeleteSuits(q, d, k)
  BY <1>1, <1>2, AlikeIs DEF Suits, DeleteSuits
<1>6. SetsActive(q[k]) => ActiveSuits(q, d, k)
  BY <1>1, <1>2, AlikeIs DEF Suits, ActiveSuits
<1>7. SetsState(q[k]) => StateSuits(q, d, k)
  BY <1>1, <1>2, AlikeIs DEF Suits, StateSuits
<1>8. q[k].op = "set" /\ q[k].key = "formula" => FormulaSuits(q, d, k)
  BY <1>1, <1>2, AlikeIs DEF Suits, FormulaSuits
<1>9. FailSuits(q, d, k)
  BY <1>1, <1>2, AlikeIs DEF Suits, FailSuits
<1> QED BY <1>1, <1>2, <1>3, <1>4, <1>5, <1>6, <1>7, <1>8, <1>9 DEF Suits

\* A wisp's status changes.
Restated(i, st) ==
    /\ UNCHANGED <<loop, meta>>
    /\ Len(wisp') = Len(wisp)
    /\ \A j \in 1..Len(wisp) : wisp'[j].iter = wisp[j].iter /\ wisp'[j].st = IF j = i THEN st ELSE wisp[j].st

\* The loop keeps its wisps' iterations.
LEMMA RestatedIs ==
    ASSUME TypeInv, TypeInv', NEW i \in 1..Len(wisp), NEW st, Restated(i, st)
    PROVE  /\ SameRoot(Here, Here') /\ Here'.iter = Here.iter
           /\ \A j : j \in Here'.open <=> IF j = i THEN st \notin {"gone", "closed"} ELSE j \in Here.open
           /\ \A j : j \in Here'.shut <=> IF j = i THEN st = "closed" ELSE j \in Here.shut
           /\ IsFiniteSet(Here.shut)
           /\ Here.count = (IF loop.listsClosed THEN Cardinality(Here.shut) ELSE 0)
           /\ Here'.count = (IF loop.listsClosed THEN Cardinality(Here'.shut) ELSE 0)
<1>1. HereShape /\ HereShape'
  BY HereShaped, HereShapedNext
<1>2. SameRoot(Here, Here')
  BY <1>1 DEF HereShape, SameRoot, Restated
<1>3. Here'.iter = Here.iter
  <2>1. Len(wisp') = Len(wisp) /\ \A j \in 1..Len(wisp) : wisp'[j].iter = wisp[j].iter
    BY DEF Restated
  <2>2. /\ Here.iter = [j \in 1..Len(wisp) |-> wisp[j].iter]
        /\ Here'.iter = [j \in 1..Len(wisp') |-> wisp'[j].iter]
    BY <1>1, Zenon DEF HereShape
  <2>3. [j \in 1..Len(wisp) |-> wisp'[j].iter] = [j \in 1..Len(wisp) |-> wisp[j].iter]
    BY <2>1
  <2> QED BY <2>1, <2>2, <2>3
<1>4. ASSUME NEW j PROVE j \in Here'.open <=> IF j = i THEN st \notin {"gone", "closed"} ELSE j \in Here.open
  <2>1. j \in Here'.open <=> j \in 1..Len(wisp) /\ wisp'[j].st \notin {"gone", "closed"}
    BY <1>1 DEF HereShape, Restated
  <2>2. j \in Here.open <=> j \in 1..Len(wisp) /\ wisp[j].st \notin {"gone", "closed"}
    BY <1>1 DEF HereShape
  <2>3. j \in 1..Len(wisp) => wisp'[j].st = IF j = i THEN st ELSE wisp[j].st
    BY DEF Restated
  <2> QED BY <2>1, <2>2, <2>3
<1>5. ASSUME NEW j PROVE j \in Here'.shut <=> IF j = i THEN st = "closed" ELSE j \in Here.shut
  <2>1. j \in Here'.shut <=> j \in 1..Len(wisp) /\ wisp'[j].st = "closed"
    BY <1>1 DEF HereShape, Restated
  <2>2. j \in Here.shut <=> j \in 1..Len(wisp) /\ wisp[j].st = "closed"
    BY <1>1 DEF HereShape
  <2>3. j \in 1..Len(wisp) => wisp'[j].st = IF j = i THEN st ELSE wisp[j].st
    BY DEF Restated
  <2> QED BY <2>1, <2>2, <2>3
<1>6. loop' = loop
  BY DEF Restated
<1> QED BY <1>1, <1>2, <1>3, <1>4, <1>5, <1>6 DEF HereShape

\* An open wisp is closed.
LEMMA ClosesHere ==
    ASSUME TypeInv, TypeInv', NEW i \in Here.open, i \in 1..Len(wisp), Restated(i, "closed")
    PROVE  Shuts(Here, Here', i)
<1>1. Here'.open = Here.open \ {i} /\ Here'.shut = Here.shut \cup {i}
  BY RestatedIs
<1>2. i \notin Here.shut
  BY HereSized DEF Sized
<1>3. Cardinality(Here'.shut) = Cardinality(Here.shut) + 1
  BY <1>1, <1>2, RestatedIs, FS_AddElement
<1>4. Here.loop = loop
  BY HereIs
<1>5. Here'.count = IF Here.loop.listsClosed THEN Here.count + 1 ELSE Here.count
  BY <1>3, <1>4, RestatedIs
<1> QED BY <1>1, <1>5, RestatedIs DEF Shuts

\* A wisp is removed.
LEMMA RemovesHere ==
    ASSUME TypeInv, TypeInv', NEW i \in 1..Len(wisp), Restated(i, "gone")
    PROVE  Removes(Here, Here', i)
<1>1. Here'.open = Here.open \ {i} /\ Here'.shut = Here.shut \ {i}
  BY RestatedIs
<1>2. Cardinality(Here'.shut) = IF i \in Here.shut THEN Cardinality(Here.shut) - 1 ELSE Cardinality(Here.shut)
  BY <1>1, RestatedIs, FS_RemoveElement
<1>3. Here.loop = loop
  BY HereIs
<1>4. Here'.count = IF Here.loop.listsClosed /\ i \in Here.shut THEN Here.count - 1 ELSE Here.count
  BY <1>2, <1>3, RestatedIs
<1> QED BY <1>1, <1>4, RestatedIs DEF Removes

\* A wisp that stays open, or as it is, changes nothing.
LEMMA RestatedSame ==
    ASSUME TypeInv, TypeInv', NEW i \in 1..Len(wisp), NEW st, Restated(i, st),
           st = wisp[i].st \/ (st \notin {"gone", "closed"} /\ wisp[i].st \notin {"gone", "closed"})
    PROVE  Here' = Here
<1>1. HereShape
  BY HereShaped
<1>2. Here'.open = Here.open /\ Here'.shut = Here.shut
  <2>1. \A j : j \in Here'.open <=> j \in Here.open
    BY <1>1, RestatedIs DEF HereShape
  <2>2. \A j : j \in Here'.shut <=> j \in Here.shut
    BY <1>1, RestatedIs DEF HereShape
  <2>3. Here.open = {k \in DOMAIN wisp : Open(k)} /\ Here.shut = {k \in DOMAIN wisp : Closed(k)}
    BY HereIs
  <2>4. Here'.open = {k \in DOMAIN wisp : Open(k)}' /\ Here'.shut = {k \in DOMAIN wisp : Closed(k)}'
    BY DEF Here
  <2> QED BY <2>1, <2>2, <2>3, <2>4
<1>3. Here'.iter = Here.iter /\ SameRoot(Here, Here') /\ Here'.count = Here.count
  BY <1>2, RestatedIs
<1>4. Here = [loop |-> Here.loop, state |-> Here.state, formula |-> Here.formula,
              active |-> Here.active, pending |-> Here.pending, open |-> Here.open,
              shut |-> Here.shut, iter |-> Here.iter, count |-> Here.count]
  BY DEF Here
<1>5. Here' = [loop |-> Here'.loop, state |-> Here'.state, formula |-> Here'.formula,
               active |-> Here'.active, pending |-> Here'.pending, open |-> Here'.open,
               shut |-> Here'.shut, iter |-> Here'.iter, count |-> Here'.count]
  BY DEF Here
<1> QED BY <1>2, <1>3, <1>4, <1>5, Zenon DEF SameRoot

\* A wisp is poured.
LEMMA AddsHere ==
    ASSUME LoopInv, TypeInv', NEW n \in Nat, NEW kind, Found(n) = None, wisp' = Poured(n, kind),
           UNCHANGED <<loop, meta>>
    PROVE  Adds(Here, Here', Len(wisp) + 1, n) /\ Len(wisp') = Len(wisp) + 1
<1> DEFINE i == Len(wisp) + 1
           st == IF kind = "speculative" THEN "spec" ELSE "live"
<1>0. TypeInv
  BY DEF LoopInv
<1>1. wisp \in Seq(Wisps) /\ Len(wisp) \in Nat
  BY <1>0 DEF TypeInv
<1>2. HereShape /\ HereShape'
  BY <1>0, HereShaped, HereShapedNext
<1>3. wisp' = Append(wisp, [iter |-> n, st |-> st])
  BY DEF Poured
<1>4. /\ Len(wisp') = i /\ wisp'[i] = [iter |-> n, st |-> st]
      /\ \A j \in 1..Len(wisp) : wisp'[j] = wisp[j]
  BY <1>1, <1>3
<1>5. wisp'[i].iter = n /\ wisp'[i].st \notin {"gone", "closed"}
  BY <1>4
<1>6. \A j : j \in 1..i <=> j \in 1..Len(wisp) \/ j = i
  BY <1>1
<1>7. i \notin 1..Len(wisp) /\ i # None
  BY <1>1 DEF None
<1> HIDE DEF i
<1>8. ASSUME NEW j PROVE j \in Here'.open <=> j \in Here.open \/ j = i
  <2>1. j \in Here'.open <=> j \in 1..i /\ wisp'[j].st \notin {"gone", "closed"}
    BY <1>2, <1>4 DEF HereShape
  <2>2. j \in Here.open <=> j \in 1..Len(wisp) /\ wisp[j].st \notin {"gone", "closed"}
    BY <1>2 DEF HereShape
  <2> QED BY <1>4, <1>5, <1>6, <2>1, <2>2
<1>9. \A j : j \in Here'.shut <=> j \in Here.shut
  BY <1>2, <1>4, <1>5, <1>6, <1>7, SMTT(30) DEF HereShape
<1>10. Here'.open = Here.open \cup {i} /\ Here'.shut = Here.shut
  <2>1. Here.shut = {k \in DOMAIN wisp : Closed(k)} /\ Here'.shut = {k \in DOMAIN wisp : Closed(k)}'
    BY DEF Here
  <2>2. Here'.open = {k \in DOMAIN wisp : Open(k)}'
    BY DEF Here
  <2> QED BY <1>8, <1>9, <2>1, <2>2
<1>11. Here'.iter[i] = n /\ \A j \in There(Here) : Here'.iter[j] = Here.iter[j]
  BY <1>2, <1>4, <1>5, <1>6 DEF HereShape, There
<1>12. i \notin There(Here)
  BY <1>2, <1>7 DEF HereShape, There
<1>13. Here'.count = Here.count /\ SameRoot(Here, Here')
  BY <1>2, <1>10 DEF HereShape, SameRoot
<1> QED BY <1>4, <1>7, <1>10, <1>11, <1>12, <1>13 DEF Adds, i

-----------------------------------------------------------------------------
(* Every action keeps Held while no wisp is reaped: the handlers begin.    *)

\* A loop with a root has been created.
LEMMA Born ==
    /\ root' # "none" => Unborn'
    /\ Unborn /\ Given(meta.state) => root # "none"
BY DEF Unborn, Barren

\* A handler that has work to do has a root to do it on.
LEMMA WorksOnARoot ==
    ASSUME LoopInv, Unborn, todo # << >>, s0.op \notin {"create", "reconcile", "index"}
    PROVE  root # "none"
<1>1. s0 = todo[1] /\ 1 \in 1..Len(todo)
  BY HeadIs
<1> QED BY <1>1 DEF Unborn, Fresh

\* Other steps, the loop as it was.
LEMMA SameLoop ==
    ASSUME Held, UNCHANGED <<loop, meta, wisp>>, Tends(todo', Here),
           root' = root \/ root' # "none", root = "none" => Fresh(todo')
    PROVE  Held'
<1>1. Here' = Here
  BY SameHere
<1>2. Kept(Here') /\ Tends(todo', Here')
  BY <1>1 DEF Held
<1>3. Unborn'
  <2>1. CASE root' # "none"
    BY <2>1, Born
  <2>2. CASE root' = "none"
    <3>1. Barren /\ Fresh(todo')
      BY <2>2 DEF Held, Unborn
    <3>2. Barren'
      BY <1>1, <3>1 DEF Barren
    <3> QED BY <3>1, <3>2 DEF Unborn
  <2> QED BY <2>1, <2>2
<1> QED BY <1>2, <1>3 DEF Held

\* The steps of short handlers.
LEMMA ShortStill ==
    ASSUME NEW a, NEW b, Still(a)
    PROVE  AllStill(<< >>) /\ AllStill(<<a>>) /\ (Still(b) => AllStill(<<a, b>>))
BY PlacesUpToThree DEF AllStill

\* No steps, and the steps of a startup scan.
LEMMA StartupTends ==
    ASSUME NEW c
    PROVE  /\ Tends(StartupReconcile, c) /\ Fresh(StartupReconcile)
           /\ Tends(<< >>, c) /\ Fresh(<< >>)
<1>1. PICK a, b : a = Call("reconcile", None) /\ b = Call("index", None)
  OBVIOUS
<1>2. Still(a) /\ Still(b) /\ a.op = "reconcile" /\ b.op = "index"
  BY <1>1, StillCalls, CallBits
<1>3. StartupReconcile = <<a, b>>
  BY <1>1, Zenon DEF StartupReconcile, Call
<1>4. AllStill(<<a, b>>) /\ AllStill(<< >>)
  BY <1>2, ShortStill
<1>5. Tends(<<a, b>>, c) /\ Tends(<< >>, c)
  BY <1>4, StillTends
<1>6. Fresh(<<a, b>>)
  BY <1>2, PlacesUpToThree DEF Fresh
<1>7. Fresh(<< >>)
  BY DEF Fresh
<1> QED BY <1>3, <1>5, <1>6, <1>7

\* A creation.
LEMMA CreateHolds ==
    ASSUME LoopInv, Held, Create
    PROVE  Held'
<1>1. root = "none" /\ UNCHANGED <<loop, root, meta, wisp>> /\ todo' = CreateHandler
  BY DEF Create, Begin
<1>2. Barren
  BY <1>1 DEF Held, Unborn
<1>3. Sized(Here) /\ Counted(Here) /\ Here.loop = loop /\ Here.active = None /\ Empty(Here)
  BY <1>2, HereSized, HereIs DEF Held, Kept, LoopInv, Barren
<1>4. ~Given(Here.state)
  BY <1>2, HereIs DEF Barren
<1>5. Tends(CreateHandler, Here)
  BY <1>3, <1>4, CreateTends
<1>6. Fresh(CreateHandler)
  <2>1. PICK a, b, d :
           /\ a = Call("create", None) /\ b = OrRollback(Set("state", "creating"))
           /\ d = OrRollback(Set("formula", "set"))
    OBVIOUS
  <2>2. PICK r : r = IF loop.trigger
                     THEN << OrRollback(Set("state", "waiting_trigger")), Created >>
                     ELSE << OrRollback(Set("state", "active")), OrRollback(Pour(1, "create", None)) >>
    OBVIOUS
  <2>3. PICK x, y : r = <<x, y>>
    BY <2>2, Zenon
  <2>4. CreateHandler = <<a, b, d>> \o <<x, y>>
    BY <2>1, <2>2, <2>3, Zenon DEF CreateHandler, Call, Created
  <2> HIDE <2>2
  <2>5. a.op = "create"
    BY <2>1, CallBits
  <2> HIDE <2>1
  <2>6. (<<a, b, d>> \o <<x, y>>)[1] = a /\ <<a, b, d>> \o <<x, y>> # << >>
    OBVIOUS
  <2> QED BY <2>4, <2>5, <2>6 DEF Fresh
<1> QED BY <1>1, <1>5, <1>6, SameLoop

\* The end of a loop by its operator.
LEMMA ApproveHolds ==
    ASSUME LoopInv, Held, Approve
    PROVE  Held'
<1>1. meta.state = "waiting_manual" /\ UNCHANGED <<loop, root, meta, wisp>> /\ todo' = ApproveHandler
  BY DEF Approve, Begin
<1>2. root # "none"
  BY <1>1, Born, NamesAreGiven DEF Held
<1>3. Tends(ApproveHandler, Here)
  BY EndsAreFinal, FinalTends
<1> QED BY <1>1, <1>2, <1>3, SameLoop

LEMMA StopHolds ==
    ASSUME LoopInv, Held, Stop
    PROVE  Held'
<1>1. meta.state \in Running /\ UNCHANGED <<loop, root, meta, wisp>> /\ todo' = <<Call("stop", None)>>
  BY DEF Stop, Begin, Call
<1>2. root # "none"
  BY <1>1, Born, NamesAreGiven DEF Held, Running
<1>3. Tends(<<Call("stop", None)>>, Here)
  <2>1. PICK a : a = Call("stop", None) /\ Still(a)
    BY StillCalls
  <2> QED BY <2>1, ShortStill, StillTends
<1> QED BY <1>1, <1>2, <1>3, SameLoop

\* The next iteration of a loop that waits.
LEMMA NextPourHolds ==
    ASSUME LoopInv, Held, UNCHANGED <<loop, root, meta, wisp>>, NEW key,
           todo' = <<Pour(ClosedCount + 1, key, None)>>,
           \/ meta.state = "waiting_manual" /\ key = "manual"
           \/ meta.state = "waiting_trigger" /\ key = "trigger"
    PROVE  Held'
<1>1. root # "none"
  BY Born, NamesAreGiven DEF Held
<1>2. PICK s : s = Pour(ClosedCount + 1, key, None)
  OBVIOUS
<1>3. s.op = "pour" /\ s.fail = "abort" /\ s.key = key /\ s.w = ClosedCount + 1
  BY <1>2, DoBits
<1>4. Here.count = ClosedCount /\ ClosedCount \in Nat /\ Here.state = meta.state
  BY HereIs, ViewsAreTyped DEF LoopInv
<1>5. AllOpen(Here, Here.count + 1)
  BY <1>4 DEF Held, Kept, Placed, Waiting
<1>6. Len(<<s>>) = 1 /\ <<s>>[1] = s
  OBVIOUS
<1>7. PourSuits(<<s>>, Here, 1)
  <2>1. s.w >= 1 /\ AllOpen(Here, s.w) /\ UpTo(Here, s.w) /\ s.w <= Here.count + 1
    BY <1>3, <1>4, <1>5 DEF UpTo
  <2> QED BY <1>3, <1>4, <1>6, <2>1, FirstStep DEF PourSuits
<1>8. Tends(<<s>>, Here)
  BY <1>3, <1>7, PourTends
<1> QED BY <1>1, <1>2, <1>8, SameLoop

LEMMA IterateHolds ==
    ASSUME LoopInv, Held, IterateHandler
    PROVE  Held'
BY NextPourHolds DEF IterateHandler, Begin

LEMMA TriggerHolds ==
    ASSUME LoopInv, Held, HandleTrigger
    PROVE  Held'
BY NextPourHolds DEF HandleTrigger, Begin

\* The tick.
LEMMA TickHolds ==
    ASSUME LoopInv, Held, Tick
    PROVE  Held'
<1>1. UNCHANGED <<loop, root, meta, wisp>>
  BY DEF Tick, Begin
<1>2. \/ todo' = StartupReconcile
      \/ meta.state = "active" /\ Closed(meta.active) /\ todo' = <<Call("handle", meta.active)>>
      \/ meta.state = "active" /\ todo' = <<Call("reconcile", None)>>
  BY DEF Tick, Begin, Call
<1>3. CASE todo' = StartupReconcile
  BY <1>1, <1>3, StartupTends, SameLoop
<1>4. CASE meta.state = "active" /\ Closed(meta.active) /\ todo' = <<Call("handle", meta.active)>>
  <2>1. root # "none"
    BY <1>4, Born, NamesAreGiven DEF Held
  <2>2. Judging(Here, meta.active)
    BY <1>4, ActiveIsThere, HereIs DEF Judging, LoopInv, Held
  <2>3. Tends(todo', Here)
    BY <1>4, <2>2, HandleCall
  <2> QED BY <1>1, <2>1, <2>3, SameLoop
<1>5. CASE meta.state = "active" /\ todo' = <<Call("reconcile", None)>>
  <2>1. root # "none"
    BY <1>5, Born, NamesAreGiven DEF Held
  <2>2. PICK a : a = Call("reconcile", None) /\ Still(a)
    BY StillCalls
  <2>3. Tends(todo', Here)
    BY <1>5, <2>2, ShortStill, StillTends
  <2> QED BY <1>1, <2>1, <2>3, SameLoop
<1> QED BY <1>2, <1>3, <1>4, <1>5

\* The controller starts, stops, or forgets its index.
LEMMA RestartHolds ==
    ASSUME LoopInv, Held, UNCHANGED <<loop, root, meta, wisp>>,
           todo' = StartupReconcile \/ todo' = << >> \/ todo' = todo
    PROVE  Held'
<1>1. CASE todo' = todo
  BY <1>1, SameLoop DEF Held, Unborn
<1>2. CASE todo' = StartupReconcile \/ todo' = << >>
  BY <1>2, StartupTends, SameLoop
<1> QED BY <1>1, <1>2

-----------------------------------------------------------------------------
(* The steps that write.                                                   *)

\* The step to run suits the loop.
LEMMA FirstSuits ==
    ASSUME LoopInv, Held, todo # << >>
    PROVE  /\ Len(wisp) \in Nat /\ todo \in Seq(Steps(Len(wisp))) /\ s0 = todo[1]
           /\ s0 \in Steps(Len(wisp)) /\ Tail(todo) \in Seq(Steps(Len(wisp)))
           /\ Suits(todo, Here, 1) /\ Tends(todo, Here) /\ Kept(Here) /\ Unborn
           /\ Sized(Here) /\ OneOpen(Here) /\ Counted(Here) /\ Placed(Here)
           /\ TypeInv
BY HeadIs, HereSized DEF Held, Kept, Tends, LoopInv

\* What is kept does not depend on more than Here tells.
LEMMA KeptSame ==
    ASSUME NEW c, NEW d, Alike(c, d), Kept(c), Placed(d)
    PROVE  Kept(d)
BY AlikeIs DEF Kept

LEMMA PlacedSame ==
    ASSUME NEW c, NEW d, Alike(c, d), Placed(c), d.state = c.state, d.active = c.active,
           Given(d.formula) \/ d.formula = c.formula, Given(d.formula) => Given(d.state),
           d.pending = c.pending \/ (d.loop.trigger => d.pending = None)
    PROVE  Placed(d)
<1>1. d.loop = c.loop /\ d.open = c.open /\ d.shut = c.shut /\ d.iter = c.iter /\ d.count = c.count
  BY DEF Alike
<1>2. There(d) = There(c) /\ (Empty(d) <=> Empty(c))
  BY AlikeIs
<1>3. \A n : (AllOpen(d, n) <=> AllOpen(c, n)) /\ (UpTo(d, n) <=> UpTo(c, n))
             /\ (Speculates(d, n) <=> Speculates(c, n))
  BY AlikeIs
<1> QED BY <1>1, <1>2, <1>3 DEF Placed

\* A write that touches neither the state nor the active wisp.
LEMMA PlainWrite ==
    ASSUME LoopInv, Held, todo # << >>, UNCHANGED <<loop, root, wisp>>, todo' = Tail(todo),
           root # "none", s0.op # "delete", ~SetsActive(s0), ~SetsState(s0),
           meta'.state = meta.state, meta'.active = meta.active,
           Given(meta'.formula) \/ meta'.formula = meta.formula,
           Given(meta'.formula) => Given(meta'.state),
           meta'.pending = meta.pending \/ (loop.trigger => meta'.pending = None)
    PROVE  Held'
<1>1. /\ todo \in Seq(Steps(Len(wisp))) /\ s0 = todo[1] /\ Tends(todo, Here)
      /\ Kept(Here) /\ Placed(Here)
  BY FirstSuits
<1>2. Tends(Tail(todo), Here)
  BY <1>1, LighterHead
<1>3. /\ Alike(Here, Here') /\ Here'.state = meta'.state /\ Here'.formula = meta'.formula
      /\ Here'.active = meta'.active /\ Here'.pending = meta'.pending
  BY AlikeHere
<1>4. /\ Here.state = meta.state /\ Here.formula = meta.formula /\ Here.active = meta.active
      /\ Here.pending = meta.pending /\ Here.loop = loop /\ Here'.loop = loop
  BY <1>3, HereIs DEF Alike
<1>5. Placed(Here')
  BY <1>1, <1>3, <1>4, PlacedSame
<1>6. Kept(Here') /\ Tends(todo', Here')
  BY <1>1, <1>2, <1>3, <1>4, <1>5, KeptSame, TendsSame
<1>7. Unborn'
  BY Born
<1> QED BY <1>6, <1>7 DEF Held

\* A metadata write.
LEMMA SetMetadataHolds ==
    ASSUME LoopInv, Held, SetMetadata
    PROVE  Held'
<1>1. /\ todo # << >> /\ s0.op = "set" /\ meta' = [meta EXCEPT ![s0.key] = s0.v]
      /\ todo' = Tail(todo) /\ UNCHANGED <<loop, root, wisp>>
  BY DEF SetMetadata, At, Go
<1>2. /\ todo \in Seq(Steps(Len(wisp))) /\ s0 = todo[1] /\ s0 \in Steps(Len(wisp))
      /\ Suits(todo, Here, 1) /\ Tends(todo, Here) /\ Kept(Here) /\ Sized(Here) /\ Placed(Here)
  BY <1>1, FirstSuits
<1>3. root # "none"
  BY <1>1, WorksOnARoot DEF Held
<1>4. meta \in Metas(Len(wisp))
  BY DEF LoopInv, TypeInv
<1>5. s0.key \in SetKeys
  BY <1>1, <1>2 DEF Steps
<1>6. /\ meta'.state = IF s0.key = "state" THEN s0.v ELSE meta.state
      /\ meta'.formula = IF s0.key = "formula" THEN s0.v ELSE meta.formula
      /\ meta'.active = meta.active /\ meta'.pending = meta.pending
  BY <1>1, <1>4, <1>5 DEF Metas, SetKeys
<1>7. ~SetsActive(s0)
  BY <1>1 DEF SetsActive
<1>8. CASE s0.key = "state"
  <2>1. SetsState(todo[1])
    BY <1>1, <1>2, <1>8 DEF SetsState
  <2>2. StateSuits(todo, Here, 1)
    BY <1>2, <2>1 DEF Suits
  <2>3. /\ Alike(Here, Here') /\ Here'.state = meta'.state /\ Here'.formula = meta'.formula
        /\ Here'.active = meta'.active /\ Here'.pending = meta'.pending
    BY <1>1, AlikeHere
  <2>4. /\ Here'.state = todo[1].v /\ Here'.formula = Here.formula
        /\ Here'.active = Here.active /\ Here'.pending = Here.pending
    BY <1>2, <1>6, <1>8, <2>3, HereIs
  <2>5. Placed(Here')
    BY <1>2, <2>2, <2>3, <2>4, StatePlaced
  <2>6. Tends(Tail(todo), Here')
    BY <1>1, <1>2, <2>1, <2>3, <2>4, StateWritten
  <2>7. Kept(Here')
    BY <1>2, <2>3, <2>5, KeptSame
  <2>8. Unborn'
    BY <1>1, <1>3, Born
  <2> QED BY <1>1, <2>6, <2>7, <2>8 DEF Held
<1>9. CASE s0.key = "formula"
  <2>1. FormulaSuits(todo, Here, 1)
    BY <1>1, <1>2, <1>9 DEF Suits
  <2>2. Given(s0.v) /\ Given(meta.state)
    BY <1>2, <2>1, FirstStep, HereIs DEF FormulaSuits
  <2>3. ~SetsState(s0)
    BY <1>9 DEF SetsState
  <2> QED BY <1>1, <1>3, <1>6, <1>7, <1>9, <2>2, <2>3, PlainWrite
<1>10. CASE s0.key \notin {"state", "formula"}
  <2>1. ~SetsState(s0)
    BY <1>10 DEF SetsState
  <2>2. Given(meta.formula) => Given(meta.state)
    BY <1>2, HereIs DEF Placed
  <2>3. meta'.state = meta.state /\ meta'.formula = meta.formula
    BY <1>6, <1>10
  <2> QED BY <1>1, <1>3, <1>6, <1>7, <2>1, <2>2, <2>3, PlainWrite
<1> QED BY <1>8, <1>9, <1>10

\* A reference write.
LEMMA SetReferenceHolds ==
    ASSUME LoopInv, Held, SetReference
    PROVE  Held'
<1>1. /\ todo # << >> /\ s0.op = "ref" /\ meta' = [meta EXCEPT ![s0.key] = s0.w]
      /\ todo' = Tail(todo) /\ UNCHANGED <<loop, root, wisp>>
  BY DEF SetReference, At, Go
<1>2. /\ todo \in Seq(Steps(Len(wisp))) /\ s0 = todo[1] /\ s0 \in Steps(Len(wisp))
      /\ Suits(todo, Here, 1) /\ Tends(todo, Here) /\ Kept(Here) /\ Sized(Here) /\ Placed(Here)
  BY <1>1, FirstSuits
<1>3. root # "none"
  BY <1>1, WorksOnARoot DEF Held
<1>4. meta \in Metas(Len(wisp))
  BY DEF LoopInv, TypeInv
<1>5. s0.key \in RefKeys
  BY <1>1, <1>2 DEF Steps
<1>6. /\ meta'.active = IF s0.key = "active" THEN s0.w ELSE meta.active
      /\ meta'.pending = IF s0.key = "pending" THEN s0.w ELSE meta.pending
      /\ meta'.state = meta.state /\ meta'.formula = meta.formula
  BY <1>1, <1>4, <1>5 DEF Metas, RefKeys
<1>7. ~SetsState(s0)
  BY <1>1 DEF SetsState
<1>8. CASE s0.key = "active"
  <2>1. SetsActive(todo[1])
    BY <1>1, <1>2, <1>8 DEF SetsActive
  <2>2. ActiveSuits(todo, Here, 1)
    BY <1>2, <2>1 DEF Suits
  <2>3. /\ Alike(Here, Here') /\ Here'.state = meta'.state /\ Here'.formula = meta'.formula
        /\ Here'.active = meta'.active /\ Here'.pending = meta'.pending
    BY <1>1, AlikeHere
  <2>4. /\ Here'.active = todo[1].w /\ Here'.formula = Here.formula
        /\ Here'.state = Here.state /\ Here'.pending = Here.pending
    BY <1>2, <1>6, <1>8, <2>3, HereIs
  <2>5. Placed(Here')
    BY <1>2, <2>2, <2>3, <2>4, ActivePlaced
  <2>6. Tends(Tail(todo), Here')
    BY <1>1, <1>2, <2>1, <2>3, <2>4, ActiveWritten
  <2>7. Kept(Here')
    BY <1>2, <2>3, <2>5, KeptSame
  <2>8. Unborn'
    BY <1>1, <1>3, Born
  <2> QED BY <1>1, <2>6, <2>7, <2>8 DEF Held
<1>9. CASE s0.key # "active"
  <2>1. ~SetsActive(s0)
    BY <1>9 DEF SetsActive
  <2>2. Given(meta.formula) => Given(meta.state)
    BY <1>2, HereIs DEF Placed
  <2>3. s0.key = "pending" => s0.w = None \/ ~loop.trigger
    BY <1>1, <1>2, HereIs DEF Suits
  <2>4. meta'.pending = meta.pending \/ (loop.trigger => meta'.pending = None)
    BY <1>6, <2>3
  <2>5. meta'.active = meta.active
    BY <1>6, <1>9
  <2> QED BY <1>1, <1>3, <1>6, <1>7, <2>1, <2>2, <2>4, <2>5, PlainWrite
<1> QED BY <1>8, <1>9

\* The steps that change neither a wisp nor what the loop refers to.
LEMMA LightStep ==
    ASSUME LoopInv, Held, todo # << >>, UNCHANGED <<loop, meta, wisp>>, todo' = Tail(todo),
           s0.op \notin {"delete", "set", "ref"},
           root' = root \/ root' # "none", s0.op = "index" \/ root' # "none"
    PROVE  Held'
<1>1. todo \in Seq(Steps(Len(wisp))) /\ s0 = todo[1] /\ Tends(todo, Here) /\ Unborn
  BY FirstSuits
<1>2. ~SetsActive(s0) /\ ~SetsState(s0)
  BY DEF SetsActive, SetsState
<1>3. Tends(Tail(todo), Here)
  BY <1>1, <1>2, LighterHead
<1>4. CASE root' # "none"
  <2>1. Here' = Here
    BY SameHere
  <2> QED BY <1>3, <1>4, <2>1, Born DEF Held
<1>5. CASE root' = "none"
  <2>1. root = "none" /\ s0.op = "index"
    BY <1>5
  <2>2. \A k \in 1..Len(todo) : todo[k].op \in {"reconcile", "index"}
    BY <1>1, <2>1 DEF Unborn, Fresh
  <2>3. Fresh(Tail(todo))
    BY <1>1, <2>2, TailIs DEF Fresh
  <2> QED BY <1>3, <2>1, <2>3, SameLoop
<1> QED BY <1>4, <1>5

LEMMA EmitEventHolds ==
    ASSUME LoopInv, Held, EmitEvent
    PROVE  Held'
<1>1. todo # << >> /\ s0.op = "emit" /\ todo' = Tail(todo) /\ UNCHANGED <<loop, root, meta, wisp>>
  BY DEF EmitEvent, At, Go
<1>2. root # "none"
  BY <1>1, WorksOnARoot DEF Held
<1> QED BY <1>1, <1>2, LightStep

LEMMA RootHolds ==
    ASSUME LoopInv, Held, CreateConvergenceBead \/ CloseRootBead
    PROVE  Held'
<1>1. /\ todo # << >> /\ s0.op \in {"create", "close_root"} /\ todo' = Tail(todo)
      /\ root' \in {"open", "closed"} /\ UNCHANGED <<loop, meta, wisp>>
  BY DEF CreateConvergenceBead, CloseRootBead, At, Go
<1> QED BY <1>1, LightStep

LEMMA PopulateIndexHolds ==
    ASSUME LoopInv, Held, PopulateIndex
    PROVE  Held'
<1>1. todo # << >> /\ s0.op = "index" /\ todo' = Tail(todo) /\ UNCHANGED <<loop, root, meta, wisp>>
  BY DEF PopulateIndex, At, Go
<1> QED BY <1>1, LightStep

\* A wisp that a step names.
LEMMA SetsWisp ==
    ASSUME LoopInv, LoopInv', todo # << >>, s0.op \in {"close_wisp", "delete", "activate"},
           Exists(s0.w), NEW st \in {"spec", "live", "closed", "gone"}, SetWisp(st)
    PROVE  /\ s0.w \in 1..Len(wisp) /\ Restated(s0.w, st) /\ TypeInv /\ TypeInv'
           /\ todo' = Tail(todo) /\ root' = root /\ s0.w \in There(Here)
           /\ UNCHANGED <<loop, meta>> /\ wisp[s0.w].st \in {"spec", "live", "closed"}
<1>1. Len(wisp) \in Nat /\ s0 \in Steps(Len(wisp))
  BY HeadIs
<1>2. s0.w \in 0..Len(wisp)
  BY <1>1 DEF Steps
<1>3. s0.w \in 1..Len(wisp)
  BY <1>1, <1>2 DEF Exists, None
<1>4. /\ wisp' = [wisp EXCEPT ![s0.w].st = st] /\ todo' = Tail(todo)
      /\ UNCHANGED <<loop, root, meta>>
  BY DEF SetWisp, Go
<1>5. Restated(s0.w, st)
  BY <1>3, <1>4, StatusChange DEF Restated
<1>6. TypeInv /\ TypeInv'
  BY DEF LoopInv
<1>7. s0.w \in There(Here)
  BY <1>2, <1>6, HereWisps
<1>8. wisp[s0.w] \in Wisps
  BY <1>3, <1>6 DEF TypeInv
<1>9. wisp[s0.w].st \in {"spec", "live", "closed"}
  BY <1>8 DEF Wisps, Exists
<1> QED BY <1>3, <1>4, <1>5, <1>6, <1>7, <1>9

\* A step closes a wisp.
LEMMA CloseWispHolds ==
    ASSUME LoopInv, LoopInv', Held, CloseWisp
    PROVE  Held'
<1>1. todo # << >> /\ s0.op = "close_wisp" /\ Exists(s0.w) /\ SetWisp("closed")
  BY DEF CloseWisp, At
<1>2. /\ s0.w \in 1..Len(wisp) /\ Restated(s0.w, "closed") /\ TypeInv /\ TypeInv'
      /\ todo' = Tail(todo) /\ root' = root /\ s0.w \in There(Here)
      /\ UNCHANGED <<loop, meta>> /\ wisp[s0.w].st \in {"spec", "live", "closed"}
  BY <1>1, SetsWisp
<1>3. /\ todo \in Seq(Steps(Len(wisp))) /\ s0 = todo[1] /\ Tail(todo) \in Seq(Steps(Len(wisp)))
      /\ Tends(todo, Here) /\ Kept(Here) /\ Sized(Here) /\ OneOpen(Here) /\ Counted(Here)
  BY <1>1, FirstSuits
<1>4. ~SetsActive(s0) /\ ~SetsState(s0)
  BY <1>1 DEF SetsActive, SetsState
<1>5. Tends(Tail(todo), Here)
  BY <1>1, <1>3, <1>4, LighterHead
<1>6. Unborn'
  BY <1>1, <1>2, WorksOnARoot, Born DEF Held
<1>7. CASE s0.w \in Here.open
  <2>1. Shuts(Here, Here', s0.w)
    BY <1>2, <1>7, ClosesHere
  <2>2. Kept(Here') /\ Tends(Tail(todo), Here')
    BY <1>3, <1>5, <2>1, ShutKept, ShutTends
  <2> QED BY <1>2, <1>6, <2>2 DEF Held
<1>8. CASE s0.w \in Here.shut
  <2>1. wisp[s0.w].st = "closed"
    BY <1>2, <1>8, HereShaped DEF HereShape
  <2>2. Here' = Here
    BY <1>2, <2>1, RestatedSame
  <2> QED BY <1>2, <1>3, <1>5, <1>6, <2>2 DEF Held
<1> QED BY <1>2, <1>7, <1>8 DEF There

\* A step deletes the wisp that was poured ahead.
LEMMA DeleteBeadHolds ==
    ASSUME LoopInv, LoopInv', Held, DeleteBead
    PROVE  Held'
<1>1. todo # << >> /\ s0.op = "delete" /\ Exists(s0.w) /\ SetWisp("gone")
  BY DEF DeleteBead, At
<1>2. /\ s0.w \in 1..Len(wisp) /\ Restated(s0.w, "gone") /\ TypeInv /\ TypeInv'
      /\ todo' = Tail(todo) /\ root' = root
  BY <1>1, SetsWisp
<1>3. /\ todo \in Seq(Steps(Len(wisp))) /\ s0 = todo[1] /\ Suits(todo, Here, 1)
      /\ Tends(todo, Here) /\ Kept(Here) /\ Sized(Here) /\ OneOpen(Here) /\ Counted(Here)
  BY <1>1, FirstSuits
<1>4. Unborn'
  BY <1>1, <1>2, WorksOnARoot, Born DEF Held
<1>5. Removes(Here, Here', s0.w)
  BY <1>2, RemovesHere
<1>6. Spare(Here, s0.w)
  BY <1>1, <1>3 DEF Suits, DeleteSuits
<1>7. Kept(Here')
  BY <1>3, <1>5, <1>6, RemoveKept
<1>8. Tends(Tail(todo), Here')
  BY <1>1, <1>3, <1>5, RemoveTends
<1> QED BY <1>2, <1>4, <1>7, <1>8 DEF Held

\* A wisp that was poured ahead is given to an agent.
LEMMA ActivateWispHolds ==
    ASSUME LoopInv, LoopInv', Held, ActivateWisp
    PROVE  Held'
<1> DEFINE st == IF wisp[s0.w].st = "spec" THEN "live" ELSE wisp[s0.w].st
<1>1. todo # << >> /\ s0.op = "activate" /\ Exists(s0.w) /\ SetWisp(st)
  BY DEF ActivateWisp, At
<1>2. st \in {"spec", "live", "closed", "gone"}
  <2>1. Len(wisp) \in Nat /\ s0 \in Steps(Len(wisp))
    BY <1>1, HeadIs
  <2>2. s0.w \in 1..Len(wisp)
    BY <1>1, <2>1 DEF Steps, Exists, None
  <2>3. wisp[s0.w] \in Wisps
    BY <2>2 DEF LoopInv, TypeInv
  <2> QED BY <2>3 DEF Wisps
<1> HIDE DEF st
<1>3. /\ s0.w \in 1..Len(wisp) /\ Restated(s0.w, st) /\ TypeInv /\ TypeInv'
      /\ todo' = Tail(todo) /\ root' = root /\ s0.w \in There(Here)
      /\ UNCHANGED <<loop, meta>> /\ wisp[s0.w].st \in {"spec", "live", "closed"}
  BY <1>1, <1>2, SetsWisp
<1>4. /\ todo \in Seq(Steps(Len(wisp))) /\ s0 = todo[1] /\ Tends(todo, Here) /\ Kept(Here)
  BY <1>1, FirstSuits
<1>5. ~SetsActive(s0) /\ ~SetsState(s0)
  BY <1>1 DEF SetsActive, SetsState
<1>6. Tends(Tail(todo), Here)
  BY <1>1, <1>4, <1>5, LighterHead
<1>7. Unborn'
  BY <1>1, <1>3, WorksOnARoot, Born DEF Held
<1>8. Here' = Here
  <2>1. st = wisp[s0.w].st \/ (st \notin {"gone", "closed"} /\ wisp[s0.w].st \notin {"gone", "closed"})
    BY DEF st
  <2> QED BY <1>3, <2>1, RestatedSame
<1> QED BY <1>3, <1>4, <1>6, <1>7, <1>8 DEF Held

\* An agent finishes its wisp.
LEMMA AgentHolds ==
    ASSUME LoopInv, LoopInv', Held, AgentCloses
    PROVE  Held'
<1>1. PICK i \in DOMAIN wisp : wisp[i].st = "live" /\ wisp' = [wisp EXCEPT ![i].st = "closed"]
  BY DEF AgentCloses
<1>2. UNCHANGED <<loop, root, meta, todo>>
  BY DEF AgentCloses
<1>3. TypeInv /\ TypeInv' /\ todo \in Seq(Steps(Len(wisp)))
  BY DEF LoopInv, TypeInv
<1>4. i \in 1..Len(wisp)
  BY <1>3 DEF TypeInv
<1>5. Restated(i, "closed")
  BY <1>1, <1>2, <1>4, StatusChange DEF Restated
<1>6. i \in Here.open
  BY <1>1, <1>3, <1>4, HereShaped DEF HereShape
<1>7. Shuts(Here, Here', i)
  BY <1>3, <1>4, <1>5, <1>6, ClosesHere
<1>8. Sized(Here) /\ Kept(Here) /\ OneOpen(Here) /\ Counted(Here) /\ Tends(todo, Here)
  BY <1>3, HereSized DEF Held, Kept
<1>9. Kept(Here') /\ Tends(todo, Here')
  BY <1>3, <1>7, <1>8, ShutKept, ShutTends
<1>10. root # "none"
  BY <1>6 DEF Held, Unborn, Barren, Empty
<1>11. Unborn'
  BY <1>2, <1>10, Born
<1> QED BY <1>2, <1>9, <1>11 DEF Held

-----------------------------------------------------------------------------
(* The steps that branch, and failures.                                    *)

\* What follows a step that branches matters to no wisp.
LEMMA TailStill ==
    ASSUME LoopInv, Held, todo # << >>, s0.op \in Calls
    PROVE  AllStill(Tail(todo)) /\ Tail(todo) \in Seq(Steps(Len(wisp)))
<1> DEFINE t == Tail(todo)
<1>1. todo \in Seq(Steps(Len(wisp))) /\ s0 = todo[1] /\ Tends(todo, Here) /\ t \in Seq(Steps(Len(wisp)))
  BY FirstSuits
<1>2. Trailing(t)
  BY <1>1, TailOfCall DEF LoopInv
<1>3. ASSUME NEW k \in 1..Len(t) PROVE Still(t[k])
  <2>1. k + 1 \in 1..Len(todo) /\ t[k] = todo[k + 1]
    BY <1>1, TailIs
  <2>2. t[k].op \in {"stop_reread", "index"}
    BY <1>2 DEF Trailing
  <2>3. FailSuits(todo, Here, k + 1)
    BY <1>1, <2>1 DEF Tends, Suits
  <2>4. t[k].fail # "burn"
    BY <2>1, <2>2, <2>3 DEF FailSuits
  <2> HIDE DEF t
  <2> QED BY <2>2, <2>4 DEF Still, SetsActive, SetsState
<1> QED BY <1>1, <1>3 DEF AllStill

\* The last step of a startup scan, kept by an abort.
LEMMA AbortedStill ==
    ASSUME LoopInv, Held, todo # << >>
    PROVE  AllStill(Aborted) /\ Aborted \in Seq(Steps(Len(wisp))) /\ Fresh(Aborted)
<1> DEFINE l == todo[Len(todo)]
<1>1. todo \in Seq(Steps(Len(wisp))) /\ Len(todo) \in 1..Len(todo) /\ Tends(todo, Here)
  BY HeadIs, FirstSuits
<1>2. FailSuits(todo, Here, Len(todo))
  BY <1>1 DEF Tends, Suits
<1>3. l.op = "index" => Still(l)
  BY <1>2 DEF FailSuits, Still, SetsActive, SetsState
<1>4. Aborted = When(l.op = "index", <<l>>)
  BY DEF Aborted
<1> HIDE DEF l
<1>5. CASE l.op = "index"
  <2>1. Aborted = <<l>>
    BY <1>4, <1>5 DEF When
  <2>2. AllStill(<<l>>)
    BY <1>3, <1>5, ShortStill
  <2>3. Fresh(<<l>>)
    BY <1>5, PlacesUpToThree DEF Fresh
  <2> QED BY <2>1, <2>2, <2>3, AbortedIs
<1>6. CASE l.op # "index"
  <2>1. Aborted = << >>
    BY <1>4, <1>6 DEF When
  <2>2. AllStill(<< >>)
    BY DEF AllStill
  <2> QED BY <2>1, <2>2, StartupTends, AbortedIs
<1> QED BY <1>5, <1>6

\* What the gate and its judgement rely on.
LEMMA JudgesHere ==
    ASSUME LoopInv, Held, todo # << >>, Judges(s0)
    PROVE  Judging(Here, s0.w) /\ (s0.op # "handle" => Ahead(Here, s0.x, s0.v))
<1>1. s0 = todo[1] /\ Suits(todo, Here, 1)
  BY FirstSuits
<1>2. JudgeSuits(todo, Here, 1)
  BY <1>1 DEF Suits
<1> QED BY <1>1, <1>2 DEF JudgeSuits, Judging, Ahead

\* A step reads and branches.
LEMMA ExpandHolds ==
    ASSUME LoopInv, Held, Expand
    PROVE  Held'
<1>1. /\ todo # << >> /\ s0.op \in Branches /\ todo' = Branch(s0) \o Tail(todo)
      /\ UNCHANGED <<loop, root, meta, wisp>>
  BY DEF Expand, Branches
<1>2. /\ todo \in Seq(Steps(Len(wisp))) /\ s0 = todo[1] /\ s0 \in Steps(Len(wisp)) /\ Unborn
      /\ Kept(Here) /\ TypeInv /\ 1 \in 1..Len(todo)
  BY <1>1, FirstSuits, HeadIs
<1>3. s0.op \in Calls
  BY <1>1 DEF Calls
<1>4. AllStill(Tail(todo)) /\ Tail(todo) \in Seq(Steps(Len(wisp)))
  BY <1>1, <1>3, TailStill
<1>5. s0.op \in {"handle", "settle"} => Judging(Here, s0.w)
  BY <1>1, JudgesHere DEF Judges
<1>6. s0.op = "settle" => Ahead(Here, s0.x, s0.v)
  BY <1>1, JudgesHere DEF Judges
<1>7. s0.op = "stop" => meta.state # "terminated"
  <2>1. HandlesTheLiving(todo, Now)
    BY DEF LoopInv, Orderly
  <2> QED BY <1>2, <2>1, NowIs DEF HandlesTheLiving
<1>8. Tends(Branch(s0), Here)
  BY <1>1, <1>2, <1>5, <1>6, <1>7, BranchTends
<1>9. Branch(s0) \in Seq(Steps(Len(wisp)))
  BY <1>1, BranchFits DEF Fits
<1>10. Tends(todo', Here)
  BY <1>1, <1>4, <1>8, <1>9, StillAfter
<1>11. root = "none" => Fresh(todo')
  <2> SUFFICES ASSUME root = "none" PROVE Fresh(todo')
    OBVIOUS
  <2>1. s0.op = "reconcile"
    BY <1>1, <1>2, WorksOnARoot DEF Branches
  <2>2. Branch(s0) = reconcileState
    BY <2>1, Zenon DEF Branch
  <2>3. reconcileState = << >>
    BY Zenon DEF reconcileState
  <2>4. todo' = Tail(todo)
    BY <1>1, <1>4, <2>2, <2>3
  <2>5. \A k \in 1..Len(todo) : todo[k].op \in {"reconcile", "index"}
    BY <1>2, <2>1 DEF Unborn, Fresh
  <2>6. \A k \in 1..Len(Tail(todo)) : k + 1 \in 1..Len(todo) /\ Tail(todo)[k] = todo[k + 1]
    BY <1>1, <1>2, TailIs
  <2> QED BY <2>4, <2>5, <2>6 DEF Fresh
<1> QED BY <1>1, <1>10, <1>11, SameLoop

\* The gate is evaluated.
LEMMA EvaluateGateHolds ==
    ASSUME LoopInv, Held, EvaluateGate
    PROVE  Held'
<1>1. /\ todo # << >> /\ s0.op = "gate" /\ UNCHANGED <<loop, root, meta, wisp>>
      /\ \E outcome \in {"pass", "fail", "timeout"} : todo' = gateEvaluation(s0, outcome) \o Tail(todo)
  BY DEF EvaluateGate, At
<1>2. PICK outcome \in {"pass", "fail", "timeout"} : todo' = gateEvaluation(s0, outcome) \o Tail(todo)
  BY <1>1
<1>3. Len(wisp) \in Nat /\ s0 \in Steps(Len(wisp)) /\ TypeInv
  BY <1>1, FirstSuits
<1>4. s0.w \in 0..Len(wisp)
  BY <1>1, <1>3 DEF Steps
<1>5. IterOf(s0.w) \in Nat
  BY <1>3, <1>4, ViewsAreTyped
<1>6. Judging(Here, s0.w) /\ Ahead(Here, s0.x, s0.v)
  BY <1>1, JudgesHere DEF Judges
<1>7. Tends(gateEvaluation(s0, outcome), Here)
  BY <1>3, <1>4, <1>5, <1>6, GateTends
<1>8. gateEvaluation(s0, outcome) \in Seq(Steps(Len(wisp)))
  BY <1>1, <1>3, GateFits DEF Fits
<1>9. AllStill(Tail(todo)) /\ Tail(todo) \in Seq(Steps(Len(wisp)))
  BY <1>1, TailStill DEF Calls
<1>10. Tends(todo', Here)
  BY <1>2, <1>7, <1>8, <1>9, StillAfter
<1>11. root # "none"
  BY <1>1, WorksOnARoot DEF Held
<1> QED BY <1>1, <1>10, <1>11, SameLoop

\* What a failed call leaves of the handler suits the loop as it is.
LEMMA FailureTends ==
    ASSUME LoopInv, Held, todo # << >>
    PROVE  Tends(AfterFailure(s0), Here)
<1>1. /\ Len(wisp) \in Nat /\ todo \in Seq(Steps(Len(wisp))) /\ s0 = todo[1]
      /\ s0 \in Steps(Len(wisp)) /\ Suits(todo, Here, 1) /\ Tends(todo, Here)
  BY FirstSuits
<1>2. s0.fail \in Fails /\ s0.x \in 0..Len(wisp)
  BY <1>1 DEF Steps
<1>3. FailSuits(todo, Here, 1)
  BY <1>1 DEF Suits
<1>4. AllStill(Aborted) /\ Aborted \in Seq(Steps(Len(wisp)))
  BY AbortedStill
<1>5. CASE s0.fail = "skip"
  <2>1. AfterFailure(s0) = Tail(todo)
    BY <1>5, Zenon DEF AfterFailure
  <2>2. s0.op # "delete" /\ ~SetsActive(s0) /\ (SetsState(s0) => s0.v = "terminated")
    BY <1>1, <1>3, <1>5 DEF FailSuits
  <2>3. Tends(Tail(todo), Here)
    BY <1>1, <2>2, LighterHead
  <2> QED BY <2>1, <2>3
<1>6. CASE s0.fail = "rollback"
  <2>1. AfterFailure(s0) = closeBead
    BY <1>6, Zenon DEF AfterFailure
  <2> QED BY <2>1, EndsAreFinal, FinalTends
<1>7. CASE s0.fail = "abort"
  <2>1. AfterFailure(s0) = Aborted
    BY <1>7, Zenon DEF AfterFailure
  <2> QED BY <1>4, <2>1, StillTends
<1>8. CASE s0.fail = "burn"
  <2>1. AfterFailure(s0) = burnSpeculativeWisp(s0.x) \o Aborted
    BY <1>8, Zenon DEF AfterFailure
  <2>2. CASE s0.x = None
    <3>1. burnSpeculativeWisp(s0.x) = << >>
      BY <2>2, Zenon DEF burnSpeculativeWisp, When
    <3>2. AfterFailure(s0) = Aborted
      BY <1>4, <2>1, <3>1
    <3> QED BY <1>4, <3>2, StillTends
  <2>3. CASE s0.x # None
    <3>1. PICK d \in Steps(Len(wisp)) : d = Call("delete", s0.x)
      BY <1>1, <1>2, <2>3, BurnSteps
    <3>2. PICK p \in Steps(Len(wisp)) : p = ClearPending
      BY <1>1, <1>2, <2>3, BurnSteps
    <3>3. burnSpeculativeWisp(s0.x) = <<d>> \o <<p>>
      BY <1>1, <1>2, <2>3, <3>1, <3>2, BurnSteps
    <3>4. d.op = "delete" /\ d.fail = "abort" /\ d.w = s0.x /\ Still(p)
      BY <3>1, <3>2, CallBits, StillSteps
    <3>5. Spare(Here, d.w)
      BY <1>1, <1>3, <1>8, <2>3, <3>4 DEF FailSuits
    <3>6. <<p>> \o Aborted \in Seq(Steps(Len(wisp)))
          /\ (<<d>> \o <<p>>) \o Aborted = <<d>> \o (<<p>> \o Aborted)
      <4> HIDE <3>1, <3>2
      <4> QED BY <1>4
    <3>7. AllStill(<<p>> \o Aborted)
      <4> HIDE <3>1, <3>2
      <4>0. <<p>> \in Seq(Steps(Len(wisp)))
        OBVIOUS
      <4>1. <<p>> \in Seq(Steps(Len(wisp))) /\ AllStill(<<p>>)
        BY <3>4, <4>0, ShortStill
      <4>2. \A k \in 1..Len(<<p>> \o Aborted) :
               \/ k \in 1..Len(<<p>>) /\ (<<p>> \o Aborted)[k] = <<p>>[k]
               \/ k - Len(<<p>>) \in 1..Len(Aborted) /\ (<<p>> \o Aborted)[k] = Aborted[k - Len(<<p>>)]
        BY <1>4, <4>1, JoinIs
      <4> QED BY <1>4, <4>1, <4>2 DEF AllStill
    <3>8. Tends(<<d>> \o (<<p>> \o Aborted), Here)
      BY <3>4, <3>5, <3>6, <3>7, BurnAlone
    <3> QED BY <2>1, <3>3, <3>6, <3>8
  <2> QED BY <2>2, <2>3
<1> QED BY <1>2, <1>5, <1>6, <1>7, <1>8 DEF Fails

\* A store call fails.
LEMMA StoreFailsHolds ==
    ASSUME LoopInv, Held, StoreFails
    PROVE  Held'
<1>1. /\ todo # << >> /\ todo' = AfterFailure(s0) /\ UNCHANGED <<loop, root, meta, wisp>>
      /\ s0.op \notin {"reconcile", "index"}
  BY DEF StoreFails
<1>2. Tends(todo', Here)
  BY <1>1, FailureTends
<1>3. root = "none" => Fresh(todo')
  <2> SUFFICES ASSUME root = "none" PROVE Fresh(todo')
    OBVIOUS
  <2>1. s0.op = "create"
    BY <1>1, WorksOnARoot DEF Held
  <2>2. s0 = todo[1] /\ 1 \in 1..Len(todo)
    BY <1>1, HeadIs
  <2>3. s0.fail = "abort"
    BY <2>1, <2>2 DEF LoopInv, Orderly, FailuresAreMarked
  <2>4. AfterFailure(s0) = Aborted
    BY <2>3, Zenon DEF AfterFailure
  <2> QED BY <1>1, <2>4, AbortedStill
<1> QED BY <1>1, <1>2, <1>3, SameLoop

\* The pour to run suits the loop.
LEMMA PourSuitsHere ==
    ASSUME LoopInv, Held, todo # << >>, s0.op = "pour"
    PROVE  /\ PourSuits(todo, Here, 1) /\ todo[1].key \in PourKeys /\ todo[1].w \in Nat
           /\ todo[1] = s0 /\ root # "none"
           /\ Given(meta.formula) => PoursWell(todo, Here) /\ todo[1].key # "first"
<1>1. s0 = todo[1] /\ s0 \in Steps(Len(wisp)) /\ Suits(todo, Here, 1) /\ 1 \in 1..Len(todo)
      /\ Placed(Here)
  BY FirstSuits, HeadIs
<1>2. todo[1].key \in PourKeys /\ todo[1].w \in Nat
  BY <1>1 DEF Steps
<1>3. PourSuits(todo, Here, 1)
  BY <1>1 DEF Suits
<1>4. todo[1].key = "create" => meta.state = "active"
  <2> SUFFICES ASSUME todo[1].key = "create" PROVE meta.state = "active"
    OBVIOUS
  <2>1. RunsWhenAnnounced(todo, Now)
    BY DEF LoopInv, Orderly
  <2>2. 1..1 - 1 = {}
    OBVIOUS
  <2>3. Now.state \in Running
    BY <1>1, <2>1, <2>2 DEF RunsWhenAnnounced
  <2>4. meta.state \notin Waiting
    BY <1>3, HereIs DEF PourSuits
  <2> QED BY <2>3, <2>4, NowIs DEF Running, Waiting
<1>5. Given(meta.formula) => todo[1].key # "first"
  BY <1>1, <1>3, HereIs DEF PourSuits, Placed
<1>6. root # "none"
  BY WorksOnARoot DEF Held
<1> QED BY <1>1, <1>2, <1>3, <1>4, <1>5, <1>6, HereIs DEF PoursWell

\* A pour that gives up leaves nothing to do that matters to a wisp.
LEMMA GivesUp ==
    ASSUME LoopInv, Held, todo # << >>, s0.op = "pour", NEW c
    PROVE  Tends(AfterFailure(s0), c)
<1>1. s0 = todo[1] /\ s0 \in Steps(Len(wisp)) /\ Suits(todo, Here, 1)
  BY FirstSuits
<1>2. s0.fail \in Fails
  BY <1>1 DEF Steps
<1>3. s0.fail # "burn"
  BY <1>1 DEF Suits, FailSuits
<1>4. AllStill(Tail(todo)) /\ AllStill(Aborted)
  BY TailStill, AbortedStill DEF Calls
<1>5. CASE s0.fail = "skip"
  <2>1. AfterFailure(s0) = Tail(todo)
    BY <1>5, Zenon DEF AfterFailure
  <2> QED BY <1>4, <2>1, StillTends
<1>6. CASE s0.fail = "rollback"
  <2>1. AfterFailure(s0) = closeBead
    BY <1>6, Zenon DEF AfterFailure
  <2> QED BY <2>1, EndsAreFinal, FinalTends
<1>7. CASE s0.fail = "abort"
  <2>1. AfterFailure(s0) = Aborted
    BY <1>7, Zenon DEF AfterFailure
  <2> QED BY <1>4, <2>1, StillTends
<1> QED BY <1>2, <1>3, <1>5, <1>6, <1>7 DEF Fails

\* A handler meets an error.
LEMMA HandlerErrorHolds ==
    ASSUME LoopInv, Held, HandlerError
    PROVE  Held'
<1>1. todo # << >> /\ UNCHANGED <<loop, root, meta, wisp>>
  BY DEF HandlerError
<1>2. \/ s0.op = "error" /\ todo' = Aborted
      \/ s0.op \in {"activate", "delete", "close_wisp"} /\ todo' = AfterFailure(s0)
      \/ s0.op = "pour" /\ ~Given(meta.formula) /\ todo' = AfterPourFailure(s0)
  BY Zenon DEF HandlerError, Given
<1>3. root # "none"
  BY <1>1, <1>2, WorksOnARoot DEF Held
<1>4. CASE todo' = Aborted
  <2>1. Tends(todo', Here)
    BY <1>1, <1>4, AbortedStill, StillTends
  <2> QED BY <1>1, <1>3, <2>1, SameLoop
<1>5. CASE todo' = AfterFailure(s0)
  <2>1. Tends(todo', Here)
    BY <1>1, <1>5, FailureTends
  <2> QED BY <1>1, <1>3, <2>1, SameLoop
<1>6. CASE s0.op = "pour" /\ ~Given(meta.formula) /\ todo' = AfterPourFailure(s0)
  <2>1. PourSuits(todo, Here, 1) /\ todo[1] = s0
    BY <1>1, <1>6, PourSuitsHere
  <2>2. Empty(Here)
    BY <1>1, <1>6, FirstSuits, HereIs DEF Placed
  <2>3. s0.key # "speculative"
    BY <2>1, <2>2 DEF PourSuits, Empty
  <2>4. todo' = AfterFailure(s0)
    BY <1>6, <2>3 DEF AfterPourFailure
  <2> QED BY <1>5, <2>4
<1> QED BY <1>2, <1>4, <1>5, <1>6

-----------------------------------------------------------------------------
(* Pours.                                                                  *)

\* What follows a pour that returned a wisp is a sequence of steps.
LEMMA AfterPourTyped ==
    ASSUME NEW n \in Nat, NEW s, s.key \in PourKeys, s.x \in 0..n, NEW i \in 0..n
    PROVE  AfterPour(s, i) \in Seq(Steps(n))
<1>1. CASE s.key # "create"
  <2>1. Fits(AfterPour(s, i), n, Now)
    BY <1>1, AfterPourFits
  <2> QED BY <2>1 DEF Fits
<1>2. CASE s.key = "create"
  <2>1. PICK c : c = [announced |-> FALSE, root |-> "open", state |-> "active"]
    OBVIOUS
  <2>2. ~c.announced /\ c.root = "open" /\ c.state \in Running
    BY <2>1 DEF Running
  <2> QED BY <1>2, <2>2, AfterCreatePour
<1> QED BY <1>1, <1>2

\* A pour returns a wisp, the one of its key or a new one.
LEMMA Pours ==
    ASSUME LoopInv, LoopInv', Held, todo # << >>, s0.op = "pour", Given(meta.formula),
           UNCHANGED <<loop, root, meta>>, wisp' = Poured(s0.w, s0.key),
           NEW i, i = (IF Found(s0.w) # None THEN Found(s0.w) ELSE Len(wisp) + 1)
    PROVE  Kept(Here') /\ Tends(AfterPour(s0, i) \o Tail(todo), Here')
<1>1. /\ PourSuits(todo, Here, 1) /\ todo[1].key \in PourKeys /\ todo[1].w \in Nat
      /\ todo[1] = s0 /\ PoursWell(todo, Here) /\ todo[1].key # "first"
  BY PourSuitsHere
<1>2. Len(wisp) \in Nat /\ s0 \in Steps(Len(wisp)) /\ Kept(Here) /\ Sized(Here) /\ TypeInv
  BY FirstSuits
<1>3. TypeInv' /\ s0.w \in Nat /\ s0.x \in 0..Len(wisp)
  BY <1>1, <1>2 DEF LoopInv, Steps
<1>4. s0.key = "manual" => Here.state = "waiting_manual"
  BY <1>1 DEF PourSuits
<1>5. /\ Kept(Here') /\ Returns(todo, Here', i) /\ Here'.state = Here.state
      /\ i \in 0..Len(wisp') /\ Len(wisp') \in Nat /\ Len(wisp') >= Len(wisp)
  <2>1. CASE Found(s0.w) # None
    <3>1. wisp' = wisp
      BY <2>1 DEF Poured
    <3>2. Here' = Here
      BY <3>1, SameHere
    <3>3. i = FindByIdempotencyKey(s0.w) /\ FindByIdempotencyKey(s0.w) # None
      BY <2>1 DEF Found
    <3>4. Finds(Here, i, todo[1].w)
      BY <1>1, <1>2, <3>3, HereFinds
    <3>5. Returns(todo, Here, i)
      BY <1>1, <1>2, <3>4, FindReturns
    <3>6. i \in 0..Len(wisp)
      BY <1>2, <3>3, FindIs
    <3>7. Len(wisp) >= Len(wisp)
      BY <1>2
    <3> QED BY <1>2, <3>1, <3>2, <3>5, <3>6, <3>7
  <2>2. CASE Found(s0.w) = None
    <3>1. Adds(Here, Here', Len(wisp) + 1, s0.w) /\ Len(wisp') = Len(wisp) + 1
      BY <1>3, <2>2, AddsHere
    <3>2. i = Len(wisp) + 1
      BY <2>2
    <3>3. Misses(Here, todo[1].w)
      BY <1>1, <1>2, <2>2, HereFinds DEF Found
    <3>4. Adds(Here, Here', i, todo[1].w)
      BY <1>1, <3>1, <3>2
    <3>5. Kept(Here') /\ Returns(todo, Here', i)
      BY <1>1, <1>2, <3>3, <3>4, AddKept, AddReturns
    <3>6. Here'.state = Here.state
      BY <3>4 DEF Adds, SameRoot
    <3>7. i \in 0..Len(wisp') /\ Len(wisp') \in Nat /\ Len(wisp') >= Len(wisp)
      BY <1>2, <3>1, <3>2
    <3> QED BY <3>5, <3>6, <3>7
  <2> QED BY <2>1, <2>2
<1>6. Tends(AfterPour(s0, i), Here')
  <2>1. Placed(Here')
    BY <1>5 DEF Kept
  <2>2. todo[1].key = "manual" => Here'.state = "waiting_manual"
    BY <1>1, <1>4, <1>5
  <2>3. todo[1].key \in PourKeys \ {"first"}
    BY <1>1
  <2>4. Tends(AfterPour(todo[1], i), Here')
    BY <1>5, <2>1, <2>2, <2>3, AfterPourTends
  <2> QED BY <1>1, <2>4
<1>7. AllStill(Tail(todo)) /\ Tail(todo) \in Seq(Steps(Len(wisp)))
  BY TailStill DEF Calls
<1>8. Tail(todo) \in Seq(Steps(Len(wisp')))
  BY <1>2, <1>5, <1>7, TypesGrow
<1>9. AfterPour(s0, i) \in Seq(Steps(Len(wisp')))
  <2>1. s0.x \in 0..Len(wisp') /\ s0.key \in PourKeys
    BY <1>1, <1>2, <1>3, <1>5
  <2> QED BY <1>5, <2>1, AfterPourTyped
<1>10. Tends(AfterPour(s0, i) \o Tail(todo), Here')
  BY <1>6, <1>7, <1>8, <1>9, StillAfter
<1> QED BY <1>5, <1>10

LEMMA PourWispHolds ==
    ASSUME LoopInv, LoopInv', Held, PourWisp
    PROVE  Held'
<1>1. PICK i : i = (IF Found(s0.w) # None THEN Found(s0.w) ELSE Len(wisp) + 1)
  OBVIOUS
<1>2. /\ todo # << >> /\ s0.op = "pour" /\ UNCHANGED <<loop, root, meta>>
      /\ wisp' = Poured(s0.w, s0.key) /\ todo' = AfterPour(s0, i) \o Tail(todo)
  BY <1>1 DEF PourWisp, At
<1>3. Given(meta.formula)
  BY Zenon DEF PourWisp, Given
<1>4. Kept(Here') /\ Tends(todo', Here')
  BY <1>1, <1>2, <1>3, Pours
<1>5. Unborn'
  BY <1>2, WorksOnARoot, Born DEF Held
<1> QED BY <1>4, <1>5 DEF Held

\* A pour ahead fails and leaves no wisp: the gate is evaluated all the same.
LEMMA GateAfterFailure ==
    ASSUME LoopInv, Held, todo # << >>, s0.op = "pour", s0.key = "speculative",
           Given(meta.formula), Found(s0.w) = None
    PROVE  Tends(AfterPourFailure(s0), Here)
<1>1. /\ PourSuits(todo, Here, 1) /\ todo[1] = s0 /\ PoursWell(todo, Here)
  BY PourSuitsHere
<1>2. Len(wisp) \in Nat /\ s0 \in Steps(Len(wisp)) /\ Kept(Here) /\ Sized(Here) /\ TypeInv
  BY FirstSuits
<1>3. Misses(Here, todo[1].w)
  BY <1>1, <1>2, HereFinds DEF Found
<1>4. Here.open = {} /\ Here.state = "active" /\ Here.active \in Here.shut /\ Here.active = s0.x
  BY <1>1, <1>2, <1>3, MissIs DEF PourSuits
<1>5. Judging(Here, s0.x) /\ Ahead(Here, None, "pour_failed")
  BY <1>4 DEF Judging, Ahead, AllOpen
<1>6. PICK g : g = Do("gate", s0.x, None, "pour_failed")
  OBVIOUS
<1>7. g.op = "gate" /\ g.w = s0.x /\ g.x = None /\ g.v = "pour_failed" /\ g.fail = "abort"
  BY <1>6, DoBits
<1>8. Tends(<<g>>, Here)
  BY <1>5, <1>7, JudgeTends DEF Judges
<1>9. g \in Steps(Len(wisp))
  <2>1. "gate" \in Calls \ {"pour"} /\ None \in 0..Len(wisp)
    BY <1>2, CallNames DEF None
  <2>2. "pour_failed" \in Values
    BY Zenon DEF Values
  <2>3. s0.x \in 0..Len(wisp)
    BY <1>2 DEF Steps
  <2> QED BY <1>2, <1>6, <2>1, <2>2, <2>3, LeafSteps
<1>10. AllStill(Tail(todo)) /\ Tail(todo) \in Seq(Steps(Len(wisp)))
  BY TailStill DEF Calls
<1>11. <<g>> \in Seq(Steps(Len(wisp)))
  BY <1>9
<1>12. Tends(<<g>> \o Tail(todo), Here)
  BY <1>8, <1>10, <1>11, StillAfter
<1>13. AfterPourFailure(s0) = <<g>> \o Tail(todo)
  BY <1>6 DEF AfterPourFailure
<1> QED BY <1>12, <1>13

\* A pour returns an error, with or without its wisp.
LEMMA PourFailsHolds ==
    ASSUME LoopInv, LoopInv', Held, PourFails
    PROVE  Held'
<1>1. /\ todo # << >> /\ s0.op = "pour" /\ UNCHANGED <<loop, root, meta>>
      /\ wisp' = wisp \/ wisp' = Poured(s0.w, s0.key)
  BY DEF PourFails, At
<1>2. Given(meta.formula)
  BY Zenon DEF PourFails, Given
<1>3. PICK i : i = (IF Found(s0.w) # None THEN Found(s0.w)
                    ELSE IF wisp' # wisp THEN Len(wisp') ELSE None)
  OBVIOUS
<1>4. todo' = IF i # None /\ s0.key \in {"speculative", "manual", "trigger"}
              THEN AfterPour(s0, i) \o Tail(todo) ELSE AfterPourFailure(s0)
  BY <1>3 DEF PourFails
<1>5. Unborn'
  BY <1>1, WorksOnARoot, Born DEF Held
<1>6. Len(wisp) \in Nat /\ Kept(Here) /\ s0 \in Steps(Len(wisp))
  BY <1>1, FirstSuits
<1>7. CASE wisp' = Poured(s0.w, s0.key)
  <2>1. PICK k : k = (IF Found(s0.w) # None THEN Found(s0.w) ELSE Len(wisp) + 1)
    OBVIOUS
  <2>2. Kept(Here') /\ Tends(AfterPour(s0, k) \o Tail(todo), Here')
    BY <1>1, <1>2, <1>7, <2>1, Pours
  <2>3. i = k /\ i # None
    <3>1. CASE Found(s0.w) # None
      BY <1>3, <2>1, <3>1
    <3>2. CASE Found(s0.w) = None
      <4>1. s0.w \in Nat
        BY <1>6 DEF Steps
      <4>2. Len(wisp') = Len(wisp) + 1
        BY <1>7, <3>2, <4>1, PouredIs
      <4>3. wisp' # wisp
        BY <1>6, <4>2
      <4> QED BY <1>3, <1>6, <2>1, <3>2, <4>2, <4>3 DEF None
    <3> QED BY <3>1, <3>2
  <2>4. CASE s0.key \in {"speculative", "manual", "trigger"}
    BY <1>4, <1>5, <2>2, <2>3, <2>4 DEF Held
  <2>5. CASE s0.key \notin {"speculative", "manual", "trigger"}
    <3>1. todo' = AfterFailure(s0)
      BY <1>4, <2>5 DEF AfterPourFailure
    <3>2. Tends(todo', Here')
      BY <1>1, <3>1, GivesUp
    <3> QED BY <1>5, <2>2, <3>2 DEF Held
  <2> QED BY <2>4, <2>5
<1>8. CASE wisp' = wisp /\ Found(s0.w) = None
  <2>1. i = None
    BY <1>3, <1>8
  <2>2. todo' = AfterPourFailure(s0)
    BY <1>4, <2>1
  <2>3. Here' = Here
    BY <1>1, <1>8, SameHere
  <2>4. Tends(todo', Here)
    <3>1. CASE s0.key = "speculative"
      BY <1>1, <1>2, <1>8, <2>2, <3>1, GateAfterFailure
    <3>2. CASE s0.key # "speculative"
      <4>1. todo' = AfterFailure(s0)
        BY <2>2, <3>2 DEF AfterPourFailure
      <4> QED BY <1>1, <4>1, GivesUp
    <3> QED BY <3>1, <3>2
  <2> QED BY <1>5, <1>6, <2>3, <2>4 DEF Held
<1>9. CASE wisp' = wisp /\ Found(s0.w) # None
  <2>1. Poured(s0.w, s0.key) = wisp
    BY <1>9 DEF Poured
  <2> QED BY <1>7, <1>9, <2>1
<1> QED BY <1>1, <1>7, <1>8, <1>9

-----------------------------------------------------------------------------
(* One agent at work.                                                      *)

\* The troubles are counted.
Counts == trouble \in [crash : Nat, fault : Nat, reap : Nat, reload : Nat]

LEMMA CountsNext ==
    ASSUME Counts, [Next]_vars
    PROVE  /\ Counts'
           /\ trouble'.reap = 0 => trouble.reap = 0 /\ ~Reap
<1>1. CASE UNCHANGED trouble
  <2>1. ~Reap
    <3>1. Reap => trouble' = [trouble EXCEPT !["reap"] = @ + 1]
      BY DEF Reap, Strikes
    <3> QED BY <1>1, <3>1 DEF Counts
  <2> QED BY <1>1, <2>1 DEF Counts
<1>2. CASE trouble' = [trouble EXCEPT !["crash"] = @ + 1] \/ trouble' = [trouble EXCEPT !["fault"] = @ + 1]
           \/ trouble' = [trouble EXCEPT !["reload"] = @ + 1]
  <2>1. trouble'.reap = trouble.reap
    BY <1>2 DEF Counts
  <2>2. Counts'
    BY <1>2 DEF Counts
  <2>3. ~Reap
    <3>1. Reap => trouble' = [trouble EXCEPT !["reap"] = @ + 1]
      BY DEF Reap, Strikes
    <3> QED BY <2>1, <3>1 DEF Counts
  <2> QED BY <2>1, <2>2, <2>3
<1>3. CASE trouble' = [trouble EXCEPT !["reap"] = @ + 1]
  BY <1>3 DEF Counts
<1>4. CASE Trouble
  BY <1>2, <1>3, <1>4 DEF Trouble, StoreFails, PourFails, ScanFails, Crash, Reload, Reap, Strikes
<1>5. CASE Command \/ HandleTrigger \/ Tick
  BY <1>1, <1>5 DEF Command, HandleTrigger, Tick, Create, Approve, Stop, IterateHandler, Begin
<1>6. CASE StoreStep
  BY <1>1, <1>6 DEF StoreStep, SetMetadata, SetReference, EmitEvent, CreateConvergenceBead,
                    CloseRootBead, CloseWisp, DeleteBead, ActivateWisp, SetWisp, PourWisp,
                    EvaluateGate, Expand, PopulateIndex, HandlerError
<1>7. CASE Restart \/ AgentCloses \/ UNCHANGED vars
  BY <1>1, <1>7 DEF Restart, AgentCloses, vars
<1> QED BY <1>4, <1>5, <1>6, <1>7 DEF Next

\* Every step but a reaping keeps what is held.
LEMMA HeldNext ==
    ASSUME LoopInv, LoopInv', Held, [Next]_vars, ~Reap
    PROVE  Held'
<1>1. CASE Command
  BY <1>1, CreateHolds, ApproveHolds, StopHolds, IterateHolds DEF Command
<1>2. CASE HandleTrigger
  BY <1>2, TriggerHolds
<1>3. CASE Tick
  BY <1>3, TickHolds
<1>4. CASE StoreStep
  BY <1>4, SetMetadataHolds, SetReferenceHolds, EmitEventHolds, RootHolds, CloseWispHolds,
     DeleteBeadHolds, ActivateWispHolds, PourWispHolds, EvaluateGateHolds, ExpandHolds,
     PopulateIndexHolds, HandlerErrorHolds DEF StoreStep
<1>5. CASE Restart \/ ScanFails \/ Crash \/ Reload \/ UNCHANGED vars
  <2>1. /\ UNCHANGED <<loop, root, meta, wisp>>
        /\ todo' = StartupReconcile \/ todo' = << >> \/ todo' = todo
    BY <1>5 DEF Restart, ScanFails, Crash, Reload, vars
  <2> QED BY <2>1, RestartHolds
<1>6. CASE AgentCloses
  BY <1>6, AgentHolds
<1>7. CASE Trouble
  BY <1>5, <1>7, StoreFailsHolds, PourFailsHolds DEF Trouble
<1> QED BY <1>1, <1>2, <1>3, <1>4, <1>5, <1>6, <1>7 DEF Next

\* At the start there is no wisp and nothing to do.
LEMMA HeldInit ==
    ASSUME Init
    PROVE  Held /\ Counts
<1>1. /\ root = "none" /\ wisp = << >> /\ todo = << >> /\ meta.active = None /\ meta.pending = None
  BY DEF Init
<1>2. ~Given(meta.state) /\ ~Given(meta.formula)
  BY Zenon DEF Init, Given
<1>3. LoopInv
  BY LoopInit
<1>4. TypeInv
  BY <1>3 DEF LoopInv
<1>5. Here.open = {} /\ Here.shut = {}
  <2>1. DOMAIN wisp = {}
    BY <1>1
  <2> QED BY <2>1, HereIs
<1>6. Here.count = 0
  BY <1>4, <1>5, HereCount, FS_EmptySet
<1>7. /\ Here.active = None /\ Here.pending = None /\ Here.state = meta.state
      /\ Here.formula = meta.formula
  BY <1>1, HereIs
<1>8. Here.state # "active" /\ Here.state \notin Waiting
  BY <1>2, <1>7, NamesAreGiven DEF Waiting
<1>9. OneOpen(Here) /\ Counted(Here)
  <2>1. 1..0 = {}
    OBVIOUS
  <2> QED BY <1>5, <1>6, <2>1 DEF OneOpen, Counted, AllOpen
<1>10. Placed(Here)
  BY <1>2, <1>5, <1>7, <1>8 DEF Placed, Empty, Waiting
<1>11. Tends(todo, Here) /\ Fresh(todo)
  BY <1>1, StartupTends
<1>12. Unborn
  BY <1>1, <1>2, <1>5, <1>11 DEF Unborn, Barren, Empty
<1>13. Counts
  BY DEF Init, Counts
<1> QED BY <1>9, <1>10, <1>11, <1>12, <1>13 DEF Held, Kept

\* While nobody else removes a wisp, everything the handler has left to do
\* suits the wisps there are, and at most one of them is open.
THEOREM WispsAreKept == Spec => []WispInv
<1>1. Init => Counts /\ WispInv
  BY HeldInit DEF WispInv
<1>2. LoopInv /\ LoopInv' /\ Counts /\ WispInv /\ [Next]_vars => Counts' /\ WispInv'
  BY CountsNext, HeldNext DEF WispInv
<1> QED BY <1>1, <1>2, LoopIsOrderly, PTL DEF Spec

\* Never two agents at work for one loop, whatever crashed or failed, over a
\* store that lists closed wisps and over one that does not.
THEOREM OneAgentWorks == Spec => []OneAgentAtWork
<1>1. TypeInv /\ WispInv => OneAgentAtWork
  <2> SUFFICES ASSUME TypeInv, WispInv, trouble.reap = 0
               PROVE  Cardinality({i \in DOMAIN wisp : wisp[i].st = "live"}) <= 1
    BY DEF OneAgentAtWork
  <2> DEFINE L == {i \in DOMAIN wisp : wisp[i].st = "live"}
  <2>1. \A i, j \in L : i = j
    <3>1. DOMAIN wisp = 1..Len(wisp)
      BY DEF TypeInv
    <3>2. \A i \in L : i \in Here.open
      BY <3>1, HereShaped DEF HereShape
    <3>3. OneOpen(Here)
      BY DEF WispInv, Held, Kept
    <3> QED BY <3>2, <3>3 DEF OneOpen
  <2> HIDE DEF L
  <2>2. CASE L = {}
    <3>1. Cardinality(L) = 0
      BY <2>2, FS_EmptySet
    <3> QED BY <3>1 DEF L
  <2>3. CASE L # {}
    <3>1. PICK i : i \in L
      BY <2>3
    <3>2. L = {i}
      BY <2>1, <3>1
    <3>3. Cardinality(L) = 1
      BY <3>2, FS_Singleton
    <3> QED BY <3>3 DEF L
  <2> QED BY <2>2, <2>3
<1>2. LoopInv => TypeInv
  BY DEF LoopInv
<1> QED BY <1>1, <1>2, WispsAreKept, LoopIsOrderly, PTL

=============================================================================
