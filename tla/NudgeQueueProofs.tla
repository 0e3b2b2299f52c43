--------------------------- MODULE NudgeQueueProofs ---------------------------
(* The nudge queue for every number of nudges, deliverers, lapses and failing  *)
(* calls: what the runs check on small instances.                              *)
EXTENDS NudgeQueue, FiniteSetTheorems, SequenceTheorems, WellFoundedInduction, TLAPS

----------------------------------------------------------------------------
(* Types.                                                                     *)

Ended == {"injected", "expired", "failed", "superseded", "gc-swept"}
NotInjected == Ended \ {"injected"}
Beads == [open : BOOLEAN, state : Ended \cup {"queued"}]
Items == [at : {"none", "pending", "inflight", "dead"}, due : BOOLEAN, leased : BOOLEAN,
          expired : BOOLEAN, old : BOOLEAN, tries : Nat,
          err : {"", "expired", "failed", "superseded"}, bead : Nat, epoch : Nat]
Jobs == [pc : {"absent", "idle", "claimed", "fenced", "checked", "ready", "sent",
               "declined", "errored"},
         ids : SUBSET Nudges, out : SUBSET Nudges]
Saves == [pc : {"idle", "saved", "queued", "done", "prepared", "canceled", "read", "marked"},
          bead : Nat, created : BOOLEAN]

StoreTypes == q \in [Nudges -> Items] /\ shadow \in [Nudges -> Seq(Beads)]

TypeInv ==
    /\ StoreTypes
    /\ worker \in [Workers -> Jobs]
    /\ sender \in [Plain -> Saves]
    /\ tick \in Saves
    /\ cancel \in Saves
    /\ wait \in {"none", "ready", "closed", "failed", "expired", "canceled"}
    /\ epoch \in Nat
    /\ delivered \in [Nudges -> Nat]
    /\ lapses \in [Nudges -> Nat]
    /\ errors \in [Nudges -> Nat]
    /\ posts \in [Nudges -> Nat]

----------------------------------------------------------------------------
(* Deliveries are paid for.                                                   *)

\* A deliverer at one of these places may still deliver what it claimed, or hand
\* it back to the queue.
Holding == {"claimed", "fenced", "checked", "ready", "declined", "errored"}
Holds(w, i) == i \in w.ids /\ w.pc \in Holding
Holders(i) == {p \in Workers : Holds(worker[p], i)}

\* An item that the next transaction may find pending without another lapse.
Free(it) == it.at = "pending" \/ (it.at = "inflight" /\ ~it.leased)
One(b) == IF b THEN 1 ELSE 0

\* Each post, each lapse and each late error buys one delivery, and a delivery is
\* spent, held by a deliverer or free in the queue.
DeliveriesPaid ==
    \A i \in Nudges :
        delivered[i] + Cardinality(Holders(i)) + One(Free(q[i])) <= posts[i] + lapses[i] + errors[i]

----------------------------------------------------------------------------
(* What the shadows and the deliverers say of the wait and of the deliveries.  *)

\* Nobody is past its delivery but after one, and only the nudge of a wait that
\* has ended is held back.
JobsAgree ==
    \A p \in Workers :
        /\ worker[p].pc = "sent" => \A i \in worker[p].ids : delivered[i] > 0
        /\ worker[p].pc = "checked" => worker[p].out \subseteq {WaitNudge} /\ wait # "ready"

\* A bead says injected only of a nudge that was delivered.
InjectedIsTrue ==
    \A i \in Nudges : \A k \in DOMAIN shadow[i] :
        shadow[i][k].state = "injected" => delivered[i] > 0

CancelEnds == cancel.pc # "idle" => wait # "ready"

NudgeInv ==
    /\ TypeInv
    /\ DeliveriesPaid
    /\ JobsAgree
    /\ InjectedIsTrue
    /\ CancelEnds
    /\ ClosedMeansDelivered
    /\ NoNudgeVanishes

----------------------------------------------------------------------------
(* The shadows of one nudge.                                                  *)

\* A set of naturals that is not empty has a least element.
LEMMA LeastOf ==
    ASSUME NEW T \in SUBSET Nat, T # {}
    PROVE  \E x \in T : \A y \in T : x <= y
<1> DEFINE Less == {ss \in Nat \X Nat : ss[1] < ss[2]}
<1>1. IsWellFoundedOn(Less, Nat)
  BY NatLessThanWellFounded DEF OpToRel
<1>2. T \subseteq Nat
  OBVIOUS
<1>3. \E x \in T : \A y \in T : ~(<<y, x>> \in Less)
  <2> HIDE DEF Less
  <2> QED BY <1>1, <1>2, WFMin, Zenon
<1>4. PICK x \in T : \A y \in T : ~(<<y, x>> \in Less)
  BY <1>3
<1>5. ASSUME NEW y \in T PROVE x <= y
  <2>1. <<y, x>> \in Nat \X Nat
    OBVIOUS
  <2> QED BY <2>1, <1>4
<1> QED BY <1>5

\* Max is an element of the set it is taken of.
LEMMA MaxIsOf ==
    ASSUME NEW n \in Nat, NEW T \in SUBSET (1..n), T # {}
    PROVE  Max(T) \in T
<1> DEFINE M == {m \in Nat : n - m \in T}
<1>1. \A k \in T : k \in Nat /\ n - k \in Nat /\ n - (n - k) = k
  OBVIOUS
<1>2. \A k \in T : n - k \in M
  BY <1>1
<1>3. M \in SUBSET Nat /\ M # {}
  BY <1>2
<1>4. PICK m \in M : \A y \in M : m <= y
  <2> HIDE DEF M
  <2> QED BY <1>3, LeastOf
<1>5. m \in Nat /\ n - m \in T
  BY <1>4
<1>6. \A y \in T : m <= n - y
  BY <1>2, <1>4
<1>7. \A y \in T : n - m >= y
  BY <1>1, <1>5, <1>6
<1> QED BY <1>5, <1>7 DEF Max

\* Find answers with the position of a bead, or with none.
LEMMA FindIs ==
    ASSUME NEW sh \in Seq(Beads), NEW b \in BOOLEAN
    PROVE  Find(sh, b) = 0 \/ Find(sh, b) \in 1..Len(sh)
<1> DEFINE open == {k \in DOMAIN sh : sh[k].open}
           seen == open \cup {k \in DOMAIN sh : IsTerminalState(sh[k].state)}
<1>1. Len(sh) \in Nat /\ DOMAIN sh = 1..Len(sh)
  OBVIOUS
<1>2. open # {} => Max(open) \in 1..Len(sh)
  BY <1>1, MaxIsOf
<1>3. seen # {} => Max(seen) \in 1..Len(sh)
  BY <1>1, MaxIsOf
<1>4. Len(sh) = 0 \/ Len(sh) \in 1..Len(sh)
  BY <1>1
<1>5. Find(sh, b) = IF ~b THEN (IF open = {} THEN 0 ELSE Max(open))
                    ELSE IF seen = {} THEN Len(sh) ELSE Max(seen)
  BY DEF Find
<1> HIDE DEF open, seen
<1> QED BY <1>2, <1>3, <1>4, <1>5

\* What the steps do to the shadows of one nudge: a bead keeps its state or ends
\* in one of the given states, and new beads are queued.
Follows(s, t, ends) ==
    /\ t \in Seq(Beads)
    /\ Len(s) <= Len(t)
    /\ \A k \in 1..Len(s) : t[k].state \in {s[k].state} \cup ends
    /\ \A k \in 1..Len(t) : k > Len(s) => t[k].state = "queued"

\* To leave the shadows alone is to follow them.
LEMMA FollowsSelf ==
    ASSUME NEW s \in Seq(Beads), NEW ends
    PROVE  Follows(s, s, ends)
BY DEF Follows

\* Two changes in a row are one.
LEMMA FollowsOn ==
    ASSUME NEW s \in Seq(Beads), NEW t, NEW u, NEW ends, NEW more,
           ends \subseteq Ended, Follows(s, t, ends), Follows(t, u, more), ends \subseteq more,
           Len(t) = Len(s)
    PROVE  Follows(s, u, more)
BY DEF Follows

\* A change allowed by fewer states is allowed by more.
LEMMA FollowsMore ==
    ASSUME NEW s, NEW t, NEW ends, NEW more, Follows(s, t, ends), ends \subseteq more
    PROVE  Follows(s, t, more)
BY DEF Follows

\* Terminalize writes its state to one bead at most.
LEMMA TerminalizeFollows ==
    ASSUME NEW it, NEW sh \in Seq(Beads), NEW state \in Ended, NEW mode
    PROVE  Follows(sh, Terminalize(it, sh, state, mode), {state})
           /\ Len(Terminalize(it, sh, state, mode)) = Len(sh)
<1> DEFINE b == BeadOf(it, sh)
           t == [sh EXCEPT ![b].state = state, ![b].open = IF mode = "half" THEN @ ELSE FALSE]
<1>1. CASE b = 0 \/ mode \in {"nil", "err"}
  BY <1>1, FollowsSelf DEF Terminalize
<1>2. CASE ~(b = 0 \/ mode \in {"nil", "err"})
  <2>1. Terminalize(it, sh, state, mode) = t
    BY <1>2 DEF Terminalize
  <2> HIDE DEF b
  <2>2. DOMAIN t = DOMAIN sh
    OBVIOUS
  <2>4. ASSUME NEW k \in 1..Len(sh) PROVE t[k] \in Beads
    <3>1. sh[k] \in Beads
      OBVIOUS
    <3>2. CASE k # b
      BY <3>1, <3>2
    <3>3. CASE k = b
      <4>1. PICK o \in BOOLEAN : o = IF mode = "half" THEN sh[b].open ELSE FALSE
        BY <3>1, <3>3 DEF Beads
      <4>2. t = [sh EXCEPT ![k].state = state, ![k].open = o]
        BY <3>3, <4>1
      <4> HIDE DEF t
      <4>3. t[k] = [sh[k] EXCEPT !.state = state, !.open = o]
        <5> DEFINE v == [sh EXCEPT ![k].state = state]
        <5>1. k \in DOMAIN v /\ v[k] = [sh[k] EXCEPT !.state = state]
          OBVIOUS
        <5>2. t = [v EXCEPT ![k].open = o]
          BY <4>2
        <5> HIDE DEF v
        <5> QED BY <5>1, <5>2
      <4> QED BY <3>1, <4>3 DEF Beads
    <3> QED BY <3>2, <3>3
  <2>5. t \in [1..Len(sh) -> Beads]
    <3>1. DOMAIN t = 1..Len(sh)
      BY <2>2
    <3>2. t = [k \in DOMAIN t |-> t[k]]
      OBVIOUS
    <3> HIDE DEF t
    <3> QED BY <2>4, <3>1, <3>2
  <2>6. t \in Seq(Beads) /\ Len(t) = Len(sh)
    <3> HIDE DEF t
    <3> QED BY <2>5
  <2>3. \A k \in 1..Len(sh) : t[k].state \in {sh[k].state, state}
    BY DEF Beads
  <2> HIDE DEF t
  <2> QED BY <2>1, <2>3, <2>6 DEF Follows
<1> QED BY <1>1, <1>2

\* A new bead is queued.
LEMMA SaveFollows ==
    ASSUME NEW sh \in Seq(Beads), NEW ends
    PROVE  Follows(sh, Save(sh), ends)
<1>1. [open |-> TRUE, state |-> "queued"] \in Beads
  BY DEF Beads
<1> QED BY <1>1 DEF Follows, Save

\* To close a bead is to follow it.
LEMMA CloseFollows ==
    ASSUME NEW sh \in Seq(Beads), NEW k, NEW ends
    PROVE  Follows(sh, [sh EXCEPT ![k].open = FALSE], ends)
<1> DEFINE t == [sh EXCEPT ![k].open = FALSE]
<1>1. ASSUME NEW j \in 1..Len(sh) PROVE t[j] \in Beads /\ t[j].state = sh[j].state
  <2>1. sh[j] \in Beads
    OBVIOUS
  <2>2. CASE j # k
    BY <2>1, <2>2
  <2>3. CASE j = k
    <3>1. PICK o \in BOOLEAN : o = FALSE
      OBVIOUS
    <3>2. j \in DOMAIN sh /\ t = [sh EXCEPT ![j].open = o]
      <4>1. o = FALSE
        BY <3>1
      <4>2. t = [sh EXCEPT ![j].open = o]
        BY <2>3, <4>1, Zenon
      <4> QED BY <4>2
    <3> HIDE DEF t
    <3>3. t[j] = [sh[j] EXCEPT !.open = o]
      BY <3>2
    <3> QED BY <2>1, <3>3 DEF Beads
  <2> QED BY <2>2, <2>3
<1>2. DOMAIN t = 1..Len(sh)
  OBVIOUS
<1>3. t \in [1..Len(sh) -> Beads]
  <2>1. t = [j \in DOMAIN t |-> t[j]]
    OBVIOUS
  <2> HIDE DEF t
  <2> QED BY <1>1, <1>2, <2>1
<1> HIDE DEF t
<1>4. t \in Seq(Beads) /\ Len(t) = Len(sh)
  BY <1>3
<1>5. Follows(sh, t, ends)
  BY <1>1, <1>4 DEF Follows
<1> QED BY <1>5 DEF t

\* A record found terminal is there.
LEMMA TerminalIsRecorded ==
    ASSUME NEW sh \in Seq(Beads), HasTerminal(sh)
    PROVE  Recorded(sh)
<1>1. PICK k : k = Find(sh, TRUE)
  OBVIOUS
<1>2. k = 0 \/ k \in 1..Len(sh)
  BY <1>1, FindIs
<1>3. k # 0 /\ IsTerminalState(sh[k].state)
  BY <1>1 DEF HasTerminal
<1> QED BY <1>2, <1>3 DEF Recorded

----------------------------------------------------------------------------
(* What maintenance may do to one nudge: nothing that is not live comes to     *)
(* life or falls free, and a letter is dropped only with its record.           *)

Kept(i, r) ==
    /\ r = [it |-> r.it, sh |-> r.sh]
    /\ r.it \in Items
    /\ Follows(shadow[i], r.sh, NotInjected)
    /\ Len(r.sh) = Len(shadow[i])
    /\ Free(r.it) => Free(q[i])
    /\ Live(r.it) => Live(q[i])
    /\ r.it.at = "none" => q[i].at = "none" \/ Recorded(r.sh)

LEMMA RecoveredSound ==
    ASSUME NEW x \in Items
    PROVE  /\ Recovered(x) \in Items
           /\ Free(Recovered(x)) => Free(x)
           /\ Live(Recovered(x)) => Live(x)
           /\ Recovered(x).at = "none" => x.at = "none"
<1>1. CASE Live(x) /\ x.expired
  <2>1. Recovered(x) = [x EXCEPT !.at = "dead", !.old = FALSE,
                                 !.err = IF x.err = "" THEN "expired" ELSE x.err]
    BY <1>1 DEF Recovered
  <2>2. (IF x.err = "" THEN "expired" ELSE x.err) \in {"", "expired", "failed", "superseded"}
    BY DEF Items
  <2> QED BY <2>1, <2>2 DEF Items, Free, Live
<1>2. CASE ~(Live(x) /\ x.expired) /\ x.at = "inflight" /\ ~x.leased
  <2>1. Recovered(x) = [x EXCEPT !.at = "pending", !.due = TRUE]
    BY <1>2 DEF Recovered
  <2> QED BY <2>1, <1>2 DEF Items, Free, Live
<1>3. CASE ~(Live(x) /\ x.expired) /\ ~(x.at = "inflight" /\ ~x.leased)
  BY <1>3 DEF Recovered
<1> QED BY <1>1, <1>2, <1>3

LEMMA BlankIsItem == Blank \in Items /\ ~Free(Blank) /\ ~Live(Blank)
BY DEF Blank, Items, Free, Live

LEMMA TendSound ==
    ASSUME StoreTypes, NEW i \in Nudges, NEW mode
    PROVE  Kept(i, Tend(i, mode))
<1> DEFINE it == Recovered(q[i])
           sh1 == IF it.at = "dead" /\ Live(q[i])
                  THEN Terminalize(it, shadow[i], "expired", mode) ELSE shadow[i]
           sh2 == Repaired(it, sh1, mode)
           confirmed == IF mode = "half" THEN sh1 ELSE sh2
           r == [it |-> IF Pruned(it, confirmed, mode) THEN Blank ELSE it, sh |-> sh2]
<1>1. Tend(i, mode) = r
  BY DEF Tend
<1>2. shadow[i] \in Seq(Beads) /\ q[i] \in Items
  BY DEF StoreTypes
<1>3. /\ it \in Items /\ (Free(it) => Free(q[i])) /\ (Live(it) => Live(q[i]))
      /\ it.at = "none" => q[i].at = "none"
  BY <1>2, RecoveredSound
<1> HIDE DEF it
<1>4. Follows(shadow[i], sh1, NotInjected) /\ Len(sh1) = Len(shadow[i]) /\ sh1 \in Seq(Beads)
  <2>1. Follows(shadow[i], shadow[i], NotInjected)
    BY <1>2, FollowsSelf
  <2>2. "expired" \in Ended /\ {"expired"} \subseteq NotInjected
    BY DEF Ended, NotInjected
  <2>3. /\ Follows(shadow[i], Terminalize(it, shadow[i], "expired", mode), {"expired"})
        /\ Len(Terminalize(it, shadow[i], "expired", mode)) = Len(shadow[i])
    BY <1>2, <2>2, TerminalizeFollows
  <2>4. Follows(shadow[i], Terminalize(it, shadow[i], "expired", mode), NotInjected)
    BY <2>2, <2>3, FollowsMore
  <2>5. Follows(shadow[i], sh1, NotInjected) /\ Len(sh1) = Len(shadow[i])
    BY <2>1, <2>3, <2>4
  <2> QED BY <2>5 DEF Follows
<1> HIDE DEF sh1
<1>5. /\ Follows(sh1, sh2, NotInjected) /\ Len(sh2) = Len(sh1)
      /\ HasTerminal(sh1) => sh2 = sh1
  <2>1. DeadState(it) \in Ended /\ {DeadState(it)} \subseteq NotInjected
    BY DEF Ended, NotInjected, DeadState
  <2>2. /\ Follows(sh1, Terminalize(it, sh1, DeadState(it), mode), {DeadState(it)})
        /\ Len(Terminalize(it, sh1, DeadState(it), mode)) = Len(sh1)
    BY <1>4, <2>1, TerminalizeFollows
  <2>3. Follows(sh1, Terminalize(it, sh1, DeadState(it), mode), NotInjected)
    BY <2>1, <2>2, FollowsMore
  <2>4. Follows(sh1, sh1, NotInjected)
    BY <1>4, FollowsSelf
  <2> QED BY <2>2, <2>3, <2>4 DEF Repaired
<1>6. sh2 \in Seq(Beads)
  BY <1>5 DEF Follows
<1> HIDE DEF sh2
<1>7. Follows(shadow[i], sh2, NotInjected) /\ Len(sh2) = Len(shadow[i])
  <2>1. NotInjected \subseteq Ended
    BY DEF NotInjected
  <2> QED BY <1>2, <1>4, <1>5, <2>1, FollowsOn
<1>8. Pruned(it, confirmed, mode) => Recorded(sh2)
  <2>1. ASSUME Pruned(it, confirmed, mode) PROVE HasTerminal(sh2)
    BY <2>1, <1>5 DEF Pruned
  <2> QED BY <2>1, <1>6, TerminalIsRecorded
<1> DEFINE x == IF Pruned(it, confirmed, mode) THEN Blank ELSE it
<1>9. /\ x \in Items /\ (Free(x) => Free(q[i])) /\ (Live(x) => Live(q[i]))
      /\ x.at = "none" => q[i].at = "none" \/ Recorded(sh2)
  <2> HIDE DEF confirmed
  <2>1. CASE Pruned(it, confirmed, mode)
    BY <2>1, <1>8, BlankIsItem
  <2>2. CASE ~Pruned(it, confirmed, mode)
    BY <2>2, <1>3
  <2> QED BY <2>1, <2>2
<1> HIDE DEF x
<1>10. r = [it |-> x, sh |-> sh2]
  BY DEF x
<1> HIDE DEF r
<1>11. r.it = x /\ r.sh = sh2 /\ r = [it |-> r.it, sh |-> r.sh]
  BY <1>10
<1> QED BY <1>1, <1>7, <1>9, <1>11 DEF Kept

LEMMA TendedSound ==
    ASSUME StoreTypes, NEW S, NEW mode, NEW i \in Nudges
    PROVE  Kept(i, Tended(S, mode)[i])
<1>1. CASE i \in S
  BY <1>1, TendSound DEF Tended
<1>2. CASE i \notin S
  <2> DEFINE r == [it |-> q[i], sh |-> shadow[i]]
  <2>1. Tended(S, mode)[i] = r
    BY <1>2 DEF Tended
  <2>2. r.it = q[i] /\ r.sh = shadow[i] /\ r = [it |-> r.it, sh |-> r.sh]
    OBVIOUS
  <2>3. q[i] \in Items /\ shadow[i] \in Seq(Beads)
    BY DEF StoreTypes
  <2>4. Follows(shadow[i], shadow[i], NotInjected)
    BY <2>3, FollowsSelf
  <2> HIDE DEF r
  <2> QED BY <2>1, <2>2, <2>3, <2>4 DEF Kept
<1> QED BY <1>1, <1>2

----------------------------------------------------------------------------
(* What a step may do to one nudge.                                           *)

\* Its beads end in the given states only; and it leaves the queue with its
\* record, or alive and with leave.
Moves(i, ends, leave) ==
    /\ q'[i] \in Items
    /\ Follows(shadow[i], shadow'[i], ends)
    /\ q'[i].at = "none" => \/ q[i].at = "none"
                            \/ Recorded(shadow'[i])
                            \/ leave /\ Live(q[i])

StoreIsFun == /\ q' = [i \in Nudges |-> q'[i]]
              /\ shadow' = [i \in Nudges |-> shadow'[i]]

LEMMA CommitIs ==
    ASSUME NEW t, Commit(t)
    PROVE  StoreIsFun /\ \A i \in Nudges : q'[i] = t[i].it /\ shadow'[i] = t[i].sh
BY DEF Commit, StoreIsFun

LEMMA AbortIs ==
    ASSUME StoreTypes, NEW t, Abort(t)
    PROVE  StoreIsFun /\ \A i \in Nudges : q'[i] = q[i] /\ shadow'[i] = t[i].sh
BY DEF Abort, StoreIsFun, StoreTypes

\* A nudge that a transaction only tends moves as maintenance moves it.
LEMMA KeptMoves ==
    ASSUME NEW i \in Nudges, NEW r, Kept(i, r), q'[i] \in {r.it, q[i]}, shadow'[i] = r.sh,
           StoreTypes
    PROVE  Moves(i, NotInjected, FALSE) /\ (Free(q'[i]) => Free(q[i]))
BY DEF Kept, Moves, StoreTypes

\* Marking the bead of a nudge that was tended.
LEMMA MarkFollows ==
    ASSUME StoreTypes, NEW i \in Nudges, NEW r, Kept(i, r), NEW it, NEW state \in Ended, NEW mode
    PROVE  Follows(shadow[i], Terminalize(it, r.sh, state, mode), NotInjected \cup {state})
<1>1. r.sh \in Seq(Beads) /\ shadow[i] \in Seq(Beads)
  BY DEF Kept, Follows, StoreTypes
<1>2. Follows(r.sh, Terminalize(it, r.sh, state, mode), {state})
  BY <1>1, TerminalizeFollows
<1>3. Follows(r.sh, Terminalize(it, r.sh, state, mode), NotInjected \cup {state})
  BY <1>2, FollowsMore
<1>4. NotInjected \subseteq Ended /\ NotInjected \subseteq NotInjected \cup {state}
  BY DEF NotInjected
<1>5. Follows(shadow[i], r.sh, NotInjected) /\ Len(r.sh) = Len(shadow[i])
  BY DEF Kept
<1> QED BY <1>1, <1>3, <1>4, <1>5, FollowsOn

\* An acknowledgement takes out what it names; a broken one marks beads and
\* leaves the queue alone.
LEMMA AckMoves ==
    ASSUME StoreTypes, NEW ids, NEW outcome \in Ended, NEW mode,
           NEW dies \in BOOLEAN, AckTxn(ids, outcome, mode, dies)
    PROVE  /\ StoreIsFun
           /\ \A i \in Nudges :
                 /\ i \in ids => Moves(i, NotInjected \cup {outcome}, TRUE)
                 /\ i \notin ids => Moves(i, NotInjected, FALSE)
                 /\ Free(q'[i]) => Free(q[i])
<1> DEFINE t == Tended(Nudges, mode)
           hit == {i \in ids : Live(t[i].it)}
           bad == {i \in hit : TerminalizeFails(t[i].it, t[i].sh, mode)}
           sh(i) == Terminalize(t[i].it, t[i].sh, outcome, mode)
           marked(i) == [t[i] EXCEPT !.sh = sh(i)]
<1>1. \/ \E b \in bad : Abort([t EXCEPT ![b] = marked(b)])
      \/ Abort([i \in Nudges |-> IF i \in hit THEN marked(i) ELSE t[i]])
      \/ Commit([i \in Nudges |-> IF i \in hit
                   THEN [marked(i) EXCEPT !.it = Blank] ELSE t[i]])
  BY DEF AckTxn
<1>2. \A i \in Nudges : Kept(i, t[i])
  BY TendedSound
<1>3. DOMAIN t = Nudges
  BY DEF Tended
<1> HIDE DEF t
<1>4. \A i \in Nudges : marked(i).it = t[i].it /\ marked(i).sh = sh(i)
                        /\ [marked(i) EXCEPT !.it = Blank].it = Blank
                        /\ [marked(i) EXCEPT !.it = Blank].sh = sh(i)
  <2> SUFFICES ASSUME NEW i \in Nudges
               PROVE  marked(i).it = t[i].it /\ marked(i).sh = sh(i)
                        /\ [marked(i) EXCEPT !.it = Blank].it = Blank
                        /\ [marked(i) EXCEPT !.it = Blank].sh = sh(i)
    OBVIOUS
  <2>1. t[i] = [it |-> t[i].it, sh |-> t[i].sh]
    BY <1>2 DEF Kept
  <2> HIDE DEF sh
  <2>2. marked(i) = [it |-> t[i].it, sh |-> sh(i)]
    BY <2>1
  <2> HIDE DEF marked
  <2> QED BY <2>2
<1>5. \A i \in Nudges : Follows(shadow[i], sh(i), NotInjected \cup {outcome})
  BY <1>2, MarkFollows
<1> HIDE DEF sh, marked, bad
<1>6. \A i \in Nudges : i \in hit => i \in ids /\ Live(t[i].it)
  OBVIOUS
<1> HIDE DEF hit
<1>7. \A i \in Nudges : q[i] \in Items
  BY DEF StoreTypes
<1>8. /\ StoreIsFun
      /\ \A i \in Nudges :
            \/ q'[i] \in {t[i].it, q[i]} /\ shadow'[i] = t[i].sh
            \/ i \in ids /\ q'[i] = q[i] /\ shadow'[i] = sh(i)
            \/ i \in hit /\ q'[i] = Blank /\ shadow'[i] = sh(i)
  <2>1. ASSUME NEW b \in bad, Abort([t EXCEPT ![b] = marked(b)])
        PROVE  /\ StoreIsFun
               /\ \A i \in Nudges : q'[i] = q[i] /\ shadow'[i] \in {t[i].sh, sh(i)}
                                     /\ (shadow'[i] = t[i].sh \/ i \in ids)
    <3>1. b \in ids
      BY DEF bad, hit
    <3>2. \A i \in Nudges : [t EXCEPT ![b] = marked(b)][i] = IF i = b THEN marked(b) ELSE t[i]
      BY <1>3
    <3> DEFINE u == [t EXCEPT ![b] = marked(b)]
    <3>3. /\ StoreIsFun
          /\ \A i \in Nudges : q'[i] = q[i] /\ shadow'[i] = u[i].sh
      <4>1. Abort(u)
        BY <2>1
      <4> HIDE DEF u
      <4> QED BY <4>1, AbortIs
    <3>4. \A i \in Nudges : u[i].sh = IF i = b THEN sh(b) ELSE t[i].sh
      BY <3>2, <1>4
    <3> HIDE DEF u
    <3> QED BY <3>1, <3>3, <3>4
  <2>2. ASSUME Abort([i \in Nudges |-> IF i \in hit THEN marked(i) ELSE t[i]])
        PROVE  /\ StoreIsFun
               /\ \A i \in Nudges : q'[i] = q[i] /\ shadow'[i] \in {t[i].sh, sh(i)}
                                     /\ (shadow'[i] = t[i].sh \/ i \in ids)
    BY <2>2, <1>4, <1>6, AbortIs
  <2>3. ASSUME Commit([i \in Nudges |-> IF i \in hit
                         THEN [marked(i) EXCEPT !.it = Blank] ELSE t[i]])
        PROVE  /\ StoreIsFun
               /\ \A i \in Nudges : \/ q'[i] = t[i].it /\ shadow'[i] = t[i].sh
                                    \/ i \in hit /\ q'[i] = Blank /\ shadow'[i] = sh(i)
    <3> DEFINE u == [i \in Nudges |-> IF i \in hit
                      THEN [marked(i) EXCEPT !.it = Blank] ELSE t[i]]
    <3>1. /\ StoreIsFun
          /\ \A i \in Nudges : q'[i] = u[i].it /\ shadow'[i] = u[i].sh
      <4>1. Commit(u)
        BY <2>3
      <4> HIDE DEF u
      <4> QED BY <4>1, CommitIs
    <3>2. \A i \in Nudges : i \in hit => u[i].it = Blank /\ u[i].sh = sh(i)
      BY <1>4
    <3>3. \A i \in Nudges : i \notin hit => u[i] = t[i]
      OBVIOUS
    <3> HIDE DEF u
    <3> QED BY <3>1, <3>2, <3>3
  <2> QED BY <2>1, <2>2, <2>3, <1>1
<1>9. ASSUME NEW i \in Nudges
      PROVE  /\ i \in ids => Moves(i, NotInjected \cup {outcome}, TRUE)
             /\ i \notin ids => Moves(i, NotInjected, FALSE)
             /\ Free(q'[i]) => Free(q[i])
  <2>1. CASE q'[i] \in {t[i].it, q[i]} /\ shadow'[i] = t[i].sh
    <3>1. Moves(i, NotInjected, FALSE) /\ (Free(q'[i]) => Free(q[i]))
      BY <2>1, <1>2, KeptMoves
    <3>2. Moves(i, NotInjected \cup {outcome}, TRUE)
      BY <3>1, FollowsMore DEF Moves
    <3> QED BY <3>1, <3>2
  <2>2. CASE i \in ids /\ q'[i] = q[i] /\ shadow'[i] = sh(i)
    BY <2>2, <1>5, <1>7 DEF Moves
  <2>3. CASE i \in hit /\ q'[i] = Blank /\ shadow'[i] = sh(i)
    <3>1. i \in ids /\ Live(q[i])
      BY <2>3, <1>2, <1>6 DEF Kept
    <3> QED BY <2>3, <3>1, <1>5, BlankIsItem DEF Moves
  <2> QED BY <2>1, <2>2, <2>3, <1>8
<1> QED BY <1>8, <1>9

\* A failure is counted, and the nudge dead or waiting for its retry.
LEMMA FailedSound ==
    ASSUME NEW x \in Items, NEW fenced \in BOOLEAN
    PROVE  /\ Failed(x, fenced) \in Items
           /\ Failed(x, fenced).at \in {"dead", "pending"}
           /\ fenced => Failed(x, fenced).at = "dead"
<1> DEFINE f == [x EXCEPT !.tries = @ + 1, !.err = "failed", !.leased = FALSE]
<1>1. f \in Items
  <2>0. x.tries \in Nat
    BY DEF Items
  <2>1. PICK n \in Nat : n = x.tries + 1
    BY <2>0
  <2>2. f = [x EXCEPT !.tries = n, !.err = "failed", !.leased = FALSE]
    BY <2>1
  <2> HIDE DEF f
  <2> QED BY <2>2 DEF Items
<1> HIDE DEF f
<1>2. \/ Failed(x, fenced) = [f EXCEPT !.at = "dead", !.old = FALSE]
      \/ ~fenced /\ Failed(x, fenced) = [f EXCEPT !.at = "pending", !.due = FALSE]
  BY DEF Failed, f
<1> QED BY <1>1, <1>2 DEF Items

\* A recorded failure frees only what it names, and nothing if it is the fence's.
LEMMA FailureMoves ==
    ASSUME StoreTypes, NEW ids, NEW fenced \in BOOLEAN, RecordFailure(ids, fenced)
    PROVE  /\ StoreIsFun
           /\ \A i \in Nudges :
                 /\ Moves(i, NotInjected, FALSE)
                 /\ Free(q'[i]) => Free(q[i]) \/ (i \in ids /\ ~fenced)
<1>1. PICK mode \in Modes :
        \E t \in {Tended(Nudges, mode)} :
        LET hit == {i \in ids : Live(t[i].it)}
            after(i) == Failed(t[i].it, fenced)
        IN  Commit([i \in Nudges |-> IF i \notin hit THEN t[i]
                         ELSE [it |-> after(i),
                               sh |-> IF after(i).at = "dead"
                                      THEN Terminalize(after(i), t[i].sh, "failed", mode)
                                      ELSE t[i].sh]])
  BY DEF RecordFailure
<1> DEFINE t == Tended(Nudges, mode)
           hit == {i \in ids : Live(t[i].it)}
           after(i) == Failed(t[i].it, fenced)
           sh(i) == IF after(i).at = "dead"
                    THEN Terminalize(after(i), t[i].sh, "failed", mode) ELSE t[i].sh
           u == [i \in Nudges |-> IF i \notin hit THEN t[i] ELSE [it |-> after(i), sh |-> sh(i)]]
<1>2. Commit(u)
  BY <1>1
<1>3. \A i \in Nudges : Kept(i, t[i])
  BY TendedSound
<1> HIDE DEF t
<1>4. StoreIsFun /\ \A i \in Nudges : q'[i] = u[i].it /\ shadow'[i] = u[i].sh
  <2> HIDE DEF u
  <2> QED BY <1>2, CommitIs
<1>5. ASSUME NEW i \in Nudges
      PROVE  /\ Moves(i, NotInjected, FALSE)
             /\ Free(q'[i]) => Free(q[i]) \/ (i \in ids /\ ~fenced)
  <2>1. CASE i \notin hit
    <3>1. u[i] = t[i]
      BY <2>1
    <3> QED BY <3>1, <1>3, <1>4, KeptMoves
  <2>2. CASE i \in hit
    <3>1. u[i] = [it |-> after(i), sh |-> sh(i)]
      BY <2>2
    <3>2. q'[i] = after(i) /\ shadow'[i] = sh(i)
      <4> HIDE DEF u, after, sh
      <4> QED BY <3>1, <1>4
    <3>3. /\ after(i) \in Items /\ after(i).at \in {"dead", "pending"}
          /\ fenced => after(i).at = "dead"
      BY <1>3, FailedSound DEF Kept
    <3>4. Follows(shadow[i], sh(i), NotInjected)
      <4>1. "failed" \in Ended /\ NotInjected \cup {"failed"} = NotInjected
        BY DEF Ended, NotInjected
      <4>2. Follows(shadow[i], Terminalize(after(i), t[i].sh, "failed", mode), NotInjected)
        BY <1>3, <4>1, MarkFollows, ZenonT(40)
      <4>3. Follows(shadow[i], t[i].sh, NotInjected)
        BY <1>3 DEF Kept
      <4> HIDE DEF after
      <4> QED BY <4>2, <4>3
    <3>5. i \in ids
      BY <2>2
    <3> HIDE DEF u, after, sh, hit
    <3> QED BY <3>2, <3>3, <3>4, <3>5 DEF Moves, Free
  <2> QED BY <2>1, <2>2
<1> QED BY <1>4, <1>5

\* A release frees only what it names.
LEMMA ReleaseMoves ==
    ASSUME StoreTypes, NEW ids, Release(ids)
    PROVE  /\ StoreIsFun
           /\ \A i \in Nudges :
                 /\ Moves(i, NotInjected, FALSE)
                 /\ Free(q'[i]) => Free(q[i]) \/ i \in ids
<1>1. PICK mode \in Modes :
        \E t \in {Tended(Nudges, mode)} :
            Commit([i \in Nudges |->
                 IF i \in ids /\ t[i].it.at = "inflight"
                 THEN [t[i] EXCEPT !.it.at = "pending", !.it.leased = FALSE] ELSE t[i]])
  BY DEF Release
<1> DEFINE t == Tended(Nudges, mode)
           back(i) == [t[i].it EXCEPT !.at = "pending", !.leased = FALSE]
           u == [i \in Nudges |->
                   IF i \in ids /\ t[i].it.at = "inflight"
                   THEN [t[i] EXCEPT !.it.at = "pending", !.it.leased = FALSE] ELSE t[i]]
<1>2. Commit(u)
  BY <1>1
<1>3. \A i \in Nudges : Kept(i, t[i])
  BY TendedSound
<1> HIDE DEF t
<1>4. StoreIsFun /\ \A i \in Nudges : q'[i] = u[i].it /\ shadow'[i] = u[i].sh
  <2> HIDE DEF u
  <2> QED BY <1>2, CommitIs
<1>5. ASSUME NEW i \in Nudges
      PROVE  /\ Moves(i, NotInjected, FALSE)
             /\ Free(q'[i]) => Free(q[i]) \/ i \in ids
  <2>1. CASE ~(i \in ids /\ t[i].it.at = "inflight")
    <3>1. u[i] = t[i]
      BY <2>1
    <3> QED BY <3>1, <1>3, <1>4, KeptMoves
  <2>2. CASE i \in ids /\ t[i].it.at = "inflight"
    <3>1. t[i] = [it |-> t[i].it, sh |-> t[i].sh]
      BY <1>3 DEF Kept
    <3>2. u[i] = [t[i] EXCEPT !.it.at = "pending", !.it.leased = FALSE]
      BY <2>2
    <3>3. t[i].it \in Items /\ back(i) \in Items /\ back(i).at = "pending"
      BY <1>3 DEF Kept, Items
    <3>4. u[i].it = back(i) /\ u[i].sh = t[i].sh
      <4> HIDE DEF u
      <4> QED BY <3>1, <3>2, <3>3 DEF Items
    <3>5. q'[i] = back(i) /\ shadow'[i] = t[i].sh
      BY <3>4, <1>4
    <3>6. Follows(shadow[i], t[i].sh, NotInjected)
      BY <1>3 DEF Kept
    <3> HIDE DEF u, back
    <3> QED BY <2>2, <3>3, <3>5, <3>6 DEF Moves
  <2> QED BY <2>1, <2>2
<1> QED BY <1>4, <1>5

\* An enqueue posts its nudge or does not, and frees no other.
LEMMA EnqueueMoves ==
    ASSUME StoreTypes, NEW i \in Nudges, NEW s \in Saves, NEW e \in Nat, NEW mode, NEW S,
           EnqueueTxn(i, s, e, mode, S)
    PROVE  /\ StoreIsFun
           /\ \A j \in Nudges : Moves(j, NotInjected, FALSE)
           /\ \/ UNCHANGED posts /\ \A j \in Nudges : Free(q'[j]) => Free(q[j])
              \/ /\ posts' = [posts EXCEPT ![i] = @ + 1]
                 /\ q'[i].at = "pending"
                 /\ \A j \in Nudges : j # i /\ Free(q'[j]) => Free(q[j])
<1> DEFINE t == Tended(S, mode)
           old == Superseded(i, t) \cap S
           bad == {j \in old : TerminalizeFails(t[j].it, t[j].sh, mode)}
           dead(j) == [t[j].it EXCEPT !.at = "dead", !.old = FALSE, !.err = "superseded"]
           marked(j) == Terminalize(dead(j), t[j].sh, "superseded", mode)
           torn(b) == [t EXCEPT ![b].sh = marked(b)]
           rolledBack(b) == [torn(b) EXCEPT ![i].sh[s.bead].open = FALSE]
           u == [j \in Nudges |->
                   IF j = i THEN [it |-> Queued(i, s.bead, e), sh |-> t[i].sh]
                   ELSE IF j \in old THEN [it |-> dead(j), sh |-> marked(j)]
                   ELSE t[j]]
<1>1. \/ Commit(t) /\ UNCHANGED posts
      \/ \E b \in bad : (Abort(torn(b)) \/ Abort(rolledBack(b))) /\ UNCHANGED posts
      \/ Commit(u) /\ posts' = [posts EXCEPT ![i] = @ + 1]
  BY ZenonT(40) DEF EnqueueTxn
<1>2. \A j \in Nudges : Kept(j, t[j])
  BY TendedSound
<1>3. DOMAIN t = Nudges
  BY DEF Tended
<1>4. \A j \in old : j \in Nudges /\ j # i /\ Live(t[j].it)
  BY NudgeAssumption DEF Superseded, Nudges
<1> HIDE DEF t, old
<1>5. \A j \in Nudges : Follows(shadow[j], marked(j), NotInjected)
  <2>1. "superseded" \in Ended /\ NotInjected \cup {"superseded"} = NotInjected
    BY DEF Ended, NotInjected
  <2> HIDE DEF dead
  <2> QED BY <1>2, <2>1, MarkFollows, ZenonT(40)
<1>6. \A j \in Nudges : dead(j) \in Items /\ dead(j).at = "dead"
  BY <1>2, ZenonT(40) DEF Kept, Items
<1> HIDE DEF marked, dead
<1>7. ASSUME Commit(t) /\ UNCHANGED posts
      PROVE  /\ StoreIsFun
             /\ \A j \in Nudges : Moves(j, NotInjected, FALSE)
             /\ \A j \in Nudges : Free(q'[j]) => Free(q[j])
  BY <1>2, <1>7, CommitIs, KeptMoves
<1>8. ASSUME NEW b \in bad, Abort(torn(b)) \/ Abort(rolledBack(b))
      PROVE  /\ StoreIsFun
             /\ \A j \in Nudges : Moves(j, NotInjected, FALSE)
             /\ \A j \in Nudges : Free(q'[j]) => Free(q[j])
  <2>1. b \in Nudges /\ b # i
    BY <1>4
  <2>2. \A j \in Nudges : t[j] = [it |-> t[j].it, sh |-> t[j].sh]
    BY <1>2 DEF Kept
  <2>3. \A j \in Nudges : torn(b)[j].sh = IF j = b THEN marked(b) ELSE t[j].sh
    BY <2>1, <2>2, <1>3
  <2> DEFINE closed == [t[i].sh EXCEPT ![s.bead].open = FALSE]
  <2>4. rolledBack(b)[i].sh = closed
    <3>1. torn(b)[i] = t[i] /\ i \in DOMAIN torn(b)
      BY <2>1, <1>3
    <3>2. rolledBack(b)[i] = [torn(b)[i] EXCEPT !.sh[s.bead].open = FALSE]
      <4> HIDE DEF torn
      <4> QED BY <3>1
    <3>3. rolledBack(b)[i] = [t[i] EXCEPT !.sh[s.bead].open = FALSE]
      BY <3>1, <3>2
    <3> HIDE DEF rolledBack
    <3> QED BY <2>2, <3>3
  <2>5. \A j \in Nudges : j # i => rolledBack(b)[j] = torn(b)[j]
    <3>1. DOMAIN torn(b) = Nudges
      BY <1>3
    <3> HIDE DEF torn
    <3> QED BY <3>1
  <2>6. Follows(shadow[i], closed, NotInjected)
    <3>1. /\ t[i].sh \in Seq(Beads) /\ shadow[i] \in Seq(Beads)
          /\ Follows(shadow[i], t[i].sh, NotInjected) /\ Len(t[i].sh) = Len(shadow[i])
      BY <1>2 DEF Kept, Follows, StoreTypes
    <3>2. Follows(t[i].sh, closed, NotInjected)
      BY <3>1, CloseFollows
    <3>3. NotInjected \subseteq Ended
      BY DEF NotInjected
    <3> QED BY <3>1, <3>2, <3>3, FollowsOn
  <2> HIDE DEF closed
  <2>7. /\ StoreIsFun
        /\ \A j \in Nudges : q'[j] = q[j] /\ shadow'[j] \in {torn(b)[j].sh, rolledBack(b)[j].sh}
    <3> HIDE DEF torn, rolledBack
    <3> QED BY <1>8, AbortIs
  <2>8. \A j \in Nudges : shadow'[j] \in {t[j].sh, marked(j)} \/ (j = i /\ shadow'[j] = closed)
    BY <2>1, <2>3, <2>4, <2>5, <2>7
  <2>9. ASSUME NEW j \in Nudges PROVE Moves(j, NotInjected, FALSE) /\ q'[j] = q[j]
    <3>1. Follows(shadow[j], t[j].sh, NotInjected)
      BY <1>2 DEF Kept
    <3>2. Follows(shadow[j], shadow'[j], NotInjected)
      BY <2>6, <2>8, <3>1, <1>5
    <3> QED BY <3>2, <2>7 DEF Moves, StoreTypes
  <2> QED BY <2>7, <2>9
<1>9. ASSUME Commit(u), posts' = [posts EXCEPT ![i] = @ + 1]
      PROVE  /\ StoreIsFun
             /\ \A j \in Nudges : Moves(j, NotInjected, FALSE)
             /\ q'[i].at = "pending"
             /\ \A j \in Nudges : j # i /\ Free(q'[j]) => Free(q[j])
  <2>1. StoreIsFun /\ \A j \in Nudges : q'[j] = u[j].it /\ shadow'[j] = u[j].sh
    <3> HIDE DEF u
    <3> QED BY <1>9, CommitIs
  <2>2. Queued(i, s.bead, e) \in Items /\ Queued(i, s.bead, e).at = "pending"
    <3>1. s.bead \in Nat
      BY DEF Saves
    <3> QED BY <3>1, BlankIsItem DEF Queued, Items
  <2>3. u[i].it = Queued(i, s.bead, e) /\ u[i].sh = t[i].sh
    OBVIOUS
  <2>4. \A j \in Nudges : j # i /\ j \in old => u[j].it = dead(j) /\ u[j].sh = marked(j)
    OBVIOUS
  <2>5. \A j \in Nudges : j # i /\ j \notin old => u[j] = t[j]
    OBVIOUS
  <2> HIDE DEF u
  <2>6. Moves(i, NotInjected, FALSE) /\ q'[i].at = "pending"
    BY <1>2, <2>1, <2>2, <2>3 DEF Kept, Moves
  <2>7. ASSUME NEW j \in Nudges, j # i
        PROVE  Moves(j, NotInjected, FALSE) /\ (Free(q'[j]) => Free(q[j]))
    <3>1. CASE j \in old
      BY <3>1, <2>1, <2>4, <2>7, <1>5, <1>6 DEF Moves, Free
    <3>2. CASE j \notin old
      BY <3>2, <2>1, <2>5, <2>7, <1>2, KeptMoves
    <3> QED BY <3>1, <3>2
  <2> QED BY <2>1, <2>6, <2>7
<1> QED BY <1>1, <1>7, <1>8, <1>9

\* A claim takes what is free and holds it.
LEMMA ClaimMoves ==
    ASSUME StoreTypes, NEW p \in Workers, Claim(p)
    PROVE  /\ StoreIsFun
           /\ \E w \in Jobs :
                /\ worker' = [worker EXCEPT ![p] = w]
                /\ w.pc \in {"idle", "fenced", "claimed"}
                /\ \A i \in Nudges :
                      /\ Moves(i, NotInjected, FALSE)
                      /\ Free(q'[i]) => Free(q[i])
                      /\ i \in w.ids => Free(q[i]) /\ ~Free(q'[i])
<1>0. PICK mode \in Modes : \E t \in {Tended(Nudges, mode)} :
         LET due == {i \in Nudges : t[i].it.at = "pending" /\ t[i].it.due}
             bad == {i \in due : t[i].it.epoch # epoch}
         IN  /\ Commit([i \in Nudges |-> IF i \in due
                          THEN [t[i] EXCEPT !.it.at = "inflight", !.it.leased = TRUE] ELSE t[i]])
             /\ worker' = [worker EXCEPT ![p] =
                  IF due = {} THEN NoWork
                  ELSE [pc |-> IF bad = {} THEN "fenced" ELSE "claimed", ids |-> due \ bad, out |-> bad]]
  BY DEF Claim
<1>1. PICK t \in {Tended(Nudges, mode)} :
         LET due == {i \in Nudges : t[i].it.at = "pending" /\ t[i].it.due}
             bad == {i \in due : t[i].it.epoch # epoch}
         IN  /\ Commit([i \in Nudges |-> IF i \in due
                          THEN [t[i] EXCEPT !.it.at = "inflight", !.it.leased = TRUE] ELSE t[i]])
             /\ worker' = [worker EXCEPT ![p] =
                  IF due = {} THEN NoWork
                  ELSE [pc |-> IF bad = {} THEN "fenced" ELSE "claimed", ids |-> due \ bad, out |-> bad]]
  BY <1>0
<1> DEFINE due == {i \in Nudges : t[i].it.at = "pending" /\ t[i].it.due}
           bad == {i \in due : t[i].it.epoch # epoch}
           taken(i) == [t[i].it EXCEPT !.at = "inflight", !.leased = TRUE]
           u == [i \in Nudges |-> IF i \in due
                   THEN [t[i] EXCEPT !.it.at = "inflight", !.it.leased = TRUE] ELSE t[i]]
           w == IF due = {} THEN NoWork
                ELSE [pc |-> IF bad = {} THEN "fenced" ELSE "claimed", ids |-> due \ bad, out |-> bad]
<1>2. Commit(u) /\ worker' = [worker EXCEPT ![p] = w]
  BY <1>1
<1>3. \A i \in Nudges : Kept(i, t[i])
  BY TendedSound
<1>4. due \subseteq Nudges /\ bad \subseteq due /\ \A i \in due : t[i].it.at = "pending"
  OBVIOUS
<1> HIDE DEF due, bad
<1>5. w \in Jobs /\ w.ids \subseteq due /\ w.pc \in {"idle", "fenced", "claimed"}
  <2>1. CASE due = {}
    <3>1. w = NoWork
      BY <2>1
    <3> HIDE DEF w
    <3> QED BY <3>1 DEF Jobs, NoWork
  <2>2. CASE due # {}
    <3>1. PICK pc \in {"fenced", "claimed"} : pc = IF bad = {} THEN "fenced" ELSE "claimed"
      OBVIOUS
    <3>2. w = [pc |-> pc, ids |-> due \ bad, out |-> bad]
      BY <2>2, <3>1
    <3>3. due \ bad \in SUBSET Nudges /\ bad \in SUBSET Nudges
      BY <1>4
    <3> HIDE DEF w
    <3> QED BY <3>2, <3>3 DEF Jobs
  <2> QED BY <2>1, <2>2
<1> HIDE DEF w
<1>6. StoreIsFun /\ \A i \in Nudges : q'[i] = u[i].it /\ shadow'[i] = u[i].sh
  <2> HIDE DEF u
  <2> QED BY <1>2, CommitIs
<1>7. ASSUME NEW i \in Nudges
      PROVE  /\ Moves(i, NotInjected, FALSE)
             /\ Free(q'[i]) => Free(q[i])
             /\ i \in w.ids => Free(q[i]) /\ ~Free(q'[i])
  <2>1. CASE i \notin due
    <3>1. u[i] = t[i]
      BY <2>1
    <3> QED BY <2>1, <3>1, <1>3, <1>5, <1>6, KeptMoves
  <2>2. CASE i \in due
    <3>1. t[i] = [it |-> t[i].it, sh |-> t[i].sh] /\ t[i].it \in Items
      BY <1>3 DEF Kept
    <3>2. u[i] = [t[i] EXCEPT !.it.at = "inflight", !.it.leased = TRUE]
      BY <2>2
    <3>3. taken(i) \in Items /\ taken(i).at = "inflight" /\ taken(i).leased
      BY <3>1 DEF Items
    <3>4. u[i].it = taken(i) /\ u[i].sh = t[i].sh
      <4> HIDE DEF u
      <4> QED BY <3>1, <3>2, <3>3 DEF Items
    <3>5. q'[i] = taken(i) /\ shadow'[i] = t[i].sh
      BY <3>4, <1>6
    <3>6. Follows(shadow[i], t[i].sh, NotInjected) /\ Free(q[i])
      BY <2>2, <1>3, <1>4 DEF Kept, Free
    <3> HIDE DEF u, taken
    <3> QED BY <3>3, <3>5, <3>6 DEF Moves, Free
  <2> QED BY <2>1, <2>2
<1> QED BY <1>2, <1>5, <1>6, <1>7

----------------------------------------------------------------------------
(* The invariant, one group of variables at a time.                           *)

\* The states the beads of a nudge may end in by now, and whether it may leave
\* the queue without a record.
Ends(i) == IF delivered[i] > 0 THEN Ended ELSE NotInjected
Leave(i) == delivered[i] > 0 \/ (i = WaitNudge /\ wait # "ready")

\* A step that moves every nudge as its deliveries and its wait allow.
Orderly ==
    /\ StoreIsFun
    /\ \A i \in Nudges : Moves(i, Ends(i), Leave(i))
    /\ \A i \in Nudges : delivered[i] > 0 => delivered'[i] > 0
    /\ \A i \in Nudges : posts'[i] = posts[i] \/ q'[i].at # "none"
    /\ wait # "ready" => wait' # "ready"

LEMMA MovesMore ==
    ASSUME NEW i, Moves(i, NotInjected, FALSE)
    PROVE  Moves(i, Ends(i), Leave(i))
<1>1. NotInjected \subseteq Ends(i)
  BY DEF NotInjected, Ends
<1> QED BY <1>1, FollowsMore DEF Moves

LEMMA OrderlyKeeps ==
    ASSUME TypeInv, InjectedIsTrue, NoNudgeVanishes, Orderly
    PROVE  /\ StoreTypes'
           /\ InjectedIsTrue'
           /\ NoNudgeVanishes'
           /\ DropsLeaveARecord
<1>0. \A i \in Nudges : Moves(i, Ends(i), Leave(i))
  BY DEF Orderly
<1>1. ASSUME NEW i \in Nudges
      PROVE  /\ q'[i] \in Items
             /\ shadow'[i] \in Seq(Beads)
             /\ shadow[i] \in Seq(Beads)
             /\ Len(shadow[i]) \in Nat /\ Len(shadow'[i]) \in Nat
             /\ Len(shadow[i]) <= Len(shadow'[i])
             /\ DOMAIN shadow[i] = 1..Len(shadow[i])
             /\ DOMAIN shadow'[i] = 1..Len(shadow'[i])
             /\ \A k \in 1..Len(shadow[i]) :
                   shadow'[i][k].state \in {shadow[i][k].state} \cup Ends(i)
             /\ \A k \in 1..Len(shadow'[i]) : k > Len(shadow[i]) => shadow'[i][k].state = "queued"
             /\ q'[i].at = "none" => \/ q[i].at = "none"
                                     \/ Recorded(shadow'[i])
                                     \/ Leave(i) /\ Live(q[i])
  BY <1>0 DEF Moves, Follows, TypeInv, StoreTypes
<1>2. StoreTypes'
  <2>1. q' \in [Nudges -> Items]
    BY <1>1 DEF Orderly, StoreIsFun
  <2>2. shadow' \in [Nudges -> Seq(Beads)]
    BY <1>1 DEF Orderly, StoreIsFun
  <2> QED BY <2>1, <2>2 DEF StoreTypes
<1>3. InjectedIsTrue'
  <2> SUFFICES ASSUME NEW i \in Nudges, NEW k \in DOMAIN shadow'[i],
                      shadow'[i][k].state = "injected"
               PROVE  delivered'[i] > 0
    BY DEF InjectedIsTrue
  <2>1. k \in 1..Len(shadow[i])
    BY <1>1
  <2>2. shadow[i][k].state = "injected" \/ "injected" \in Ends(i)
    BY <2>1, <1>1
  <2>3. delivered[i] > 0
    BY <2>1, <2>2, <1>1 DEF InjectedIsTrue, Ends, NotInjected
  <2> QED BY <2>3 DEF Orderly
<1>4. NoNudgeVanishes'
  <2> SUFFICES ASSUME NEW i \in Nudges, posts'[i] > 0, q'[i].at = "none"
               PROVE  \/ delivered'[i] > 0
                      \/ \E k \in DOMAIN shadow'[i] : shadow'[i][k].state # "queued"
                      \/ i = WaitNudge /\ wait' # "ready"
    BY DEF NoNudgeVanishes
  <2>1. posts[i] > 0
    BY DEF Orderly
  <2>2. CASE Recorded(shadow'[i])
    BY <2>2 DEF Recorded, IsTerminalState
  <2>3. CASE Leave(i)
    BY <2>3 DEF Leave, Orderly
  <2>4. CASE q[i].at = "none" /\ ~Leave(i)
    <3>1. PICK k \in DOMAIN shadow[i] : shadow[i][k].state # "queued"
      BY <2>1, <2>4 DEF NoNudgeVanishes, Leave
    <3>2. k \in DOMAIN shadow'[i] /\ shadow'[i][k].state \in {shadow[i][k].state} \cup Ends(i)
      BY <3>1, <1>1
    <3> QED BY <3>1, <3>2 DEF Ends, Ended, NotInjected
  <2> QED BY <2>2, <2>3, <2>4, <1>1
<1>5. DropsLeaveARecord
  BY <1>1 DEF DropsLeaveARecord, Live
<1> QED BY <1>2, <1>3, <1>4, <1>5

\* One deliverer moves: those that hold a nudge change by that one.
LEMMA HoldersStep ==
    ASSUME TypeInv, NEW p \in Workers, NEW w \in Jobs,
           worker' = [worker EXCEPT ![p] = w], NEW i \in Nudges
    PROVE  /\ Cardinality(Holders(i)) \in Nat
           /\ Cardinality(Holders(i))' \in Nat
           /\ Cardinality(Holders(i))' + One(Holds(worker[p], i))
                 = Cardinality(Holders(i)) + One(Holds(w, i))
<1> DEFINE H == Holders(i)
           G == Holders(i)'
           R == H \ {p}
<1>1. /\ p \in H <=> Holds(worker[p], i)
      /\ p \in G <=> Holds(w, i)
      /\ \A r \in Workers : r # p => (r \in G <=> r \in H)
      /\ H \subseteq Workers /\ G \subseteq Workers
  BY DEF Holders, TypeInv
<1>2. IsFiniteSet(H) /\ IsFiniteSet(G) /\ IsFiniteSet(R)
  <2> HIDE DEF H, G
  <2>1. R \subseteq Workers
    BY <1>1
  <2> HIDE DEF R
  <2> QED BY <1>1, <2>1, NudgeAssumption, FS_Subset
<1>3. R = G \ {p}
  <2> HIDE DEF H, G
  <2> QED BY <1>1
<1> HIDE DEF H, G
<1>4. Cardinality(H) \in Nat /\ Cardinality(G) \in Nat /\ Cardinality(R) \in Nat
  <2> HIDE DEF R
  <2> QED BY <1>2, FS_CardinalityType
<1>5. Cardinality(R) = IF p \in H THEN Cardinality(H) - 1 ELSE Cardinality(H)
  BY <1>2, FS_RemoveElement
<1>6. Cardinality(R) = IF p \in G THEN Cardinality(G) - 1 ELSE Cardinality(G)
  BY <1>2, <1>3, FS_RemoveElement
<1> HIDE DEF R
<1>7. Cardinality(G) + One(Holds(worker[p], i)) = Cardinality(H) + One(Holds(w, i))
  BY <1>1, <1>4, <1>5, <1>6 DEF One
<1> QED BY <1>4, <1>7 DEF H, G

\* A deliverer that moves keeps the deliveries paid if it creates none.
LEMMA PaidByWorker ==
    ASSUME TypeInv, DeliveriesPaid, NEW p \in Workers, NEW w \in Jobs,
           worker' = [worker EXCEPT ![p] = w], UNCHANGED <<posts, lapses>>,
           delivered' \in [Nudges -> Nat], errors' \in [Nudges -> Nat],
           \A i \in Nudges : delivered'[i] + One(Holds(w, i)) + One(Free(q'[i])) + errors[i]
                             <= delivered[i] + One(Holds(worker[p], i)) + One(Free(q[i])) + errors'[i]
    PROVE  DeliveriesPaid'
<1> SUFFICES ASSUME NEW i \in Nudges
             PROVE  delivered'[i] + Cardinality(Holders(i))' + One(Free(q'[i])) <= posts[i] + lapses[i] + errors'[i]
  BY DEF DeliveriesPaid
<1>1. /\ Cardinality(Holders(i)) \in Nat /\ Cardinality(Holders(i))' \in Nat
      /\ Cardinality(Holders(i))' + One(Holds(worker[p], i)) = Cardinality(Holders(i)) + One(Holds(w, i))
  BY HoldersStep
<1>2. /\ delivered[i] \in Nat /\ delivered'[i] \in Nat /\ posts[i] \in Nat /\ lapses[i] \in Nat
      /\ errors[i] \in Nat /\ errors'[i] \in Nat
      /\ One(Holds(w, i)) \in Nat /\ One(Holds(worker[p], i)) \in Nat
      /\ One(Free(q[i])) \in Nat /\ One(Free(q'[i])) \in Nat
  BY DEF TypeInv, One
<1>3. delivered[i] + Cardinality(Holders(i)) + One(Free(q[i])) <= posts[i] + lapses[i] + errors[i]
  BY DEF DeliveriesPaid
<1> QED BY <1>1, <1>2, <1>3

\* A step of nobody's delivery keeps them paid if it pays for what it frees.
LEMMA PaidByOthers ==
    ASSUME TypeInv, DeliveriesPaid, UNCHANGED <<worker, delivered, errors>>,
           posts' \in [Nudges -> Nat], lapses' \in [Nudges -> Nat],
           \A i \in Nudges : One(Free(q'[i])) + posts[i] + lapses[i]
                             <= One(Free(q[i])) + posts'[i] + lapses'[i]
    PROVE  DeliveriesPaid'
<1> SUFFICES ASSUME NEW i \in Nudges
             PROVE  delivered[i] + Cardinality(Holders(i))' + One(Free(q'[i])) <= posts'[i] + lapses'[i] + errors[i]
  BY DEF DeliveriesPaid
<1>1. Holders(i)' = Holders(i)
  BY DEF Holders, Holds
<1>2. Cardinality(Holders(i)) \in Nat
  <2>1. Holders(i) \subseteq Workers
    BY DEF Holders
  <2> QED BY <2>1, NudgeAssumption, FS_Subset, FS_CardinalityType
<1>3. /\ delivered[i] \in Nat /\ posts[i] \in Nat /\ lapses[i] \in Nat
      /\ posts'[i] \in Nat /\ lapses'[i] \in Nat /\ errors[i] \in Nat
      /\ One(Free(q[i])) \in Nat /\ One(Free(q'[i])) \in Nat
  BY DEF TypeInv, One
<1>4. delivered[i] + Cardinality(Holders(i)) + One(Free(q[i])) <= posts[i] + lapses[i] + errors[i]
  BY DEF DeliveriesPaid
<1> HIDE DEF Holders
<1> QED BY <1>1, <1>2, <1>3, <1>4

\* What a step of one deliverer owes the invariant.
Serves(p, w) ==
    /\ worker' = [worker EXCEPT ![p] = w]
    /\ UNCHANGED <<sender, tick, cancel, wait, epoch, lapses, posts>>
    /\ delivered' \in [Nudges -> Nat] /\ errors' \in [Nudges -> Nat]
    /\ StoreIsFun
    /\ \A i \in Nudges :
          /\ Moves(i, Ends(i), Leave(i))
          /\ delivered'[i] >= delivered[i]
          /\ delivered'[i] + One(Holds(w, i)) + One(Free(q'[i])) + errors[i]
                <= delivered[i] + One(Holds(worker[p], i)) + One(Free(q[i])) + errors'[i]
    /\ w.pc = "sent" => \A i \in w.ids : delivered'[i] > 0
    /\ w.pc = "checked" => w.out \subseteq {WaitNudge} /\ wait # "ready"

LEMMA WorkerKeeps ==
    ASSUME NudgeInv, NEW p \in Workers, NEW w \in Jobs, Serves(p, w)
    PROVE  NudgeInv' /\ DropsLeaveARecord
<1>0. \A i \in Nudges : delivered[i] \in Nat
  BY DEF NudgeInv, TypeInv
<1>1. Orderly
  BY <1>0 DEF Orderly, Serves
<1>2. StoreTypes' /\ InjectedIsTrue' /\ NoNudgeVanishes' /\ DropsLeaveARecord
  BY <1>1, OrderlyKeeps DEF NudgeInv
<1>3. TypeInv'
  BY <1>2 DEF NudgeInv, TypeInv, Serves
<1>4. DeliveriesPaid'
  BY PaidByWorker DEF NudgeInv, Serves
<1>5. JobsAgree'
  <2>1. ASSUME NEW r \in Workers
        PROVE  /\ worker'[r].pc = "sent" => \A i \in worker'[r].ids : delivered'[i] > 0
               /\ worker'[r].pc = "checked" => worker'[r].out \subseteq {WaitNudge} /\ wait' # "ready"
    <3>1. CASE r = p
      <4>1. worker'[r] = w
        BY <3>1 DEF NudgeInv, TypeInv, Serves
      <4> QED BY <4>1 DEF Serves
    <3>2. CASE r # p
      <4>1. worker'[r] = worker[r] /\ worker[r] \in Jobs
        BY <3>2 DEF NudgeInv, TypeInv, Serves
      <4>2. \A i \in worker[r].ids : delivered[i] > 0 => delivered'[i] > 0
        BY <4>1, <1>0 DEF Jobs, Serves
      <4> QED BY <4>1, <4>2 DEF NudgeInv, JobsAgree, Serves
    <3> QED BY <3>1, <3>2
  <2> QED BY <2>1 DEF JobsAgree
<1>6. CancelEnds'
  BY DEF NudgeInv, CancelEnds, Serves
<1>7. ClosedMeansDelivered'
  <2>1. WaitNudge \in Nudges
    BY DEF Nudges
  <2> QED BY <2>1, <1>0 DEF NudgeInv, ClosedMeansDelivered, Serves
<1> QED BY <1>2, <1>3, <1>4, <1>5, <1>6, <1>7 DEF NudgeInv

\* What a step of anybody else owes it.
Passes ==
    /\ UNCHANGED <<worker, delivered, errors>>
    /\ sender' \in [Plain -> Saves] /\ tick' \in Saves /\ cancel' \in Saves /\ epoch' \in Nat
    /\ wait' \in {"none", "ready", "closed", "failed", "expired", "canceled"}
    /\ posts' \in [Nudges -> Nat] /\ lapses' \in [Nudges -> Nat]
    /\ StoreIsFun
    /\ \A i \in Nudges :
          /\ Moves(i, Ends(i), Leave(i))
          /\ posts'[i] = posts[i] \/ q'[i].at # "none"
          /\ One(Free(q'[i])) + posts[i] + lapses[i] <= One(Free(q[i])) + posts'[i] + lapses'[i]
    /\ wait # "ready" => wait' # "ready"
    /\ wait' = "closed" => wait = "closed" \/ delivered[WaitNudge] > 0
    /\ cancel'.pc # "idle" => wait' # "ready"

LEMMA OthersKeep ==
    ASSUME NudgeInv, Passes
    PROVE  NudgeInv' /\ DropsLeaveARecord
<1>1. Orderly
  BY DEF Orderly, Passes
<1>2. StoreTypes' /\ InjectedIsTrue' /\ NoNudgeVanishes' /\ DropsLeaveARecord
  BY <1>1, OrderlyKeeps DEF NudgeInv
<1>3. TypeInv'
  BY <1>2 DEF NudgeInv, TypeInv, Passes
<1>4. DeliveriesPaid'
  BY PaidByOthers DEF NudgeInv, Passes
<1>5. JobsAgree'
  BY DEF NudgeInv, JobsAgree, Passes
<1>6. CancelEnds'
  BY DEF CancelEnds, Passes
<1>7. ClosedMeansDelivered'
  BY DEF NudgeInv, ClosedMeansDelivered, Passes
<1> QED BY <1>2, <1>3, <1>4, <1>5, <1>6, <1>7 DEF NudgeInv

\* A nudge that a step does not touch moves as it may.
LEMMA StillMoves ==
    ASSUME StoreTypes, NEW i \in Nudges, q'[i] = q[i], shadow'[i] = shadow[i]
    PROVE  Moves(i, Ends(i), Leave(i))
<1>1. q[i] \in Items /\ shadow[i] \in Seq(Beads)
  BY DEF StoreTypes
<1> QED BY <1>1, FollowsSelf DEF Moves

LEMMA StoreStill ==
    ASSUME StoreTypes, UNCHANGED <<q, shadow>>
    PROVE  StoreIsFun /\ \A i \in Nudges : Moves(i, Ends(i), Leave(i)) /\ q'[i] = q[i]
BY StillMoves DEF StoreTypes, StoreIsFun

----------------------------------------------------------------------------
(* The deliverers.                                                            *)

LEMMA ClaimKeeps ==
    ASSUME NudgeInv, NEW p \in Workers, Claim(p)
    PROVE  NudgeInv' /\ DropsLeaveARecord
<1>1. /\ StoreTypes /\ worker[p] \in Jobs
      /\ delivered \in [Nudges -> Nat] /\ errors \in [Nudges -> Nat]
  BY DEF NudgeInv, TypeInv
<1>2. StoreIsFun
  BY <1>1, ClaimMoves
<1>3. PICK w \in Jobs :
        /\ worker' = [worker EXCEPT ![p] = w]
        /\ w.pc \in {"idle", "fenced", "claimed"}
        /\ \A i \in Nudges :
              /\ Moves(i, NotInjected, FALSE)
              /\ Free(q'[i]) => Free(q[i])
              /\ i \in w.ids => Free(q[i]) /\ ~Free(q'[i])
  BY <1>1, ClaimMoves
<1>4. /\ worker[p].pc = "idle"
      /\ UNCHANGED <<sender, tick, cancel, wait, epoch, delivered, lapses, errors, posts>>
  BY DEF Claim
<1>5. \A i \in Nudges : Moves(i, Ends(i), Leave(i))
  BY <1>3, MovesMore
<1>6. ASSUME NEW i \in Nudges
      PROVE  delivered'[i] + One(Holds(w, i)) + One(Free(q'[i])) + errors[i]
                <= delivered[i] + One(Holds(worker[p], i)) + One(Free(q[i])) + errors'[i]
  <2>1. ~Holds(worker[p], i)
    BY <1>4 DEF Holds, Holding
  <2>2. Holds(w, i) => Free(q[i]) /\ ~Free(q'[i])
    BY <1>3 DEF Holds
  <2>3. delivered'[i] = delivered[i] /\ delivered[i] \in Nat /\ errors'[i] = errors[i] /\ errors[i] \in Nat
    BY <1>1, <1>4
  <2>4. Free(q'[i]) => Free(q[i])
    BY <1>3
  <2> QED BY <2>1, <2>2, <2>3, <2>4 DEF One
<1>7. \A i \in Nudges : delivered'[i] >= delivered[i]
  BY <1>1, <1>4
<1>8. /\ delivered' \in [Nudges -> Nat] /\ errors' \in [Nudges -> Nat]
      /\ UNCHANGED <<sender, tick, cancel, wait, epoch, lapses, posts>>
      /\ w.pc # "sent" /\ w.pc # "checked"
  BY <1>1, <1>3, <1>4
<1>9. Serves(p, w)
  BY <1>2, <1>3, <1>5, <1>6, <1>7, <1>8 DEF Serves
<1> QED BY <1>9, WorkerKeeps

\* A deliverer that delivers nothing now may give up what it holds, and free it.
LEMMA QuietKeeps ==
    ASSUME NudgeInv, NEW p \in Workers, NEW w \in Jobs,
           worker' = [worker EXCEPT ![p] = w], Quiet, StoreIsFun,
           \A i \in Nudges : Moves(i, Ends(i), Leave(i)),
           \A i \in Nudges : Holds(w, i) => Holds(worker[p], i),
           \A i \in Nudges : Free(q'[i]) => Free(q[i]) \/ (Holds(worker[p], i) /\ ~Holds(w, i)),
           w.pc # "sent",
           w.pc = "checked" => w.out \subseteq {WaitNudge} /\ wait # "ready"
    PROVE  NudgeInv' /\ DropsLeaveARecord
<1>1. /\ delivered \in [Nudges -> Nat] /\ delivered' = delivered
      /\ errors \in [Nudges -> Nat] /\ errors' = errors
  BY DEF NudgeInv, TypeInv, Quiet
<1>2. ASSUME NEW i \in Nudges
      PROVE  delivered'[i] + One(Holds(w, i)) + One(Free(q'[i])) + errors[i]
                <= delivered[i] + One(Holds(worker[p], i)) + One(Free(q[i])) + errors'[i]
  <2>1. delivered[i] \in Nat /\ errors[i] \in Nat
    BY <1>1
  <2> QED BY <1>1, <2>1 DEF One
<1>3. \A i \in Nudges : delivered'[i] >= delivered[i]
  BY <1>1
<1>4. UNCHANGED <<sender, tick, cancel, wait, epoch, lapses, posts>>
  BY DEF Quiet
<1>5. Serves(p, w)
  BY <1>1, <1>2, <1>3, <1>4 DEF Serves
<1> QED BY <1>5, WorkerKeeps

LEMMA RejectKeeps ==
    ASSUME NudgeInv, NEW p \in Workers, Reject(p)
    PROVE  NudgeInv' /\ DropsLeaveARecord
<1>1. StoreTypes /\ worker[p] \in Jobs /\ worker \in [Workers -> Jobs]
  BY DEF NudgeInv, TypeInv
<1> DEFINE w == [worker[p] EXCEPT !.pc = "fenced", !.out = {}]
<1>2. /\ worker[p].pc = "claimed" /\ RecordFailure(worker[p].out, TRUE) /\ Quiet
      /\ worker' = [worker EXCEPT ![p] = w]
  BY <1>1 DEF Reject
<1>3. w \in Jobs /\ w.pc = "fenced" /\ w.ids = worker[p].ids
  BY <1>1 DEF Jobs
<1>4. /\ StoreIsFun
      /\ \A i \in Nudges : Moves(i, NotInjected, FALSE) /\ (Free(q'[i]) => Free(q[i]))
  BY <1>1, <1>2, FailureMoves
<1>5. \A i \in Nudges : Moves(i, Ends(i), Leave(i))
  BY <1>4, MovesMore
<1>6. \A i \in Nudges : Holds(w, i) => Holds(worker[p], i)
  BY <1>2, <1>3 DEF Holds, Holding
<1> HIDE DEF w
<1> QED BY <1>2, <1>3, <1>4, <1>5, <1>6, QuietKeeps

LEMMA CheckKeeps ==
    ASSUME NudgeInv, NEW p \in Workers, Check(p)
    PROVE  NudgeInv' /\ DropsLeaveARecord
<1>1. StoreTypes /\ worker[p] \in Jobs
  BY DEF NudgeInv, TypeInv
<1>2. PICK mode \in {"up", "nil"} :
       LET blocked == IF mode = "up" /\ wait # "ready" THEN worker[p].ids \cap {WaitNudge} ELSE {}
       IN  worker' = [worker EXCEPT ![p] =
              [pc |-> IF blocked # {} THEN "checked"
                      ELSE IF worker[p].ids = {} THEN "idle" ELSE "ready",
               ids |-> worker[p].ids \ blocked, out |-> blocked]]
  BY DEF Check
<1> DEFINE blocked == IF mode = "up" /\ wait # "ready" THEN worker[p].ids \cap {WaitNudge} ELSE {}
           pc == IF blocked # {} THEN "checked" ELSE IF worker[p].ids = {} THEN "idle" ELSE "ready"
           w == [pc |-> pc, ids |-> worker[p].ids \ blocked, out |-> blocked]
<1>3. worker' = [worker EXCEPT ![p] = w] /\ worker[p].pc = "fenced" /\ Quiet /\ UNCHANGED <<q, shadow>>
  BY <1>2 DEF Check
<1>4. /\ blocked \subseteq worker[p].ids /\ blocked \subseteq {WaitNudge}
      /\ blocked # {} => wait # "ready"
  OBVIOUS
<1>5. pc \in {"checked", "idle", "ready"} /\ (pc = "checked" => blocked # {})
  OBVIOUS
<1>6. worker[p].ids \subseteq Nudges
  BY <1>1 DEF Jobs
<1> HIDE DEF blocked, pc
<1>7. w \in Jobs /\ w.ids \subseteq worker[p].ids /\ w.pc = pc /\ w.out = blocked
  BY <1>4, <1>5, <1>6 DEF Jobs
<1>8. \A i \in Nudges : Holds(w, i) => Holds(worker[p], i)
  BY <1>3, <1>7 DEF Holds, Holding
<1> HIDE DEF w
<1>9. StoreIsFun /\ \A i \in Nudges : Moves(i, Ends(i), Leave(i)) /\ q'[i] = q[i]
  BY <1>1, <1>3, StoreStill
<1> QED BY <1>3, <1>4, <1>5, <1>7, <1>8, <1>9, QuietKeeps

LEMMA CheckFailsKeeps ==
    ASSUME NudgeInv, NEW p \in Workers, CheckFails(p)
    PROVE  NudgeInv' /\ DropsLeaveARecord
<1>1. StoreTypes /\ worker[p] \in Jobs /\ worker \in [Workers -> Jobs]
  BY DEF NudgeInv, TypeInv
<1> DEFINE w == [worker[p] EXCEPT !.pc = "declined"]
<1>2. /\ worker[p].pc = "fenced" /\ Quiet /\ UNCHANGED <<q, shadow>>
      /\ worker' = [worker EXCEPT ![p] = w]
  BY <1>1 DEF CheckFails
<1>3. w \in Jobs /\ w.pc = "declined" /\ w.ids = worker[p].ids
  BY <1>1 DEF Jobs
<1>4. StoreIsFun /\ \A i \in Nudges : Moves(i, Ends(i), Leave(i)) /\ q'[i] = q[i]
  BY <1>1, <1>2, StoreStill
<1>5. \A i \in Nudges : Holds(w, i) => Holds(worker[p], i)
  BY <1>2, <1>3 DEF Holds, Holding
<1> HIDE DEF w
<1> QED BY <1>2, <1>3, <1>4, <1>5, QuietKeeps

\* Only the nudge of a wait that has ended is held back, so it may leave.
LEMMA BlockKeeps ==
    ASSUME NudgeInv, NEW p \in Workers, Block(p)
    PROVE  NudgeInv' /\ DropsLeaveARecord
<1>1. StoreTypes /\ worker[p] \in Jobs /\ worker \in [Workers -> Jobs]
  BY DEF NudgeInv, TypeInv
<1> DEFINE w == IF worker[p].ids = {} THEN NoWork ELSE [worker[p] EXCEPT !.pc = "ready", !.out = {}]
<1>2. /\ worker[p].pc = "checked" /\ Quiet /\ Ack(worker[p].out, "failed")
      /\ worker' = [worker EXCEPT ![p] = w]
  BY DEF Block
<1>3. worker[p].out \subseteq {WaitNudge} /\ wait # "ready"
  BY <1>2 DEF NudgeInv, JobsAgree
<1>4. w \in Jobs /\ w.pc \in {"idle", "ready"} /\ w.ids \subseteq worker[p].ids
  BY <1>1 DEF Jobs, NoWork
<1> HIDE DEF w
<1>5. PICK mode \in Modes : AckTxn(worker[p].out, "failed", mode, FALSE)
  BY <1>2 DEF Ack
<1>6. "failed" \in Ended /\ NotInjected \cup {"failed"} = NotInjected
  BY DEF Ended, NotInjected
<1>7. /\ StoreIsFun
      /\ \A i \in Nudges :
            /\ i \in worker[p].out => Moves(i, NotInjected, TRUE)
            /\ i \notin worker[p].out => Moves(i, NotInjected, FALSE)
            /\ Free(q'[i]) => Free(q[i])
  BY <1>1, <1>5, <1>6, AckMoves
<1>8. ASSUME NEW i \in Nudges PROVE Moves(i, Ends(i), Leave(i))
  <2>1. CASE i \in worker[p].out
    <3>1. Leave(i)
      BY <2>1, <1>3 DEF Leave
    <3>2. NotInjected \subseteq Ends(i)
      BY DEF NotInjected, Ends
    <3>3. Moves(i, NotInjected, TRUE)
      BY <2>1, <1>7
    <3> QED BY <3>1, <3>2, <3>3, FollowsMore DEF Moves
  <2>2. CASE i \notin worker[p].out
    BY <2>2, <1>7, MovesMore
  <2> QED BY <2>1, <2>2
<1>9. \A i \in Nudges : Holds(w, i) => Holds(worker[p], i)
  BY <1>2, <1>4 DEF Holds, Holding
<1>10. \A i \in Nudges : Free(q'[i]) => Free(q[i])
  BY <1>7
<1> QED BY <1>2, <1>4, <1>7, <1>8, <1>9, <1>10, QuietKeeps

\* A delivery spends what the deliverer holds; a late error pays for its own.
LEMMA DeliverKeeps ==
    ASSUME NudgeInv, NEW p \in Workers, Deliver(p)
    PROVE  NudgeInv' /\ DropsLeaveARecord
<1>1. /\ StoreTypes /\ worker[p] \in Jobs /\ worker \in [Workers -> Jobs]
      /\ delivered \in [Nudges -> Nat] /\ errors \in [Nudges -> Nat]
  BY DEF NudgeInv, TypeInv
<1>2. PICK outcome \in {"sent", "declined", "errored"}, late \in BOOLEAN :
         /\ late => outcome = "errored"
         /\ worker' = [worker EXCEPT ![p].pc = outcome]
         /\ delivered' = [i \in Nudges |-> delivered[i]
                + (IF (outcome = "sent" \/ late) /\ i \in worker[p].ids THEN 1 ELSE 0)]
         /\ errors' = [i \in Nudges |-> errors[i] + (IF late /\ i \in worker[p].ids THEN 1 ELSE 0)]
  BY DEF Deliver
<1> DEFINE w == [worker[p] EXCEPT !.pc = outcome]
<1>3. worker' = [worker EXCEPT ![p] = w] /\ worker[p].pc = "ready"
  BY <1>1, <1>2 DEF Deliver
<1>4. w \in Jobs /\ w.pc = outcome /\ w.ids = worker[p].ids /\ w.ids \subseteq Nudges
  BY <1>1 DEF Jobs
<1> HIDE DEF w
<1>5. UNCHANGED <<q, shadow, sender, tick, cancel, wait, epoch, lapses, posts>>
  BY DEF Deliver
<1>6. StoreIsFun /\ \A i \in Nudges : Moves(i, Ends(i), Leave(i)) /\ q'[i] = q[i]
  BY <1>1, <1>5, StoreStill
<1>7. \A i \in Nudges :
        /\ delivered[i] \in Nat /\ errors[i] \in Nat
        /\ delivered'[i] = delivered[i] + One((outcome = "sent" \/ late) /\ i \in worker[p].ids)
        /\ errors'[i] = errors[i] + One(late /\ i \in worker[p].ids)
  BY <1>1, <1>2 DEF One
<1>8. \A i \in Nudges : delivered'[i] \in Nat /\ delivered'[i] >= delivered[i] /\ errors'[i] \in Nat
  BY <1>7 DEF One
<1>9. delivered' \in [Nudges -> Nat] /\ errors' \in [Nudges -> Nat]
  BY <1>1, <1>2, <1>8
<1>10. ASSUME NEW i \in Nudges
       PROVE  delivered'[i] + One(Holds(w, i)) + One(Free(q'[i])) + errors[i]
                <= delivered[i] + One(Holds(worker[p], i)) + One(Free(q[i])) + errors'[i]
  <2>1. Holds(worker[p], i) <=> i \in worker[p].ids
    BY <1>3 DEF Holds, Holding
  <2>2. Holds(w, i) <=> i \in worker[p].ids /\ outcome # "sent"
    BY <1>4 DEF Holds, Holding
  <2>3. /\ delivered[i] \in Nat /\ errors[i] \in Nat
        /\ delivered'[i] = delivered[i] + One((outcome = "sent" \/ late) /\ i \in worker[p].ids)
        /\ errors'[i] = errors[i] + One(late /\ i \in worker[p].ids)
    BY <1>7
  <2>4. CASE outcome = "sent"
    <3>1. ~late
      BY <2>4, <1>2
    <3> QED BY <2>1, <2>2, <2>3, <2>4, <3>1, <1>6 DEF One
  <2>5. CASE outcome # "sent"
    BY <2>1, <2>2, <2>3, <2>5, <1>6 DEF One
  <2> QED BY <2>4, <2>5
<1>11. w.pc = "sent" => \A i \in w.ids : delivered'[i] > 0
  BY <1>4, <1>7 DEF One
<1>12. w.pc # "checked"
  BY <1>4
<1>13. Serves(p, w)
  BY <1>3, <1>5, <1>6, <1>8, <1>9, <1>10, <1>11, <1>12 DEF Serves
<1> QED BY <1>4, <1>13, WorkerKeeps

\* The nudges of a deliverer that has sent may leave the queue: they were
\* delivered.
LEMMA SentMayLeave ==
    ASSUME NudgeInv, NEW p \in Workers, worker[p].pc = "sent", NEW mode \in Modes,
           NEW dies \in BOOLEAN, AckTxn(worker[p].ids, "injected", mode, dies)
    PROVE  /\ StoreIsFun
           /\ \A i \in Nudges : Moves(i, Ends(i), Leave(i)) /\ (Free(q'[i]) => Free(q[i]))
<1>1. StoreTypes
  BY DEF NudgeInv, TypeInv
<1>2. "injected" \in Ended /\ NotInjected \cup {"injected"} = Ended
  BY DEF Ended, NotInjected
<1>3. /\ StoreIsFun
      /\ \A i \in Nudges :
            /\ i \in worker[p].ids => Moves(i, Ended, TRUE)
            /\ i \notin worker[p].ids => Moves(i, NotInjected, FALSE)
            /\ Free(q'[i]) => Free(q[i])
  BY <1>1, <1>2, AckMoves
<1>4. ASSUME NEW i \in Nudges PROVE Moves(i, Ends(i), Leave(i))
  <2>1. CASE i \in worker[p].ids
    <3>1. delivered[i] > 0
      BY <2>1 DEF NudgeInv, JobsAgree
    <3>2. Leave(i) /\ Ends(i) = Ended
      BY <3>1 DEF Leave, Ends
    <3>3. Moves(i, Ended, TRUE)
      BY <2>1, <1>3
    <3> QED BY <3>2, <3>3 DEF Moves
  <2>2. CASE i \notin worker[p].ids
    BY <2>2, <1>3, MovesMore
  <2> QED BY <2>1, <2>2
<1> QED BY <1>3, <1>4

LEMMA SettleKeeps ==
    ASSUME NudgeInv, NEW p \in Workers, Settle(p)
    PROVE  NudgeInv' /\ DropsLeaveARecord
<1>1. StoreTypes /\ worker[p] \in Jobs
  BY DEF NudgeInv, TypeInv
<1>2. worker' = [worker EXCEPT ![p] = NoWork] /\ Quiet
  BY DEF Settle
<1>3. /\ NoWork \in Jobs /\ NoWork.pc # "sent" /\ NoWork.pc # "checked"
      /\ \A i \in Nudges : ~Holds(NoWork, i)
  BY DEF NoWork, Jobs, Holds
<1>4. /\ StoreIsFun
      /\ \A i \in Nudges : Moves(i, Ends(i), Leave(i))
      /\ \A i \in Nudges : Free(q'[i]) => Free(q[i]) \/ Holds(worker[p], i)
  <2>1. CASE worker[p].pc = "sent" /\ Ack(worker[p].ids, "injected")
    <3>1. PICK mode \in Modes : AckTxn(worker[p].ids, "injected", mode, FALSE)
      BY <2>1 DEF Ack
    <3> QED BY <2>1, <3>1, SentMayLeave
  <2>2. CASE worker[p].pc = "declined" /\ Release(worker[p].ids)
    <3>1. /\ StoreIsFun
          /\ \A i \in Nudges : Moves(i, NotInjected, FALSE) /\ (Free(q'[i]) => Free(q[i]) \/ i \in worker[p].ids)
      BY <2>2, <1>1, ReleaseMoves
    <3>2. \A i \in Nudges : Moves(i, Ends(i), Leave(i))
      BY <3>1, MovesMore
    <3>3. \A i \in Nudges : i \in worker[p].ids => Holds(worker[p], i)
      BY <2>2 DEF Holds, Holding
    <3> QED BY <3>1, <3>2, <3>3
  <2>3. CASE worker[p].pc = "errored" /\ RecordFailure(worker[p].ids, FALSE)
    <3>1. /\ StoreIsFun
          /\ \A i \in Nudges : Moves(i, NotInjected, FALSE) /\ (Free(q'[i]) => Free(q[i]) \/ i \in worker[p].ids)
      BY <2>3, <1>1, FailureMoves
    <3>2. \A i \in Nudges : Moves(i, Ends(i), Leave(i))
      BY <3>1, MovesMore
    <3>3. \A i \in Nudges : i \in worker[p].ids => Holds(worker[p], i)
      BY <2>3 DEF Holds, Holding
    <3> QED BY <3>1, <3>2, <3>3
  <2> QED BY <2>1, <2>2, <2>3 DEF Settle
<1> HIDE DEF NoWork
<1> QED BY <1>2, <1>3, <1>4, QuietKeeps

LEMMA DieKeeps ==
    ASSUME NudgeInv, NEW p \in Workers, Die(p)
    PROVE  NudgeInv' /\ DropsLeaveARecord
<1>1. StoreTypes /\ worker[p] \in Jobs
  BY DEF NudgeInv, TypeInv
<1>2. worker' = [worker EXCEPT ![p] = NoWork] /\ Quiet
  BY DEF Die, Quiet
<1>3. /\ NoWork \in Jobs /\ NoWork.pc # "sent" /\ NoWork.pc # "checked"
      /\ \A i \in Nudges : ~Holds(NoWork, i)
  BY DEF NoWork, Jobs, Holds
<1>4. /\ StoreIsFun
      /\ \A i \in Nudges : Moves(i, Ends(i), Leave(i))
      /\ \A i \in Nudges : Free(q'[i]) => Free(q[i])
  <2>1. CASE UNCHANGED <<q, shadow>>
    BY <2>1, <1>1, StoreStill
  <2>2. CASE worker[p].pc = "sent" /\ AckTxn(worker[p].ids, "injected", "up", TRUE)
    <3>1. "up" \in Modes
      BY DEF Modes
    <3> QED BY <2>2, <3>1, SentMayLeave
  <2> QED BY <2>1, <2>2 DEF Die
<1> HIDE DEF NoWork
<1> QED BY <1>2, <1>3, <1>4, QuietKeeps

----------------------------------------------------------------------------
(* Everybody else.                                                            *)

\* A step that touches one nudge.
LEMMA OneMoves ==
    ASSUME StoreTypes, NEW i \in Nudges, NEW x \in Items, NEW sh,
           q' = [q EXCEPT ![i] = x], shadow' = [shadow EXCEPT ![i] = sh],
           Follows(shadow[i], sh, Ends(i)),
           x.at = "none" => \/ q[i].at = "none"
                            \/ Recorded(sh)
                            \/ Leave(i) /\ Live(q[i])
    PROVE  /\ StoreIsFun
           /\ \A j \in Nudges : Moves(j, Ends(j), Leave(j))
           /\ q'[i] = x
           /\ \A j \in Nudges : j # i => q'[j] = q[j]
<1>1. StoreIsFun
  BY DEF StoreTypes, StoreIsFun
<1>2. q'[i] = x /\ shadow'[i] = sh /\ \A j \in Nudges : j # i => q'[j] = q[j] /\ shadow'[j] = shadow[j]
  BY DEF StoreTypes
<1>3. Moves(i, Ends(i), Leave(i))
  BY <1>2 DEF Moves
<1>4. \A j \in Nudges : j # i => Moves(j, Ends(j), Leave(j))
  BY <1>2, StillMoves
<1> QED BY <1>1, <1>2, <1>3, <1>4

\* Replacing one bead.
LEMMA BeadFollows ==
    ASSUME NEW sh \in Seq(Beads), NEW k, NEW x \in Beads, NEW ends, x.state \in ends
    PROVE  Follows(sh, [sh EXCEPT ![k] = x], ends)
<1> DEFINE t == [sh EXCEPT ![k] = x]
<1>1. t \in Seq(Beads) /\ Len(t) = Len(sh)
  <2>1. sh \in [1..Len(sh) -> Beads] /\ Len(sh) \in Nat
    OBVIOUS
  <2>2. t \in [1..Len(sh) -> Beads]
    BY <2>1
  <2> HIDE DEF t
  <2> QED BY <2>1, <2>2
<1>3. \A j \in 1..Len(sh) : t[j] = IF j = k THEN x ELSE sh[j]
  OBVIOUS
<1> HIDE DEF t
<1>2. Follows(sh, t, ends)
  BY <1>1, <1>3 DEF Follows
<1> QED BY <1>2 DEF t

\* A step of nobody's delivery that posts nothing.
LEMMA PassKeeps ==
    ASSUME NudgeInv, UNCHANGED <<worker, delivered, posts, lapses, errors>>,
           sender' \in [Plain -> Saves], tick' \in Saves, cancel' \in Saves, epoch' \in Nat,
           wait' \in {"none", "ready", "closed", "failed", "expired", "canceled"},
           StoreIsFun, \A i \in Nudges : Moves(i, Ends(i), Leave(i)),
           \A i \in Nudges : Free(q'[i]) => Free(q[i]),
           wait # "ready" => wait' # "ready",
           wait' = "closed" => wait = "closed" \/ delivered[WaitNudge] > 0,
           cancel'.pc # "idle" => wait' # "ready"
    PROVE  NudgeInv' /\ DropsLeaveARecord
<1>1. posts \in [Nudges -> Nat] /\ lapses \in [Nudges -> Nat]
  BY DEF NudgeInv, TypeInv
<1>2. ASSUME NEW i \in Nudges
      PROVE  /\ posts'[i] = posts[i]
             /\ One(Free(q'[i])) + posts[i] + lapses[i] <= One(Free(q[i])) + posts'[i] + lapses'[i]
  <2>1. posts[i] \in Nat /\ lapses[i] \in Nat /\ posts'[i] = posts[i] /\ lapses'[i] = lapses[i]
    BY <1>1
  <2> QED BY <2>1 DEF One
<1>3. posts' \in [Nudges -> Nat] /\ lapses' \in [Nudges -> Nat]
  BY <1>1
<1>4. Passes
  BY <1>2, <1>3 DEF Passes
<1> QED BY <1>4, OthersKeep

\* The types and the facts that a step that changes little hands on.
LEMMA Given ==
    ASSUME NudgeInv
    PROVE  /\ StoreTypes
           /\ sender \in [Plain -> Saves] /\ tick \in Saves /\ cancel \in Saves /\ epoch \in Nat
           /\ wait \in {"none", "ready", "closed", "failed", "expired", "canceled"}
           /\ posts \in [Nudges -> Nat] /\ lapses \in [Nudges -> Nat]
           /\ delivered \in [Nudges -> Nat]
           /\ cancel.pc # "idle" => wait # "ready"
           /\ wait = "closed" => delivered[WaitNudge] > 0
           /\ WaitNudge \in Nudges /\ Plain \subseteq Nudges
BY DEF NudgeInv, TypeInv, CancelEnds, ClosedMeansDelivered, Nudges

\* What an enqueue names is a bead of the nudge, or the one it makes.
LEMMA SavedIs ==
    ASSUME StoreTypes, NEW i \in Nudges, NEW b \in BOOLEAN
    PROVE  Saved(i, b) \in Saves
<1>1. shadow[i] \in Seq(Beads)
  BY DEF StoreTypes
<1>2. PICK k : k = Find(shadow[i], FALSE)
  OBVIOUS
<1>3. k \in Nat
  <2>1. k = 0 \/ k \in 1..Len(shadow[i])
    BY <1>1, <1>2, FindIs
  <2> QED BY <1>1, <2>1
<1>4. Len(shadow[i]) + 1 \in Nat
  BY <1>1
<1>5. \A n \in Nat, c \in BOOLEAN : [pc |-> "saved", bead |-> n, created |-> c] \in Saves
  BY DEF Saves
<1>6. CASE ~b
  BY <1>5, <1>6 DEF Saved
<1>7. CASE b /\ k # 0
  BY <1>2, <1>3, <1>5, <1>7 DEF Saved
<1>8. CASE b /\ k = 0
  BY <1>2, <1>4, <1>5, <1>8 DEF Saved
<1> QED BY <1>6, <1>7, <1>8

\* A shadow made or reused leaves the queue alone.
LEMMA SaveToMoves ==
    ASSUME StoreTypes, NEW i \in Nudges, NEW s, SaveTo(i, s), UNCHANGED q
    PROVE  /\ StoreIsFun
           /\ \A j \in Nudges : Moves(j, Ends(j), Leave(j)) /\ q'[j] = q[j]
<1>1. shadow[i] \in Seq(Beads) /\ q[i] \in Items /\ q = [q EXCEPT ![i] = q[i]]
  BY DEF StoreTypes
<1>2. CASE s.created
  <2>1. shadow' = [shadow EXCEPT ![i] = Save(shadow[i])]
    BY <1>2 DEF SaveTo
  <2>2. Follows(shadow[i], Save(shadow[i]), Ends(i))
    BY <1>1, SaveFollows
  <2>3. /\ StoreIsFun
        /\ \A j \in Nudges : Moves(j, Ends(j), Leave(j))
    BY <1>1, <2>1, <2>2, OneMoves
  <2> QED BY <2>3
<1>3. CASE ~s.created
  BY <1>3, StoreStill DEF SaveTo
<1> QED BY <1>2, <1>3

LEMMA SendSaveKeeps ==
    ASSUME NudgeInv, NEW i \in Plain, SendSave(i)
    PROVE  NudgeInv' /\ DropsLeaveARecord
<1>1. PICK up \in BOOLEAN : /\ sender' = [sender EXCEPT ![i] = Saved(i, up /\ i \notin NoShadow)]
                            /\ SaveTo(i, sender'[i])
  BY DEF SendSave
<1>2. i \in Nudges /\ Saved(i, up /\ i \notin NoShadow) \in Saves
  BY Given, SavedIs
<1>3. sender' \in [Plain -> Saves]
  BY <1>1, <1>2, Given
<1>4. UNCHANGED <<q, worker, tick, cancel, wait, epoch, delivered, lapses, errors, posts>>
  BY DEF SendSave
<1>5. /\ StoreIsFun
      /\ \A j \in Nudges : Moves(j, Ends(j), Leave(j)) /\ q'[j] = q[j]
  BY <1>1, <1>2, <1>4, Given, SaveToMoves
<1> QED BY <1>3, <1>4, <1>5, Given, PassKeeps

\* An enqueue pays for what it queues.
LEMMA EnqueueKeeps ==
    ASSUME NudgeInv, NEW i \in Nudges, NEW s \in Saves, NEW e \in Nat, NEW mode, NEW S,
           EnqueueTxn(i, s, e, mode, S),
           sender' \in [Plain -> Saves], tick' \in Saves,
           UNCHANGED <<worker, cancel, wait, epoch, delivered, lapses, errors>>
    PROVE  NudgeInv' /\ DropsLeaveARecord
<1>1. /\ StoreIsFun
      /\ \A j \in Nudges : Moves(j, NotInjected, FALSE)
      /\ \/ UNCHANGED posts /\ \A j \in Nudges : Free(q'[j]) => Free(q[j])
         \/ /\ posts' = [posts EXCEPT ![i] = @ + 1]
            /\ q'[i].at = "pending"
            /\ \A j \in Nudges : j # i /\ Free(q'[j]) => Free(q[j])
  BY Given, EnqueueMoves
<1>2. \A j \in Nudges : Moves(j, Ends(j), Leave(j))
  BY <1>1, MovesMore
<1>3. CASE UNCHANGED posts /\ \A j \in Nudges : Free(q'[j]) => Free(q[j])
  BY <1>1, <1>2, <1>3, Given, PassKeeps
<1>4. CASE /\ posts' = [posts EXCEPT ![i] = @ + 1]
           /\ q'[i].at = "pending"
           /\ \A j \in Nudges : j # i /\ Free(q'[j]) => Free(q[j])
  <2>1. /\ posts \in [Nudges -> Nat] /\ lapses \in [Nudges -> Nat]
    BY Given
  <2>2. posts' \in [Nudges -> Nat] /\ lapses' \in [Nudges -> Nat]
    BY <2>1, <1>4
  <2>3. ASSUME NEW j \in Nudges
        PROVE  /\ posts'[j] = posts[j] \/ q'[j].at # "none"
               /\ One(Free(q'[j])) + posts[j] + lapses[j] <= One(Free(q[j])) + posts'[j] + lapses'[j]
    <3>1. posts[j] \in Nat /\ lapses[j] \in Nat /\ lapses'[j] = lapses[j]
      BY <2>1
    <3>2. CASE j = i
      <4>1. posts'[j] = posts[j] + 1
        BY <3>2, <2>1, <1>4
      <4> QED BY <3>1, <3>2, <4>1, <1>4 DEF One
    <3>3. CASE j # i
      <4>1. posts'[j] = posts[j]
        BY <3>3, <2>1, <1>4
      <4> QED BY <3>1, <3>3, <4>1, <1>4 DEF One
    <3> QED BY <3>2, <3>3
  <2>4. Passes
    BY <1>1, <1>2, <2>2, <2>3, Given DEF Passes
  <2> QED BY <2>4, OthersKeep
<1> QED BY <1>1, <1>3, <1>4

LEMMA SendEnqueueKeeps ==
    ASSUME NudgeInv, NEW i \in Plain, SendEnqueue(i)
    PROVE  NudgeInv' /\ DropsLeaveARecord
<1>1. PICK mode \in Modes, S \in {{}, Nudges} : EnqueueTxn(i, sender[i], epoch, mode, S)
  BY DEF SendEnqueue
<1>2. i \in Nudges /\ sender[i] \in Saves /\ epoch \in Nat
  BY Given
<1>3. /\ sender' = [sender EXCEPT ![i].pc = "queued"]
      /\ UNCHANGED <<worker, tick, cancel, wait, epoch, delivered, lapses, errors>>
  BY DEF SendEnqueue
<1>4. [sender[i] EXCEPT !.pc = "queued"] \in Saves
  BY <1>2 DEF Saves
<1>5. sender' \in [Plain -> Saves] /\ tick' \in Saves
  BY <1>3, <1>4, Given
<1> QED BY <1>1, <1>2, <1>3, <1>5, EnqueueKeeps

\* A rollback makes its nudge a dead letter, or only marks the bead.
LEMMA SendDoneKeeps ==
    ASSUME NudgeInv, NEW i \in Plain, SendDone(i)
    PROVE  NudgeInv' /\ DropsLeaveARecord
<1>1. /\ sender' = [sender EXCEPT ![i].pc = "done"]
      /\ UNCHANGED <<worker, tick, cancel, wait, epoch, delivered, lapses, errors, posts>>
  BY DEF SendDone
<1>2. i \in Nudges /\ sender[i] \in Saves /\ StoreTypes /\ q[i] \in Items /\ shadow[i] \in Seq(Beads)
  BY Given DEF StoreTypes
<1>3. [sender[i] EXCEPT !.pc = "done"] \in Saves
  BY <1>2 DEF Saves
<1>4. sender' \in [Plain -> Saves]
  BY <1>1, <1>3, Given
<1>5. /\ StoreIsFun
      /\ \A j \in Nudges : Moves(j, Ends(j), Leave(j)) /\ (Free(q'[j]) => Free(q[j]))
  <2>1. CASE UNCHANGED <<q, shadow>>
    BY <2>1, <1>2, StoreStill
  <2>2. ASSUME NEW mode \in Modes,
               LET it == [q[i] EXCEPT !.at = "dead", !.old = FALSE, !.err = "failed"]
                   sh == Terminalize([it EXCEPT !.bead = sender[i].bead], shadow[i], "failed", mode)
               IN  /\ shadow' = [shadow EXCEPT ![i] = sh]
                   /\ q' = IF Live(q[i]) /\ ~TerminalizeFails(it, shadow[i], mode)
                           THEN [q EXCEPT ![i] = it] ELSE q
        PROVE  /\ StoreIsFun
               /\ \A j \in Nudges : Moves(j, Ends(j), Leave(j)) /\ (Free(q'[j]) => Free(q[j]))
    <3> DEFINE it == [q[i] EXCEPT !.at = "dead", !.old = FALSE, !.err = "failed"]
               sh == Terminalize([it EXCEPT !.bead = sender[i].bead], shadow[i], "failed", mode)
    <3>1. shadow' = [shadow EXCEPT ![i] = sh] /\ (q' = [q EXCEPT ![i] = it] \/ q' = q)
      BY <2>2
    <3>2. it \in Items /\ it.at = "dead"
      BY <1>2 DEF Items
    <3>3. Follows(shadow[i], sh, Ends(i))
      <4>1. "failed" \in Ended /\ {"failed"} \subseteq Ends(i)
        BY DEF Ended, NotInjected, Ends
      <4>2. Follows(shadow[i], sh, {"failed"})
        <5> HIDE DEF it
        <5> QED BY <1>2, <4>1, TerminalizeFollows
      <4> HIDE DEF sh
      <4> QED BY <4>1, <4>2, FollowsMore
    <3> HIDE DEF it, sh
    <3>4. PICK x \in Items : q' = [q EXCEPT ![i] = x] /\ (x = it \/ x = q[i])
      <4>1. q = [q EXCEPT ![i] = q[i]]
        BY <1>2 DEF StoreTypes
      <4> QED BY <3>1, <3>2, <1>2, <4>1
    <3>5. x.at = "none" => q[i].at = "none"
      BY <3>2, <3>4
    <3>6. Free(x) => Free(q[i])
      BY <3>2, <3>4 DEF Free
    <3>7. /\ StoreIsFun
          /\ \A j \in Nudges : Moves(j, Ends(j), Leave(j))
          /\ q'[i] = x
          /\ \A j \in Nudges : j # i => q'[j] = q[j]
      BY <1>2, <3>1, <3>3, <3>4, <3>5, OneMoves
    <3> QED BY <3>6, <3>7
  <2> QED BY <2>1, <2>2 DEF SendDone
<1> QED BY <1>1, <1>4, <1>5, Given, PassKeeps

\* A wait closes on an injected bead, and such a bead tells the truth.
LEMMA PrepareKeeps ==
    ASSUME NudgeInv, Prepare
    PROVE  NudgeInv' /\ DropsLeaveARecord
<1>1. /\ tick' = [tick EXCEPT !.pc = "prepared"]
      /\ UNCHANGED <<q, shadow, worker, sender, cancel, epoch, trouble, delivered, lapses, errors, posts>>
  BY DEF Prepare
<1>2. tick' \in Saves
  BY <1>1, Given DEF Saves
<1>3. PICK k : k = Find(shadow[WaitNudge], TRUE)
  OBVIOUS
<1>4. k = 0 \/ k \in DOMAIN shadow[WaitNudge]
  <2>1. shadow[WaitNudge] \in Seq(Beads)
    BY Given DEF StoreTypes
  <2>2. k = 0 \/ k \in 1..Len(shadow[WaitNudge])
    BY <1>3, <2>1, FindIs
  <2> QED BY <2>1, <2>2
<1>5. /\ Finalized \in {wait, "canceled", "closed", "failed"}
      /\ wait # "ready" => Finalized = wait
      /\ Finalized = "closed" => wait = "closed" \/ (k # 0 /\ shadow[WaitNudge][k].state = "injected")
  BY <1>3 DEF Finalized
<1>6. Finalized = "closed" => wait = "closed" \/ delivered[WaitNudge] > 0
  BY <1>4, <1>5, Given DEF NudgeInv, InjectedIsTrue
<1>7. wait' = Finalized \/ (wait = "ready" /\ wait' = "expired")
  BY DEF Prepare
<1>8. /\ wait' \in {"none", "ready", "closed", "failed", "expired", "canceled"}
      /\ wait # "ready" => wait' # "ready"
      /\ wait' = "closed" => wait = "closed" \/ delivered[WaitNudge] > 0
  BY <1>5, <1>6, <1>7, Given
<1>9. StoreIsFun /\ \A i \in Nudges : Moves(i, Ends(i), Leave(i)) /\ q'[i] = q[i]
  BY <1>1, Given, StoreStill
<1> QED BY <1>1, <1>2, <1>8, <1>9, Given, PassKeeps

LEMMA DispatchKeeps ==
    ASSUME NudgeInv, Dispatch
    PROVE  NudgeInv' /\ DropsLeaveARecord
<1>1. UNCHANGED <<q, worker, sender, cancel, wait, epoch, trouble, delivered, lapses, errors, posts>>
  BY DEF Dispatch
<1>2. StoreTypes /\ WaitNudge \in Nudges
  BY Given
<1>3. CASE tick' = Saved(WaitNudge, TRUE) /\ SaveTo(WaitNudge, tick')
  <2>1. tick' \in Saves
    BY <1>2, <1>3, SavedIs
  <2>2. /\ StoreIsFun
        /\ \A j \in Nudges : Moves(j, Ends(j), Leave(j)) /\ q'[j] = q[j]
    BY <1>1, <1>2, <1>3, SaveToMoves
  <2> QED BY <1>1, <2>1, <2>2, Given, PassKeeps
<1>4. CASE tick' = Unsaved /\ UNCHANGED shadow
  <2>1. tick' \in Saves
    BY <1>4 DEF Saves, Unsaved
  <2>2. StoreIsFun /\ \A i \in Nudges : Moves(i, Ends(i), Leave(i)) /\ q'[i] = q[i]
    BY <1>1, <1>2, <1>4, StoreStill
  <2> QED BY <1>1, <2>1, <2>2, Given, PassKeeps
<1> QED BY <1>3, <1>4 DEF Dispatch

LEMMA DispatchEnqueueKeeps ==
    ASSUME NudgeInv, DispatchEnqueue
    PROVE  NudgeInv' /\ DropsLeaveARecord
<1>1. PICK mode \in Modes \ {"nil"}, S \in {{}, Nudges} : EnqueueTxn(WaitNudge, tick, 1, mode, S)
  BY DEF DispatchEnqueue
<1>2. tick' = Unsaved /\ UNCHANGED <<worker, sender, cancel, wait, epoch, delivered, lapses, errors>>
  BY DEF DispatchEnqueue
<1>3. tick' \in Saves /\ sender' \in [Plain -> Saves] /\ tick \in Saves /\ WaitNudge \in Nudges /\ 1 \in Nat
  BY <1>2, Given DEF Saves, Unsaved
<1> QED BY <1>1, <1>2, <1>3, EnqueueKeeps

LEMMA RestartKeeps ==
    ASSUME NudgeInv, Restart
    PROVE  NudgeInv' /\ DropsLeaveARecord
<1>1. tick' = Unsaved /\ UNCHANGED <<q, shadow, worker, sender, cancel, wait, epoch, delivered, lapses, errors, posts>>
  BY DEF Restart
<1>2. tick' \in Saves
  BY <1>1 DEF Saves, Unsaved
<1>3. StoreIsFun /\ \A i \in Nudges : Moves(i, Ends(i), Leave(i)) /\ q'[i] = q[i]
  BY <1>1, Given, StoreStill
<1> QED BY <1>1, <1>2, <1>3, Given, PassKeeps

LEMMA SweepKeeps ==
    ASSUME NudgeInv, NEW i \in Nudges, Sweep(i)
    PROVE  NudgeInv' /\ DropsLeaveARecord
<1> DEFINE k == Find(shadow[i], FALSE)
           x == [open |-> FALSE, state |-> "gc-swept"]
           sh == [shadow[i] EXCEPT ![k] = x]
<1>1. UNCHANGED <<q, worker, sender, tick, cancel, wait, epoch, delivered, lapses, errors, posts>>
  BY DEF Sweep
<1>2. StoreTypes /\ shadow[i] \in Seq(Beads) /\ q[i] \in Items /\ q = [q EXCEPT ![i] = q[i]]
  BY Given DEF StoreTypes
<1>3. shadow' = [shadow EXCEPT ![i] = sh]
  BY DEF Sweep
<1>4. x \in Beads /\ x.state \in Ends(i)
  BY DEF Beads, Ended, NotInjected, Ends
<1> HIDE DEF k, x
<1>5. Follows(shadow[i], sh, Ends(i))
  BY <1>2, <1>4, BeadFollows
<1> HIDE DEF sh
<1>6. /\ StoreIsFun
      /\ \A j \in Nudges : Moves(j, Ends(j), Leave(j))
  BY <1>1, <1>2, <1>3, <1>5, OneMoves
<1> QED BY <1>1, <1>6, Given, PassKeeps

\* Time changes an item in its bucket.
LEMMA ItemMoves ==
    ASSUME StoreTypes, NEW i \in Nudges, NEW x \in Items, x.at = q[i].at,
           q' = [q EXCEPT ![i] = x], UNCHANGED shadow
    PROVE  /\ StoreIsFun
           /\ \A j \in Nudges : Moves(j, Ends(j), Leave(j))
           /\ q'[i] = x
           /\ \A j \in Nudges : j # i => q'[j] = q[j]
<1>1. shadow[i] \in Seq(Beads) /\ shadow = [shadow EXCEPT ![i] = shadow[i]]
  BY DEF StoreTypes
<1>2. Follows(shadow[i], shadow[i], Ends(i))
  BY <1>1, FollowsSelf
<1> QED BY <1>1, <1>2, OneMoves, ZenonT(40)

\* A lapse pays for the delivery it makes possible.
LEMMA LapseKeeps ==
    ASSUME NudgeInv, NEW i \in Nudges, Lapse(i)
    PROVE  NudgeInv' /\ DropsLeaveARecord
<1> DEFINE x == [q[i] EXCEPT !.leased = FALSE]
<1>1. StoreTypes /\ q[i] \in Items /\ q \in [Nudges -> Items]
  BY Given DEF StoreTypes
<1>2. /\ q' = [q EXCEPT ![i] = x] /\ lapses' = [lapses EXCEPT ![i] = @ + 1]
      /\ UNCHANGED <<shadow, epoch, worker, sender, tick, cancel, wait, delivered, errors, posts>>
  BY <1>1 DEF Lapse, Still
<1>3. x \in Items /\ x.at = q[i].at
  BY <1>1 DEF Items
<1> HIDE DEF x
<1>4. /\ StoreIsFun
      /\ \A j \in Nudges : Moves(j, Ends(j), Leave(j))
      /\ \A j \in Nudges : j # i => q'[j] = q[j]
  BY <1>1, <1>2, <1>3, ItemMoves
<1>5. posts \in [Nudges -> Nat] /\ lapses \in [Nudges -> Nat]
  BY Given
<1>6. posts' \in [Nudges -> Nat] /\ lapses' \in [Nudges -> Nat]
  BY <1>2, <1>5
<1>7. ASSUME NEW j \in Nudges
      PROVE  /\ posts'[j] = posts[j]
             /\ One(Free(q'[j])) + posts[j] + lapses[j] <= One(Free(q[j])) + posts'[j] + lapses'[j]
  <2>1. posts[j] \in Nat /\ lapses[j] \in Nat /\ posts'[j] = posts[j]
    BY <1>2, <1>5
  <2>2. CASE j = i
    <3>1. lapses'[j] = lapses[j] + 1
      BY <2>2, <1>2, <1>5
    <3> QED BY <2>1, <3>1 DEF One
  <2>3. CASE j # i
    <3>1. lapses'[j] = lapses[j] /\ q'[j] = q[j]
      BY <2>3, <1>2, <1>4, <1>5
    <3> QED BY <2>1, <3>1 DEF One
  <2> QED BY <2>2, <2>3
<1>8. Passes
  BY <1>2, <1>4, <1>6, <1>7, Given DEF Passes
<1> QED BY <1>8, OthersKeep

LEMMA PassingKeeps ==
    ASSUME NudgeInv, NEW i \in Nudges, Passing(i)
    PROVE  NudgeInv' /\ DropsLeaveARecord
<1>1. StoreTypes /\ q[i] \in Items /\ q \in [Nudges -> Items]
  BY Given DEF StoreTypes
<1>2. UNCHANGED <<shadow, lapses, epoch, worker, sender, tick, cancel, wait, delivered, errors, posts>>
  BY DEF Passing, FallDue, Expire, RetentionPasses, Still
<1>3. PICK x \in Items : /\ q' = [q EXCEPT ![i] = x] /\ x.at = q[i].at
                         /\ Free(x) => Free(q[i])
  <2> DEFINE due == [q[i] EXCEPT !.due = TRUE]
             old == [q[i] EXCEPT !.old = TRUE]
             late == [q[i] EXCEPT !.expired = TRUE]
  <2>1. \/ q' = [q EXCEPT ![i] = due]
        \/ q' = [q EXCEPT ![i] = old]
        \/ q' = [q EXCEPT ![i] = late]
    BY <1>1 DEF Passing, FallDue, Expire, RetentionPasses
  <2>2. /\ due \in Items /\ due.at = q[i].at /\ due.leased = q[i].leased
        /\ old \in Items /\ old.at = q[i].at /\ old.leased = q[i].leased
        /\ late \in Items /\ late.at = q[i].at /\ late.leased = q[i].leased
    BY <1>1 DEF Items
  <2> HIDE DEF due, old, late
  <2> QED BY <2>1, <2>2 DEF Free
<1>4. /\ StoreIsFun
      /\ \A j \in Nudges : Moves(j, Ends(j), Leave(j))
      /\ q'[i] = x
      /\ \A j \in Nudges : j # i => q'[j] = q[j]
  BY <1>1, <1>2, <1>3, ItemMoves
<1>5. \A j \in Nudges : Free(q'[j]) => Free(q[j])
  BY <1>3, <1>4
<1> QED BY <1>2, <1>4, <1>5, Given, PassKeeps

LEMMA NewEpochKeeps ==
    ASSUME NudgeInv, NewEpoch
    PROVE  NudgeInv' /\ DropsLeaveARecord
<1>1. /\ epoch' = epoch + 1
      /\ UNCHANGED <<q, shadow, lapses, worker, sender, tick, cancel, wait, delivered, errors, posts>>
  BY DEF NewEpoch, Still
<1>2. epoch' \in Nat
  BY <1>1, Given
<1>3. StoreIsFun /\ \A i \in Nudges : Moves(i, Ends(i), Leave(i)) /\ q'[i] = q[i]
  BY <1>1, Given, StoreStill
<1> QED BY <1>1, <1>2, <1>3, Given, PassKeeps

LEMMA CancelWaitKeeps ==
    ASSUME NudgeInv, CancelWait
    PROVE  NudgeInv' /\ DropsLeaveARecord
<1>1. /\ wait' = "canceled" /\ wait = "ready"
      /\ UNCHANGED <<q, shadow, worker, sender, tick, epoch, delivered, lapses, errors, posts>>
  BY DEF CancelWait
<1>2. cancel' \in Saves
  <2>1. PICK pc \in {"canceled", "done"} : cancel' = [cancel EXCEPT !.pc = pc]
    BY DEF CancelWait
  <2> QED BY <2>1, Given DEF Saves
<1>3. StoreIsFun /\ \A i \in Nudges : Moves(i, Ends(i), Leave(i)) /\ q'[i] = q[i]
  BY <1>1, Given, StoreStill
<1> QED BY <1>1, <1>2, <1>3, Given, PassKeeps

\* The withdrawal begins after the wait has ended, so its nudge may leave.
LEMMA WithdrawKeeps ==
    ASSUME NudgeInv, Withdraw
    PROVE  NudgeInv' /\ DropsLeaveARecord
<1> USE DEF Withdraw
<1>1. /\ cancel.pc # "idle"
      /\ UNCHANGED <<worker, sender, tick, wait, epoch, delivered, lapses, errors, posts>>
  BY DEF WithdrawRead, WithdrawMark, WithdrawRemove
<1>2. wait # "ready" /\ StoreTypes /\ WaitNudge \in Nudges /\ cancel \in Saves
  BY <1>1, Given
<1>3. q[WaitNudge] \in Items /\ shadow[WaitNudge] \in Seq(Beads)
  BY <1>2 DEF StoreTypes
<1>4. cancel' \in Saves
  <2>1. CASE WithdrawRead
    <3>1. q[WaitNudge].bead \in Nat
      BY <1>3 DEF Items
    <3> QED BY <2>1, <3>1, <1>2 DEF WithdrawRead, Saves
  <2>2. CASE WithdrawMark
    <3>1. PICK pc \in {"marked", "done"} : cancel' = [cancel EXCEPT !.pc = pc]
      BY <2>2 DEF WithdrawMark
    <3> QED BY <3>1, <1>2 DEF Saves
  <2>3. CASE WithdrawRemove
    BY <2>3, <1>2 DEF WithdrawRemove, Saves
  <2> QED BY <2>1, <2>2, <2>3
<1>5. /\ StoreIsFun
      /\ \A j \in Nudges : Moves(j, Ends(j), Leave(j)) /\ (Free(q'[j]) => Free(q[j]))
  <2>1. CASE UNCHANGED <<q, shadow>>
    BY <2>1, <1>2, StoreStill
  <2>2. CASE WithdrawRemove /\ ~UNCHANGED <<q, shadow>>
    <3>1. q' = [q EXCEPT ![WaitNudge] = Blank] /\ Live(q[WaitNudge]) /\ UNCHANGED shadow
      BY <2>2 DEF WithdrawRemove
    <3>2. shadow = [shadow EXCEPT ![WaitNudge] = shadow[WaitNudge]]
      BY <1>2 DEF StoreTypes
    <3>3. Follows(shadow[WaitNudge], shadow[WaitNudge], Ends(WaitNudge))
      BY <1>3, FollowsSelf
    <3>4. Leave(WaitNudge)
      BY <1>2 DEF Leave
    <3>5. /\ StoreIsFun
          /\ \A j \in Nudges : Moves(j, Ends(j), Leave(j))
          /\ q'[WaitNudge] = Blank
          /\ \A j \in Nudges : j # WaitNudge => q'[j] = q[j]
      BY <3>1, <3>2, <3>3, <3>4, <1>2, BlankIsItem, OneMoves
    <3> QED BY <3>5, BlankIsItem
  <2>3. CASE WithdrawMark /\ ~UNCHANGED <<q, shadow>>
    <3> DEFINE b == cancel.bead
               s == shadow[WaitNudge]
    <3>1. PICK o \in BOOLEAN : shadow' = [shadow EXCEPT ![WaitNudge][b].open = o,
                                                     ![WaitNudge][b].state = "failed"]
      BY <2>3 DEF WithdrawMark
    <3>2. UNCHANGED q
      BY <2>3 DEF WithdrawMark
    <3> DEFINE x == [open |-> o, state |-> "failed"]
               sh == [s EXCEPT ![b].open = o, ![b].state = "failed"]
    <3>3. shadow' = [shadow EXCEPT ![WaitNudge] = sh]
      BY <3>1, <1>2 DEF StoreTypes
    <3>4. x \in Beads /\ x.state \in Ends(WaitNudge)
      BY DEF Beads, Ended, NotInjected, Ends
    <3> HIDE DEF b
    <3>5. sh = [s EXCEPT ![b] = x]
      <4>1. CASE b \in DOMAIN s
        <5>1. s[b] \in Beads
          BY <4>1, <1>3
        <5> QED BY <4>1, <5>1 DEF Beads
      <4>2. CASE b \notin DOMAIN s
        BY <4>2
      <4> QED BY <4>1, <4>2
    <3> HIDE DEF sh, x, s
    <3>6. Follows(s, sh, Ends(WaitNudge))
      BY <3>4, <3>5, <1>3, BeadFollows DEF s
    <3>7. q = [q EXCEPT ![WaitNudge] = q[WaitNudge]]
      BY <1>2 DEF StoreTypes
    <3>8. /\ StoreIsFun
          /\ \A j \in Nudges : Moves(j, Ends(j), Leave(j))
      BY <3>2, <3>3, <3>6, <3>7, <1>2, <1>3, OneMoves DEF s
    <3> QED BY <3>2, <3>8
  <2>4. WithdrawRead => UNCHANGED <<q, shadow>>
    BY DEF WithdrawRead
  <2> QED BY <2>1, <2>2, <2>3, <2>4
<1> QED BY <1>1, <1>2, <1>4, <1>5, Given, PassKeeps

----------------------------------------------------------------------------
(* The theorems.                                                              *)

LEMMA NudgeInit ==
    ASSUME Init
    PROVE  NudgeInv
<1>1. PICK c \in Cases :
         /\ epoch = c.epoch
         /\ wait = IF c.waits THEN "ready" ELSE "none"
         /\ worker = [p \in Workers |-> [NoWork EXCEPT !.pc = IF p \in c.crew THEN "idle" ELSE "absent"]]
         /\ sender = [i \in Plain |-> [Unsaved EXCEPT !.pc = IF i \in c.sent THEN "idle" ELSE "done"]]
  BY DEF Init
<1>2. c.epoch \in 1..MaxEpoch /\ MaxEpoch \in Nat
  BY NudgeAssumption
<1>3. StoreTypes
  <2>1. << >> \in Seq(Beads)
    OBVIOUS
  <2> QED BY <2>1, BlankIsItem DEF Init, StoreTypes
<1>4. worker \in [Workers -> Jobs]
      /\ \A p \in Workers : worker[p].pc \in {"idle", "absent"} /\ worker[p].ids = {}
  <2>1. ASSUME NEW p \in Workers
        PROVE  worker[p] \in Jobs /\ worker[p].pc \in {"idle", "absent"} /\ worker[p].ids = {}
    <3>1. PICK pc \in {"idle", "absent"} : worker[p] = [NoWork EXCEPT !.pc = pc]
      BY <1>1
    <3>2. worker[p] = [pc |-> pc, ids |-> {}, out |-> {}]
      BY <3>1 DEF NoWork
    <3> QED BY <3>2 DEF Jobs
  <2> QED BY <1>1, <2>1
<1>5. sender \in [Plain -> Saves]
  <2>1. ASSUME NEW i \in Plain PROVE sender[i] \in Saves
    <3>1. PICK pc \in {"idle", "done"} : sender[i] = [Unsaved EXCEPT !.pc = pc]
      BY <1>1
    <3>2. sender[i] = [pc |-> pc, bead |-> 0, created |-> FALSE]
      BY <3>1 DEF Unsaved
    <3> QED BY <3>2 DEF Saves
  <2> QED BY <1>1, <2>1
<1>6. tick \in Saves /\ cancel \in Saves /\ cancel.pc = "idle"
  BY DEF Init, Unsaved, Saves
<1>7. /\ delivered \in [Nudges -> Nat] /\ lapses \in [Nudges -> Nat] /\ posts \in [Nudges -> Nat]
      /\ errors \in [Nudges -> Nat]
      /\ \A i \in Nudges : delivered[i] = 0 /\ lapses[i] = 0 /\ errors[i] = 0 /\ posts[i] = 0
  BY DEF Init
<1>8. epoch \in Nat /\ wait \in {"none", "ready"}
  BY <1>1, <1>2
<1>9. TypeInv
  BY <1>3, <1>4, <1>5, <1>6, <1>7, <1>8 DEF TypeInv
<1>10. DeliveriesPaid
  <2>1. ASSUME NEW i \in Nudges
        PROVE  delivered[i] + Cardinality(Holders(i)) + One(Free(q[i])) <= posts[i] + lapses[i] + errors[i]
    <3>1. Holders(i) = {}
      BY <1>4 DEF Holders, Holds
    <3>2. Cardinality(Holders(i)) = 0
      BY <3>1, FS_EmptySet
    <3>3. ~Free(q[i])
      BY BlankIsItem DEF Init
    <3> QED BY <3>2, <3>3, <1>7 DEF One
  <2> QED BY <2>1 DEF DeliveriesPaid
<1>11. JobsAgree
  BY <1>4 DEF JobsAgree
<1>12. InjectedIsTrue
  BY DEF Init, InjectedIsTrue
<1>13. CancelEnds /\ ClosedMeansDelivered /\ NoNudgeVanishes
  BY <1>6, <1>7, <1>8 DEF CancelEnds, ClosedMeansDelivered, NoNudgeVanishes
<1> QED BY <1>9, <1>10, <1>11, <1>12, <1>13 DEF NudgeInv

LEMMA NudgeNext ==
    ASSUME NudgeInv, [Next]_vars
    PROVE  NudgeInv' /\ (DropsLeaveARecord \/ UNCHANGED vars)
<1>1. ASSUME NEW i \in Plain, SendSave(i) \/ SendEnqueue(i) \/ SendDone(i)
      PROVE  NudgeInv' /\ DropsLeaveARecord
  BY <1>1, SendSaveKeeps, SendEnqueueKeeps, SendDoneKeeps
<1>2. ASSUME NEW p \in Workers, WorkerStep(p) \/ CheckFails(p) \/ Die(p)
      PROVE  NudgeInv' /\ DropsLeaveARecord
  BY <1>2, ClaimKeeps, RejectKeeps, CheckKeeps, BlockKeeps, DeliverKeeps, SettleKeeps,
     CheckFailsKeeps, DieKeeps DEF WorkerStep
<1>3. ASSUME TickStep \/ Restart
      PROVE  NudgeInv' /\ DropsLeaveARecord
  BY <1>3, PrepareKeeps, DispatchKeeps, DispatchEnqueueKeeps, RestartKeeps DEF TickStep
<1>4. ASSUME CancelWait \/ Withdraw
      PROVE  NudgeInv' /\ DropsLeaveARecord
  BY <1>4, CancelWaitKeeps, WithdrawKeeps
<1>5. ASSUME NEW i \in Nudges, Sweep(i) \/ Lapse(i) \/ Passing(i)
      PROVE  NudgeInv' /\ DropsLeaveARecord
  BY <1>5, SweepKeeps, LapseKeeps, PassingKeeps
<1>6. ASSUME NewEpoch
      PROVE  NudgeInv' /\ DropsLeaveARecord
  BY <1>6, NewEpochKeeps
<1>7. CASE UNCHANGED vars
  BY <1>7 DEF vars, NudgeInv, TypeInv, StoreTypes, DeliveriesPaid, Holders, Holds, JobsAgree,
              InjectedIsTrue, CancelEnds, ClosedMeansDelivered, NoNudgeVanishes
<1> QED BY <1>1, <1>2, <1>3, <1>4, <1>5, <1>6, <1>7 DEF Next

\* The inductive invariant holds of every behaviour of the queue.
THEOREM NudgesAreInOrder == Spec => []NudgeInv
<1>1. Init => NudgeInv
  BY NudgeInit
<1>2. NudgeInv /\ [Next]_vars => NudgeInv'
  BY NudgeNext
<1> QED BY <1>1, <1>2, PTL DEF Spec

\* A command posts its nudge once, under a fresh id, in its one transaction.
PostedOnce ==
    \A i \in Plain : posts[i] <= IF sender[i].pc \in {"idle", "saved"} THEN 0 ELSE 1

LEMMA PostedOnceKept ==
    ASSUME NudgeInv, PostedOnce, [Next]_vars
    PROVE  PostedOnce'
<1>0. /\ sender \in [Plain -> Saves] /\ posts \in [Nudges -> Nat] /\ StoreTypes
      /\ Plain \subseteq Nudges /\ WaitNudge \in Nudges /\ WaitNudge \notin Plain
      /\ \A i \in Plain : posts[i] \in Nat
  BY Given, NudgeAssumption
<1>1. ASSUME NEW i \in Plain, SendSave(i) \/ SendDone(i)
      PROVE  PostedOnce'
  <2>1. sender[i].pc \in {"idle", "queued"} /\ posts' = posts
    BY <1>1 DEF SendSave, SendDone
  <2>2. \A j \in Plain : j # i => sender'[j] = sender[j]
    BY <1>0, <1>1 DEF SendSave, SendDone
  <2>3. sender[i].pc = "idle" \/ sender'[i].pc = "done"
    BY <1>0, <1>1 DEF SendSave, SendDone, Saves
  <2> QED BY <1>0, <2>1, <2>2, <2>3 DEF PostedOnce
<1>2. ASSUME NEW i \in Plain, SendEnqueue(i)
      PROVE  PostedOnce'
  <2>1. PICK mode \in Modes, S \in {{}, Nudges} : EnqueueTxn(i, sender[i], epoch, mode, S)
    BY <1>2 DEF SendEnqueue
  <2>2. UNCHANGED posts \/ posts' = [posts EXCEPT ![i] = @ + 1]
    BY <2>1 DEF EnqueueTxn
  <2>3. sender[i].pc = "saved" /\ sender' = [sender EXCEPT ![i].pc = "queued"]
    BY <1>2 DEF SendEnqueue
  <2>4. sender'[i].pc = "queued" /\ \A j \in Plain : j # i => sender'[j] = sender[j]
    BY <1>0, <2>3 DEF Saves
  <2>5. posts[i] = 0
    BY <1>0, <2>3 DEF PostedOnce
  <2>6. posts'[i] \in {0, 1} /\ \A j \in Plain : j # i => posts'[j] = posts[j]
    BY <1>0, <2>2, <2>5
  <2>7. ASSUME NEW j \in Plain
        PROVE  posts'[j] <= IF sender'[j].pc \in {"idle", "saved"} THEN 0 ELSE 1
    <3>1. CASE j = i
      BY <3>1, <2>4, <2>6
    <3>2. CASE j # i
      BY <3>2, <2>4, <2>6 DEF PostedOnce
    <3> QED BY <3>1, <3>2
  <2> QED BY <2>7 DEF PostedOnce
<1>3. ASSUME DispatchEnqueue
      PROVE  PostedOnce'
  <2>1. PICK mode \in Modes \ {"nil"}, S \in {{}, Nudges} : EnqueueTxn(WaitNudge, tick, 1, mode, S)
    BY <1>3 DEF DispatchEnqueue
  <2>2. UNCHANGED posts \/ posts' = [posts EXCEPT ![WaitNudge] = @ + 1]
    BY <2>1 DEF EnqueueTxn
  <2>3. sender' = sender /\ \A j \in Plain : posts'[j] = posts[j]
    BY <1>0, <1>3, <2>2 DEF DispatchEnqueue
  <2> QED BY <2>3 DEF PostedOnce
<1>4. ASSUME UNCHANGED <<sender, posts>>
      PROVE  PostedOnce'
  BY <1>4 DEF PostedOnce
<1>5. ASSUME NEW p \in Workers, WorkerStep(p) \/ CheckFails(p) \/ Die(p)
      PROVE  UNCHANGED <<sender, posts>>
  BY <1>5 DEF WorkerStep, Claim, Reject, Check, Block, Deliver, Settle, CheckFails, Die, Quiet
<1>6. ASSUME Prepare \/ Dispatch \/ Restart \/ CancelWait \/ Withdraw \/ NewEpoch
      PROVE  UNCHANGED <<sender, posts>>
  BY <1>6 DEF Prepare, Dispatch, Restart, CancelWait, Withdraw, WithdrawRead, WithdrawMark,
              WithdrawRemove, NewEpoch, Still
<1>7. ASSUME NEW i \in Nudges, Sweep(i) \/ Lapse(i) \/ Passing(i)
      PROVE  UNCHANGED <<sender, posts>>
  BY <1>7 DEF Sweep, Lapse, Passing, FallDue, Expire, RetentionPasses, Still
<1>8. UNCHANGED vars => UNCHANGED <<sender, posts>>
  BY DEF vars
<1> QED BY <1>1, <1>2, <1>3, <1>4, <1>5, <1>6, <1>7, <1>8 DEF Next, TickStep

\* However many deliverers race, a nudge that a command sent is delivered more
\* than once only for a lease that lapsed or for an error after the text was sent
\* (claimDueQueuedNudgesForTarget, releaseQueuedNudgeClaims,
\* recordQueuedNudgeFailure, ackQueuedNudgesWithOutcome).
THEOREM RedeliveriesAreExplained == Spec => []RedeliveryIsExplained
<1>1. ASSUME NudgeInv, PostedOnce
      PROVE  RedeliveryIsExplained
  <2> SUFFICES ASSUME NEW i \in Plain
               PROVE  delivered[i] <= 1 + lapses[i] + errors[i]
    BY DEF RedeliveryIsExplained
  <2>1. i \in Nudges
    BY DEF Nudges
  <2>2. delivered[i] \in Nat /\ lapses[i] \in Nat /\ errors[i] \in Nat /\ posts[i] \in Nat
    BY <2>1, <1>1 DEF NudgeInv, TypeInv
  <2>3. Cardinality(Holders(i)) \in Nat /\ One(Free(q[i])) \in Nat
    <3>1. Holders(i) \subseteq Workers
      BY DEF Holders
    <3>2. Cardinality(Holders(i)) \in Nat
      BY <3>1, NudgeAssumption, FS_Subset, FS_CardinalityType
    <3> QED BY <3>2 DEF One
  <2>4. delivered[i] + Cardinality(Holders(i)) + One(Free(q[i])) <= posts[i] + lapses[i] + errors[i]
    BY <2>1, <1>1 DEF NudgeInv, DeliveriesPaid
  <2>5. posts[i] <= 1
    BY <2>2, <1>1 DEF PostedOnce
  <2> QED BY <2>2, <2>3, <2>4, <2>5
<1>2. Init => PostedOnce
  BY DEF Init, PostedOnce, Nudges
<1>3. NudgeInv /\ PostedOnce /\ [Next]_vars => PostedOnce'
  BY PostedOnceKept
<1> QED BY <1>1, <1>2, <1>3, NudgesAreInOrder, PTL DEF Spec

\* A wait is closed as delivered only after its nudge reached the session
\* (finalizeReadyWaitFromNudge reads the shadow, which others overwrite).
THEOREM ClosedWaitsWereDelivered == Spec => []ClosedMeansDelivered
<1>1. NudgeInv => ClosedMeansDelivered
  BY DEF NudgeInv
<1> QED BY <1>1, NudgesAreInOrder, PTL

\* No queued nudge vanishes from the buckets without a delivery, a record or the
\* end of its wait.
THEOREM NudgesAreAccountedFor == Spec => []NoNudgeVanishes
<1>1. NudgeInv => NoNudgeVanishes
  BY DEF NudgeInv
<1> QED BY <1>1, NudgesAreInOrder, PTL

\* pruneDeadQueuedNudges drops no dead letter before its record is terminal, and
\* no other transaction drops one at all.
THEOREM DroppedLettersAreRecorded == Spec => DeadLettersLeaveARecord
<1>1. NudgeInv /\ [Next]_vars => [DropsLeaveARecord]_vars
  BY NudgeNext
<1> QED BY <1>1, NudgesAreInOrder, PTL DEF Spec, DeadLettersLeaveARecord
=============================================================================
