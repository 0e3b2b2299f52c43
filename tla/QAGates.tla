------------------------------- MODULE QAGates -------------------------------
(***************************************************************************)
(* The mechanical quality gates (internal/unattended/qa.go): which gates a *)
(* packet must pass, what the evidence ledger keeps when a gate reports    *)
(* again, and whether the evidence licenses the revision in hand.          *)
(* Revisions are numbers; 0 is the empty SHA of a repository with no       *)
(* commit, which certifies nothing.                                        *)
(***************************************************************************)
EXTENDS Integers

CONSTANTS
    Risk,         \* the packet's risk class
    RequireGates, \* the gates the project's policy adds
    QAGate        \* the gate each task produces evidence for, or NoGate

NoGate == "none"

Gates == {"build", "unit-test", "static-analysis", "control-safety"}

\* RiskClass.Rank: a class outside the declared four ranks above them.
Rank(r) == CASE r = "Q0" -> 0 [] r = "Q1" -> 1 [] r = "Q2" -> 2 [] r = "Q3" -> 3 [] OTHER -> 4

\* The catalogue: the lowest class at which each gate is mandatory.
MinRisk ==
    [g \in Gates |-> CASE g \in {"build", "unit-test"} -> "Q1"
                       [] g = "static-analysis"        -> "Q2"
                       [] g = "control-safety"         -> "Q3"]

RequiredGates == {g \in Gates : Rank(Risk) >= Rank(MinRisk[g])} \cup RequireGates

\* What ValidateQAPacket demands before a run may start: a declared class, known
\* gates, and exactly one task to produce each gate the packet requires.
ASSUME PacketAssumption ==
    /\ Risk \in {"Q0", "Q1", "Q2", "Q3"}
    /\ RequireGates \subseteq Gates
    /\ \A t \in DOMAIN QAGate : QAGate[t] \in Gates \cup {NoGate}
    /\ \A t, u \in DOMAIN QAGate : (QAGate[t] = QAGate[u] /\ QAGate[t] # NoGate) => t = u
    /\ \A g \in RequiredGates : \E t \in DOMAIN QAGate : QAGate[t] = g

Results == {"pass", "fail", "error"}

Evidence == [result : Results, target : Nat]

NoEvidence == [result |-> "none", target |-> 0]

\* A ledger keeps the evidence of each gate, or none.
Ledgers == [Gates -> Evidence \cup {NoEvidence}]

EmptyLedger == [g \in Gates |-> NoEvidence]

Severity(r) == CASE r = "pass" -> 0 [] r = "error" -> 1 [] r = "fail" -> 2 [] OTHER -> 3

\* Mutant: the newest verdict wins.
MergeLatest(existing, observed) == observed

MergeEvidence(existing, observed) ==
    IF existing # NoEvidence /\ existing.target = observed.target
                             /\ Severity(existing.result) >= Severity(observed.result)
    THEN existing
    ELSE observed

Certifies(ev, head) == ev.result = "pass" /\ ev.target # 0 /\ head # 0 /\ ev.target = head

\* EvaluateProgression: allowed when nothing is required or every required gate
\* is certified for the revision in hand.
Allowed(ledger, head) == \A g \in RequiredGates : Certifies(ledger[g], head)

=============================================================================
