------------------------------ MODULE RunLedger ------------------------------
(***************************************************************************)
(* What a run's journal says of it: the fold of Replay                     *)
(* (internal/unattended/journal.go), one record at a time.  Records whose  *)
(* kind Replay does not look at leave the state as it is and are not       *)
(* modelled.                                                               *)
(***************************************************************************)
EXTENDS QAGates

\* The tasks records name.
LedgerTasks == DOMAIN QAGate

RunOutcomes == {"completed", "failed", "blocked-human", "awaiting-auth"}

Records ==
    [kind : {"started", "succeeded", "resumed", "failed", "held"}, task : LedgerTasks]
    \cup [kind : {"gate"}, gate : Gates, ev : Evidence]
    \cup [kind : {"finished"}, outcome : RunOutcomes]

ResumeStates ==
    [succeeded : SUBSET LedgerTasks, attempted : SUBSET LedgerTasks,
     attempts : [LedgerTasks -> Nat], resumes : [LedgerTasks -> Nat],
     interrupted : SUBSET LedgerTasks, gates : Ledgers, outcome : RunOutcomes \cup {"none"}]

EmptyResume ==
    [succeeded |-> {}, attempted |-> {}, attempts |-> [t \in LedgerTasks |-> 0],
     resumes |-> [t \in LedgerTasks |-> 0], interrupted |-> {},
     gates |-> EmptyLedger, outcome |-> "none"]

\* Session.Resumed: the run has been here before.  attempted has the tasks the
\* journal has an attempt count for, be it 0.
Resumed(rs) == rs.succeeded # {} \/ rs.attempted # {}

\* Mutant: a resume keeps the attempt its task-started record counted.
AttemptsKept(n) == n

\* Mutant: the attempt is given back without looking whether it was recorded.
AttemptsUnfloored(n) == n - 1

\* A resume did not spend the attempt its task-started record counted.
AttemptsAfterResume(n) == IF n > 0 THEN n - 1 ELSE 0

\* One record of this run folded into its resume state.
Apply(st, r) ==
    CASE r.kind = "started"   -> [st EXCEPT !.interrupted = @ \cup {r.task},
                                            !.attempted = @ \cup {r.task},
                                            !.attempts[r.task] = @ + 1]
      [] r.kind = "succeeded" -> [st EXCEPT !.succeeded = @ \cup {r.task}, !.interrupted = @ \ {r.task}]
      [] r.kind = "resumed"   -> [st EXCEPT !.resumes[r.task] = @ + 1,
                                            !.attempts[r.task] = AttemptsAfterResume(@)]
      [] r.kind \in {"failed", "held"} -> [st EXCEPT !.interrupted = @ \ {r.task}]
      [] r.kind = "gate"      -> [st EXCEPT !.gates[r.gate] = MergeEvidence(@, r.ev)]
      [] r.kind = "finished"  -> [st EXCEPT !.outcome = r.outcome]

=============================================================================
