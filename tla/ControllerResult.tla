--------------------------- MODULE ControllerResult ---------------------------
(***************************************************************************)
(* What one execution of a task means (internal/unattended/controller.go): *)
(* the result file a supervised task writes, its parse, and the precedence *)
(* of what the task said over the exit status it left behind.              *)
(*                                                                         *)
(* An execution is what Runner.observe returns: whether the process exited *)
(* zero, whether it could be run at all, whether the task declared a       *)
(* result file, what that file holds, and the class the first matching     *)
(* failure signature gives its output.                                     *)
(***************************************************************************)
EXTENDS FailurePolicy

CONSTANTS
    Signatures, \* the classes the signatures of this plan's outputs can yield
    Reported    \* the terminal reasons this plan's harness reports

States == {"CONTINUE", "COMPLETE", "HUMAN_BLOCKED", "FAILED"}

\* The reasons the package knows, none, and one it does not know.
Reasons == {"max_turns", "error_max_turns", "network_timeout", "rate_limited",
            "authentication_failed", "permission_denied", "none", "other"}

ASSUME ControllerAssumption ==
    /\ Signatures \subseteq FailureClasses
    /\ Reported \subseteq Reasons

ResumableReasons == {"max_turns", "error_max_turns"}

ReasonClasses ==
    [r \in {"network_timeout", "rate_limited", "authentication_failed", "permission_denied"} |->
        IF r \in {"network_timeout", "rate_limited"} THEN "external-service" ELSE "auth"]

\* A result document as its two reason fields and its state give it; "unset"
\* stands for a missing or undeclared state, "unreadable" for a file that is
\* absent, empty or not JSON.
Documents == [state : States \cup {"unset"}, terminal : Reported, subtype : Reported]

Unreadable == [state |-> "unreadable", terminal |-> "none", subtype |-> "none"]

\* ParseControllerResult, ReadControllerResult.
Usable(d) == d.state \in States

\* effectiveReason
EffectiveReason(d) == IF d.terminal # "none" THEN d.terminal ELSE d.subtype

\* What an attempt at a task can come to, by whether the task declared a result.
Executions(supervised) ==
    [exitedZero : BOOLEAN, ranErr : BOOLEAN, declared : {supervised},
     doc : IF supervised THEN Documents \cup {Unreadable} ELSE {Unreadable},
     signature : Signatures]

Verdict(disposition, class, gate) ==
    [disposition |-> disposition, class |-> class, gate |-> gate]

\* classForBlockedReason
ClassForBlockedReason(r) ==
    IF r \in DOMAIN ReasonClasses /\ ReasonClasses[r] = "auth" THEN "auth" ELSE "human-decision"

ClassForFailure(r, signature) ==
    IF r \in DOMAIN ReasonClasses THEN ReasonClasses[r] ELSE signature

InterpretStructured(d, signature) ==
    LET reason == EffectiveReason(d)
        class  == ClassForFailure(reason, signature)
    IN  IF reason \in ResumableReasons
        THEN Verdict("resume", "none", "none")
        ELSE CASE d.state = "COMPLETE"      -> Verdict("succeeded", "none", "pass")
               [] d.state = "CONTINUE"      -> Verdict("continue", "none", "none")
               [] d.state = "HUMAN_BLOCKED" ->
                    Verdict("human-blocked", ClassForBlockedReason(reason), "error")
               [] d.state = "FAILED" ->
                    IF class = "auth" THEN Verdict("human-blocked", class, "error")
                                      ELSE Verdict("retry", class, "fail")

ExitedClean(e) == e.exitedZero /\ ~e.ranErr

\* Mutant: a silent task is believed about its exit status.
InterpretSilenceByExit(e) ==
    IF e.declared /\ Usable(e.doc)
    THEN InterpretStructured(e.doc, e.signature)
    ELSE IF ExitedClean(e) THEN Verdict("succeeded", "none", "pass")
                           ELSE Verdict("retry", e.signature, "fail")

\* Mutant: the declared state is read before the turn cap.
InterpretStateFirst(e) ==
    CASE e.declared /\ ~Usable(e.doc) ->
            Verdict("fail-safe", IF ExitedClean(e) THEN "environment" ELSE e.signature, "error")
      [] e.declared /\ Usable(e.doc) ->
            IF e.doc.state = "FAILED"
            THEN InterpretStructured([e.doc EXCEPT !.terminal = "other"], e.signature)
            ELSE InterpretStructured(e.doc, e.signature)
      [] ~e.declared ->
            IF ExitedClean(e) THEN Verdict("succeeded", "none", "pass")
                              ELSE Verdict("retry", e.signature, "fail")

InterpretExecution(e) ==
    CASE e.declared /\ ~Usable(e.doc) ->
            Verdict("fail-safe", IF ExitedClean(e) THEN "environment" ELSE e.signature, "error")
      [] e.declared /\ Usable(e.doc) -> InterpretStructured(e.doc, e.signature)
      [] ~e.declared ->
            IF ExitedClean(e) THEN Verdict("succeeded", "none", "pass")
                              ELSE Verdict("retry", e.signature, "fail")

\* Disposition.Resumable
Resumable(v) == v.disposition \in {"continue", "resume"}

\* Every way an attempt can come out: what its result said, whether it was cut
\* off at the turn cap, and what that means.
Outcome(e) ==
    [said    |-> IF Usable(e.doc) THEN e.doc.state ELSE "nothing",
     capped  |-> Usable(e.doc) /\ EffectiveReason(e.doc) \in ResumableReasons,
     verdict |-> InterpretExecution(e)]

Outcomes == [supervised \in BOOLEAN |-> {Outcome(e) : e \in Executions(supervised)}]

=============================================================================
