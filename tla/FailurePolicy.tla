---------------------------- MODULE FailurePolicy ----------------------------
(***************************************************************************)
(* How a run answers a failure (internal/unattended/failure.go): the ten   *)
(* declared classes and the response table.  What text a signature matches *)
(* is left to the specification of an execution, which carries the class   *)
(* of the first rule that matched.                                         *)
(***************************************************************************)
EXTENDS Integers

FailureClasses ==
    {"retryable", "code-defect", "environment", "auth", "governance", "dependency",
     "concurrent-writer", "external-service", "human-decision", "irreversible-boundary"}

\* The response table: how many attempts a class is worth, and whether it stops
\* the run.  The delays between attempts are left out.
Policies ==
    [c \in FailureClasses |->
        [attempts |-> CASE c = "retryable"        -> 4
                        [] c = "code-defect"      -> 3
                        [] c = "environment"      -> 2
                        [] c = "external-service" -> 5
                        [] OTHER                  -> 1,
         stopsRun |-> c \in {"concurrent-writer", "irreversible-boundary"}]]

\* PolicyFor: a class nobody declared gets one attempt and stops the run.
PolicyFor(c) ==
    IF c \in FailureClasses THEN Policies[c] ELSE [attempts |-> 1, stopsRun |-> TRUE]

=============================================================================
