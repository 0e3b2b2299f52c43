----------------------------- MODULE MCRunJournal -----------------------------
(* One task and the gate it feeds, in the journal of two runs. *)
EXTENDS RunJournal

MCQAGate == <<"build">>

MCRepertoire ==
    {[kind |-> "started", task |-> 1], [kind |-> "succeeded", task |-> 1],
     [kind |-> "gate", gate |-> "build", ev |-> [result |-> "pass", target |-> 1]]}

=============================================================================
