-------------------------- MODULE MCConvergenceLoop --------------------------
(* Instances of ConvergenceLoop for TLC.                                    *)
EXTENDS ConvergenceLoop

\* Every kind of gate and trigger, over the store of the package's contract and
\* over the adapter's.  Loops that iterate by themselves have up to three
\* iterations, so that one is neither the first nor the last; the others two.
MCLoops ==
    { l \in [gate : {"manual", "condition", "unset"},
             onTimeout : {"iterate", "manual", "terminate"},
             trigger : BOOLEAN, max : 1..3, listsClosed : BOOLEAN] :
        /\ l.gate # "condition" => l.onTimeout = "iterate"
        /\ l.max \in IF l.gate = "condition" /\ ~l.trigger THEN {1, 3} ELSE {1, 2} }
=============================================================================
