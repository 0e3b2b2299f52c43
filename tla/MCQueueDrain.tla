----------------------------- MODULE MCQueueDrain -----------------------------
(* A plan of four tasks: a chain of three, and a documentation task that     *)
(* needs the chain's first and rests on nothing that may be behind a boundary. *)
EXTENDS QueueDrain

MCNeeds == <<{}, {1}, {2}, {1}>>
MCBand == <<1, 0, 1, 2>>
MCMaxAttempts == <<0, 2, 0, 0>>
MCMaxResumes == <<1, 1, 1, 1>>

=============================================================================
