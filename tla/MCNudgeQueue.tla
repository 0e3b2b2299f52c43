---------------------------- MODULE MCNudgeQueue ----------------------------
(* The nudge queue of one session with two deliverers: its wait's nudge, a     *)
(* pair of nudges of one reference, and a nudge without a shadow.              *)
EXTENDS NudgeQueue, TLC
CONSTANTS w, a, b, c, p1, p2
Pair == {a, b}
Bare == {c}
Sent == Pair \cup Bare
Nobody == {}
OneWorker == {p1}
MCWorkers == {p1, p2}
Waiting == [waits |-> TRUE, sent |-> {}, crew |-> MCWorkers, epoch |-> 1]
Paired == [waits : {FALSE}, sent : {Pair}, crew : {{p1}, {p2}}, epoch : {2}]
Bared == [waits |-> FALSE, sent |-> Bare, crew |-> MCWorkers, epoch |-> 1]
EachCase == {Waiting, Bared} \cup Paired
\* The deliverers are alike, and so are the two nudges of the pair.
Interchangeable == Permutations(MCWorkers) \cup Permutations(Pair)
OnlyWait == {[Waiting EXCEPT !.crew = OneWorker]}
=============================================================================
