--------------------------- MODULE MCUnattendedRun ---------------------------
EXTENDS UnattendedRun, TLC

\* A write and the test of what it wrote.
MCNeeds == <<{}, {1}>>
MCBand == <<1, 0>>
MCMaxAttempts == <<2, 2>>
MCMaxResumes == <<1, 1>>
MCQAGate == <<"none", "unit-test">>
MCOneAttempt == <<1, 1>>

Interchangeable == Permutations(Procs)

=============================================================================
