-------------------------- MODULE MCCircuitBreaker --------------------------
(* The circuit breaker shared by three callers, with two failures to a trip.  *)
EXTENDS CircuitBreaker, TLC
CONSTANTS c1, c2, c3
MCCallers == {c1, c2, c3}
Interchangeable == Permutations(MCCallers)
=============================================================================
