---------------------------- MODULE MCWriterLock ----------------------------
(* An instance of WriterLock for TLC. *)
EXTENDS WriterLock, TLC

CONSTANTS s1, s2, s3, h1, h2

\* One host, any roles, and nobody clears records by hand.
OneHost == [host |-> [s \in Sessions |-> h1], roles |-> Roles, clears |-> FALSE]

\* Two sessions on one host and one on another, and records may be cleared.
TwoHosts == [host   |-> [s \in Sessions |-> IF s = s3 THEN h2 ELSE h1],
             roles  |-> {"writer", "read-only"},
             clears |-> TRUE]

MCSites == {OneHost, TwoHosts}

\* The two sessions that share a host at either site.
SymmetricPeers == Permutations({s1, s2})
=============================================================================
