---------------------------- MODULE WriterLease ----------------------------
(***************************************************************************)
(* What the writer lock promises: on each host the worktree is leased to   *)
(* one exclusive session, or to any number of read-only ones.  A lease     *)
(* ends when its session gives it back or dies; nobody can take it away.   *)
(***************************************************************************)
CONSTANTS Sessions, Hosts

VARIABLES
    host,       \* where each session runs
    role,       \* what it declared itself to be
    leased      \* the sessions that have the worktree

Roles == {"writer", "controller", "read-only"}

Init ==
    /\ host \in [Sessions -> Hosts]
    /\ role \in [Sessions -> Roles]
    /\ leased = {}

Grant(s) ==
    /\ s \notin leased
    /\ \A t \in leased :
          host[t] = host[s] => role[s] = "read-only" /\ role[t] = "read-only"
    /\ leased' = leased \cup {s}
    /\ UNCHANGED <<host, role>>

GiveBack(s) ==
    /\ s \in leased
    /\ leased' = leased \ {s}
    /\ UNCHANGED <<host, role>>

Next == \E s \in Sessions : Grant(s) \/ GiveBack(s)

Spec == Init /\ [][Next]_<<host, role, leased>>
=============================================================================
