---------------------------- MODULE WorktreeFence ----------------------------
(***************************************************************************)
(* The fence of internal/unattended/fence.go as a value: the position a    *)
(* run works from, checked before every mutating stage against the owner   *)
(* record and the repository, and moved by the run's own advances.         *)
(***************************************************************************)

\* TakeFence: who claims which position.
TakeFence(repo, me) == [run |-> me, branch |-> repo.branch, head |-> repo.head]

\* Fence.Check.  Ownership first: without it the position is somebody else's
\* business.
Check(f, owner, repo) ==
    CASE owner # f.run                                -> "owner-lost"
      [] owner = f.run /\ ~repo.readable              -> "unreadable"
      [] owner = f.run /\ repo.readable /\ repo.branch # f.branch -> "branch-changed"
      [] owner = f.run /\ repo.readable /\ repo.branch = f.branch /\ repo.head # f.head -> "head-moved"
      [] OTHER                                        -> "intact"

\* RecordAuthorisedAdvance: the head is taken over from the repository unless
\* ownership, the worktree or the branch was lost.
Advance(f, owner, repo) ==
    IF owner = f.run /\ repo.readable /\ repo.branch = f.branch
    THEN [f EXCEPT !.head = repo.head]
    ELSE f

=============================================================================
