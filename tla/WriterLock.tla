----------------------------- MODULE WriterLock -----------------------------
(***************************************************************************)
(* The worktree writer lock of internal/unattended (lock.go, lock_unix.go, *)
(* atomicfile.go) as the sessions of one worktree use it: the preflight    *)
(* probe, Acquire, Release, a crash at any point, and ForceClearOwner.     *)
(*                                                                         *)
(* Two things are kept apart, as the code keeps them apart.  The flock is  *)
(* the authority and belongs to the kernel of one host; the owner record   *)
(* is a file every host of a shared worktree sees, it outlives its writer, *)
(* and it is replaced by a remove followed by a rename.                    *)
(***************************************************************************)
CONSTANTS
    Sessions,       \* processes that may claim the worktree
    Hosts,
    Sites,          \* where and how the worktree may be used: see Settings
    NoOwner

Roles == {"writer", "controller", "read-only"}

\* The host (and OS family) each session runs on, the roles their specifications
\* may declare, and whether somebody may call ForceClearOwner.
Settings == [host : [Sessions -> Hosts], roles : SUBSET Roles, clears : BOOLEAN]

ASSUME WriterLockAssumption ==
    /\ Sites \subseteq Settings
    /\ NoOwner \notin Sessions

VARIABLES
    site,       \* the setting of this worktree; it does not change
    pc,         \* where each session is in Begin, in its run, or in Close
    role,       \* the role each session declares
    flock,      \* the mode in which each session has the lock file flocked
    owner,      \* owner.json: NoOwner, or who wrote it and whom it displaced
    superseded, \* superseded.json: the last owner archived
    prev,       \* the owner each session read in Acquire
    clearing    \* how far a ForceClearOwner call has come, and what it read

vars == <<site, pc, role, flock, owner, superseded, prev, clearing>>

-----------------------------------------------------------------------------
HostOf == site.host

HumanMayClear == site.clears

\* Role.Exclusive
Exclusive(r) == r \in {"writer", "controller"}

Modes == {"none", "SH", "EX"}

Locations == {"down", "probing", "probed", "refused", "foreign", "locked",
              "archive", "replace", "rename", "held", "unlink", "unlock"}

Owner == [sess : Sessions, displaced : Sessions \cup {NoOwner}]

Absent == [sess |-> NoOwner, displaced |-> NoOwner]

Mode(s) == IF Exclusive(role[s]) THEN "EX" ELSE "SH"

\* Mutant: an exclusive request looks for exclusive holders only.
GrantableBesideReaders(s, mode) ==
    \A t \in Sessions \ {s} : HostOf[t] = HostOf[s] => flock[t] # "EX"

\* tryLockFile: the kernel grants a shared lock beside shared locks only, and
\* sees the locks of its own host only.
Grantable(s, mode) ==
    \A t \in Sessions \ {s} :
        (HostOf[t] = HostOf[s] /\ flock[t] # "none") => (mode = "SH" /\ flock[t] = "SH")

\* isForeign: the recorded owner ran on a host this kernel cannot arbitrate for.
IsForeign(s, o) == HostOf[o] # HostOf[s]

At(s, l) == pc[s] = l

Goto(s, l) == pc' = [pc EXCEPT ![s] = l]

SetFlock(s, m) == flock' = [flock EXCEPT ![s] = m]

\* The files and locks are well formed: a record names one owner and at most the
\* one it displaced, never a chain of them (Owner, archiveOwner).
TypeOK ==
    /\ site \in Settings
    /\ pc \in [Sessions -> Locations]
    /\ role \in [Sessions -> Roles]
    /\ flock \in [Sessions -> Modes]
    /\ owner \in Owner \cup {Absent}
    /\ superseded \in Sessions \cup {NoOwner}
    /\ prev \in [Sessions -> Sessions \cup {NoOwner}]
    /\ clearing \in [step : {"idle", "archive", "remove"},
                     read : Sessions \cup {NoOwner}]

Init ==
    /\ site \in Sites
    /\ pc = [s \in Sessions |-> "down"]
    /\ role \in [Sessions -> site.roles]
    /\ flock = [s \in Sessions |-> "none"]
    /\ owner = Absent
    /\ superseded = NoOwner
    /\ prev = [s \in Sessions |-> NoOwner]
    /\ clearing = [step |-> "idle", read |-> NoOwner]

-----------------------------------------------------------------------------
(* ProbeOwner, called by the competing-writer check of every preflight.  It *)
(* takes the lock exclusively to ask whether anybody has it: a lock it      *)
(* cannot get is a live owner and the preflight fails.                      *)

ProbeTake(s) ==
    /\ At(s, "down")
    /\ Grantable(s, "EX")
    /\ SetFlock(s, "EX")
    /\ Goto(s, "probing")
    /\ UNCHANGED <<role, owner, superseded, prev, clearing>>

\* Mutant: a record on disk counts as somebody being here.
ProbeLiveByRecord(s) ==
    /\ At(s, "down")
    /\ ~Grantable(s, "EX") \/ owner # Absent
    /\ Goto(s, "refused")
    /\ UNCHANGED <<role, flock, owner, superseded, prev, clearing>>

ProbeLive(s) ==
    /\ At(s, "down")
    /\ ~Grantable(s, "EX")
    /\ Goto(s, "refused")
    /\ UNCHANGED <<role, flock, owner, superseded, prev, clearing>>

ProbeDrop(s) ==
    /\ At(s, "probing")
    /\ SetFlock(s, "none")
    /\ Goto(s, "probed")
    /\ UNCHANGED <<role, owner, superseded, prev, clearing>>

-----------------------------------------------------------------------------
(* Acquire *)

TryLock(s) ==
    /\ At(s, "probed")
    /\ Grantable(s, Mode(s))
    /\ SetFlock(s, Mode(s))
    /\ Goto(s, "locked")
    /\ UNCHANGED <<role, owner, superseded, prev, clearing>>

\* ErrWriterHeld
RefuseHeld(s) ==
    /\ At(s, "probed")
    /\ ~Grantable(s, Mode(s))
    /\ Goto(s, "refused")
    /\ UNCHANGED <<role, flock, owner, superseded, prev, clearing>>

\* Only an exclusive role obeys a foreign record (ErrForeignWriter).
ObeysForeign(s) ==
    /\ owner # Absent
    /\ Exclusive(role[s])
    /\ IsForeign(s, owner.sess)

RefuseForeign(s) ==
    /\ At(s, "locked")
    /\ ObeysForeign(s)
    /\ SetFlock(s, "none")
    /\ Goto(s, "foreign")
    /\ UNCHANGED <<role, owner, superseded, prev, clearing>>

ReadPrevious(s) ==
    /\ At(s, "locked")
    /\ ~ObeysForeign(s)
    /\ prev' = [prev EXCEPT ![s] = owner.sess]
    /\ Goto(s, IF owner = Absent THEN "replace" ELSE "archive")
    /\ UNCHANGED <<role, flock, owner, superseded, clearing>>

\* Mutant: the archive keeps the first owner ever displaced.
ArchiveOnce(s) ==
    /\ At(s, "archive")
    /\ superseded' = IF superseded = NoOwner THEN prev[s] ELSE superseded
    /\ Goto(s, "replace")
    /\ UNCHANGED <<role, flock, owner, prev, clearing>>

ArchivePrevious(s) ==
    /\ At(s, "archive")
    /\ superseded' = prev[s]
    /\ Goto(s, "replace")
    /\ UNCHANGED <<role, flock, owner, prev, clearing>>

\* writeFileAtomic removes the old record before it renames the new one in.
RemoveOld(s) ==
    /\ At(s, "replace")
    /\ owner' = Absent
    /\ Goto(s, "rename")
    /\ UNCHANGED <<role, flock, superseded, prev, clearing>>

RenameNew(s) ==
    /\ At(s, "rename")
    /\ owner' = [sess |-> s, displaced |-> prev[s]]
    /\ Goto(s, "held")
    /\ UNCHANGED <<role, flock, superseded, prev, clearing>>

-----------------------------------------------------------------------------
(* Release, and the two ways a process ends without it: it dies, or a step  *)
(* of Acquire returns an I/O error and unlocks.  Both leave the files as    *)
(* they are.                                                                *)

\* Mutant: the lock is dropped before the record is removed.
ReleaseUnlocksFirst(s) ==
    /\ At(s, "held")
    /\ SetFlock(s, "none")
    /\ Goto(s, IF owner.sess = s THEN "unlink" ELSE "unlock")
    /\ UNCHANGED <<role, owner, superseded, prev, clearing>>

ReleaseRead(s) ==
    /\ At(s, "held")
    /\ Goto(s, IF owner.sess = s THEN "unlink" ELSE "unlock")
    /\ UNCHANGED <<role, flock, owner, superseded, prev, clearing>>

ReleaseRemove(s) ==
    /\ At(s, "unlink")
    /\ owner' = Absent
    /\ Goto(s, "unlock")
    /\ UNCHANGED <<role, flock, superseded, prev, clearing>>

Forget(s) == prev' = [prev EXCEPT ![s] = NoOwner]

ReleaseUnlock(s) ==
    /\ At(s, "unlock")
    /\ SetFlock(s, "none")
    /\ Goto(s, "down")
    /\ Forget(s)
    /\ UNCHANGED <<role, owner, superseded, clearing>>

Die(s) ==
    /\ ~At(s, "down")
    /\ SetFlock(s, "none")
    /\ Goto(s, "down")
    /\ Forget(s)
    /\ UNCHANGED <<role, owner, superseded, clearing>>

-----------------------------------------------------------------------------
(* ForceClearOwner: a person archives and removes the record without taking *)
(* the lock.                                                                *)

ClearRead ==
    /\ HumanMayClear
    /\ clearing.step = "idle"
    /\ owner # Absent
    /\ clearing' = [step |-> "archive", read |-> owner.sess]
    /\ UNCHANGED <<pc, role, flock, owner, superseded, prev>>

ClearArchive ==
    /\ clearing.step = "archive"
    /\ superseded' = clearing.read
    /\ clearing' = [clearing EXCEPT !.step = "remove"]
    /\ UNCHANGED <<pc, role, flock, owner, prev>>

ClearRemove ==
    /\ clearing.step = "remove"
    /\ owner' = Absent
    /\ clearing' = [step |-> "idle", read |-> NoOwner]
    /\ UNCHANGED <<pc, role, flock, superseded, prev>>

-----------------------------------------------------------------------------
Probe(s) == ProbeTake(s) \/ ProbeLive(s) \/ ProbeDrop(s)

Acquire(s) ==
    \/ TryLock(s) \/ RefuseHeld(s) \/ RefuseForeign(s) \/ ReadPrevious(s)
    \/ ArchivePrevious(s) \/ RemoveOld(s) \/ RenameNew(s)

Release(s) == ReleaseRead(s) \/ ReleaseRemove(s) \/ ReleaseUnlock(s)

ForceClearOwner == ClearRead \/ ClearArchive \/ ClearRemove

Next ==
    /\ \/ \E s \in Sessions : Probe(s) \/ Acquire(s) \/ Release(s) \/ Die(s)
       \/ ForceClearOwner
    /\ UNCHANGED site

Spec == Init /\ [][Next]_vars

-----------------------------------------------------------------------------
(* Properties *)

\* Between Acquire's return and the unlock a session owns the worktree.
Owns(s) == pc[s] \in {"held", "unlink", "unlock"}

\* Exclusion of lock.go's roles: on one host an exclusive owner owns the
\* worktree alone, whatever crashes, probes and clears happen around it.
MutualExclusion ==
    \A s, t \in Sessions :
        (s # t /\ HostOf[s] = HostOf[t] /\ Owns(s) /\ Owns(t))
            => ~Exclusive(role[s]) /\ ~Exclusive(role[t])

\* The worktree is used from one host and nobody clears records by hand: then the
\* lock covers the record too.
Unshared == ~HumanMayClear /\ \A s, t \in Sessions : HostOf[s] = HostOf[t]

\* What Fence.Check relies on: while an exclusive session holds the lock, the
\* owner record names that session and no other.
RecordNamesHolder ==
    Unshared => \A s \in Sessions :
        At(s, "held") /\ Exclusive(role[s]) => owner.sess = s

\* Acquire makes a takeover "visible from either file": as long as the new
\* owner holds the lock, the archive names the owner its record displaced.
TakeoverVisible ==
    Unshared => \A s \in Sessions :
        (At(s, "held") /\ Exclusive(role[s]) /\ prev[s] # NoOwner)
            => superseded = prev[s] /\ owner.displaced = prev[s]

\* An exclusive Acquire destroys a record only once that very record has been
\* archived, so a crash between the remove and the rename loses no evidence.
ArchivedBeforeRemoved ==
    [][\A s \in Sessions :
          (Unshared /\ At(s, "replace") /\ pc'[s] = "rename" /\ Exclusive(role[s]) /\ owner # Absent)
              => superseded = owner.sess]_vars

\* ProbeOwner takes the very lock that starting sessions compete for.  The
\* sessions can never all have been refused: whoever is refused last was
\* refused by one that is still on its way, or is still recorded as dead.
SomebodyGetsThrough ==
    Sessions # {} => \E s \in Sessions : ~At(s, "refused")

\* The abstract lease the lock implements.
Lease == INSTANCE WriterLease WITH host <- HostOf, leased <- {s \in Sessions : Owns(s)}

\* The lock of lock.go behaves as a lease that is granted when Acquire returns
\* and ends with the unlock or the death of its session.
LeaseRefined == Lease!Spec
=============================================================================
