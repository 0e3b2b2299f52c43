-------------------------- MODULE WriterLockProofs --------------------------
(***************************************************************************)
(* Theorems about WriterLock, for any set of sessions and hosts.           *)
(***************************************************************************)
EXTENDS WriterLock, TLAPS

\* Where a session is determines what it has flocked.
Locked == {"locked", "archive", "replace", "rename", "held", "unlink", "unlock"}

FlockMatchesLocation ==
    \A s \in Sessions :
        /\ pc[s] \in Locked => flock[s] = Mode(s)
        /\ At(s, "probing") => flock[s] = "EX"
        /\ pc[s] \in {"down", "probed", "refused", "foreign"} => flock[s] = "none"

\* The kernel never grants conflicting locks on one host.
FlocksCompatible ==
    \A s, t \in Sessions :
        (s # t /\ HostOf[s] = HostOf[t] /\ flock[s] # "none" /\ flock[t] # "none")
            => flock[s] = "SH" /\ flock[t] = "SH"

\* The inductive invariant behind exclusion.
LockInv == TypeOK /\ FlockMatchesLocation /\ FlocksCompatible

-----------------------------------------------------------------------------
\* The setting of a worktree stays what it was.
LEMMA SiteStays ==
    ASSUME [Next]_vars
    PROVE  site' = site /\ HostOf' = HostOf /\ Unshared' = Unshared
BY DEF Next, vars, HostOf, HumanMayClear, Unshared

\* Before anything runs every variable is in its type.
LEMMA TypeInit == Init => TypeOK
BY WriterLockAssumption DEF Init, TypeOK, Settings, Locations, Modes, Owner, Absent

\* Every step of a session, a crash or a person keeps every variable in its
\* type.
LEMMA TypeNext == TypeOK /\ [Next]_vars => TypeOK'
<1>1. SUFFICES ASSUME TypeOK, [Next]_vars PROVE TypeOK'
  OBVIOUS
<1>0. site' = site
  BY <1>1, SiteStays
<1>. USE <1>0, <1>1 DEF TypeOK, Locations, Modes, Owner, Absent, At, Goto, SetFlock, Forget
<1>2. ASSUME NEW s \in Sessions, Probe(s) PROVE TypeOK'
  BY <1>2 DEF Probe, ProbeTake, ProbeLive, ProbeDrop
<1>3. ASSUME NEW s \in Sessions, Acquire(s) PROVE TypeOK'
  <2>1. CASE TryLock(s) \/ RefuseHeld(s) \/ RefuseForeign(s)
    BY <2>1 DEF TryLock, RefuseHeld, RefuseForeign, Mode
  <2>2. CASE ReadPrevious(s)
    BY <2>2 DEF ReadPrevious
  <2>3. CASE ArchivePrevious(s) \/ RemoveOld(s)
    BY <2>3 DEF ArchivePrevious, RemoveOld
  <2>4. CASE RenameNew(s)
    BY <2>4 DEF RenameNew
  <2>. QED BY <1>3, <2>1, <2>2, <2>3, <2>4 DEF Acquire
<1>4. ASSUME NEW s \in Sessions, Release(s) PROVE TypeOK'
  BY <1>4 DEF Release, ReleaseRead, ReleaseRemove, ReleaseUnlock
<1>5. ASSUME NEW s \in Sessions, Die(s) PROVE TypeOK'
  BY <1>5 DEF Die
<1>6. CASE ForceClearOwner
  BY <1>6 DEF ForceClearOwner, ClearRead, ClearArchive, ClearRemove
<1>7. CASE UNCHANGED vars
  BY <1>7 DEF vars
<1>. QED BY <1>1, <1>2, <1>3, <1>4, <1>5, <1>6, <1>7 DEF Next

-----------------------------------------------------------------------------
\* Before anything runs nobody holds a lock, so the locks are compatible.
LEMMA LockInvInit == Init => LockInv
BY TypeInit DEF Init, LockInv, FlockMatchesLocation, FlocksCompatible, Locked, At

\* A session that gets the lock is compatible with every other session of its
\* host; one that drops it is compatible with all of them.
LEMMA LockInvNext == LockInv /\ [Next]_vars => LockInv'
<1>1. SUFFICES ASSUME LockInv, [Next]_vars PROVE LockInv'
  OBVIOUS
<1>2. TypeOK /\ TypeOK'
  BY <1>1, TypeNext DEF LockInv
<1>0. HostOf' = HostOf
  BY <1>1, SiteStays
<1>. USE <1>0, <1>1, <1>2 DEF LockInv, TypeOK, FlockMatchesLocation, FlocksCompatible,
                        Locked, At, Goto, SetFlock, Forget, Mode, Modes
<1>3. ASSUME NEW s \in Sessions, Probe(s) PROVE LockInv'
  BY <1>3 DEF Probe, ProbeTake, ProbeLive, ProbeDrop, Grantable
<1>4. ASSUME NEW s \in Sessions, Acquire(s) PROVE LockInv'
  <2>1. CASE TryLock(s)
    BY <2>1 DEF TryLock, Grantable
  <2>2. CASE RefuseHeld(s) \/ RefuseForeign(s)
    BY <2>2 DEF RefuseHeld, RefuseForeign
  <2>3. CASE ReadPrevious(s) \/ ArchivePrevious(s) \/ RemoveOld(s) \/ RenameNew(s)
    BY <2>3 DEF ReadPrevious, ArchivePrevious, RemoveOld, RenameNew
  <2>. QED BY <1>4, <2>1, <2>2, <2>3 DEF Acquire
<1>5. ASSUME NEW s \in Sessions, Release(s) PROVE LockInv'
  BY <1>5 DEF Release, ReleaseRead, ReleaseRemove, ReleaseUnlock
<1>6. ASSUME NEW s \in Sessions, Die(s) PROVE LockInv'
  BY <1>6 DEF Die
<1>7. CASE ForceClearOwner
  BY <1>7 DEF ForceClearOwner, ClearRead, ClearArchive, ClearRemove
<1>8. CASE UNCHANGED vars
  BY <1>8 DEF vars
<1>. QED BY <1>1, <1>3, <1>4, <1>5, <1>6, <1>7, <1>8 DEF Next

\* WriterLock keeps its types and its locks compatible.
THEOREM LockInvariant == Spec => []LockInv
BY LockInvInit, LockInvNext, PTL DEF Spec

\* The system-call-level state stays well formed, for every number of sessions
\* and hosts (the records of owner.json and superseded.json included).
THEOREM LockTypeCorrect == Spec => []TypeOK
<1>1. LockInv => TypeOK
  BY DEF LockInv
<1>. QED BY <1>1, LockInvariant, PTL

\* On every host an exclusive owner owns the worktree alone, whatever crashes,
\* probes, foreign sessions and ForceClearOwner calls happen (lock.go, Acquire).
THEOREM Exclusion == Spec => []MutualExclusion
<1>1. LockInv => MutualExclusion
  BY DEF LockInv, MutualExclusion, FlockMatchesLocation, FlocksCompatible,
         Owns, Locked, Mode, Exclusive, TypeOK, Roles
<1>. QED BY <1>1, LockInvariant, PTL

-----------------------------------------------------------------------------
\* Start-up cannot end with everybody refused: the session refused last was
\* refused by one that has the lock, and that one is not refused
\* (ProbeOwner and Acquire, lock.go).
THEOREM NotAllRefused == Spec => []SomebodyGetsThrough
<1>1. Init => SomebodyGetsThrough
  BY DEF Init, SomebodyGetsThrough, At
<1>2. LockInv /\ SomebodyGetsThrough /\ [Next]_vars => SomebodyGetsThrough'
  <2>1. SUFFICES ASSUME LockInv, [Next]_vars, Sessions # {},
                        NEW u \in Sessions, ~At(u, "refused")
                 PROVE \E t \in Sessions : ~At(t, "refused")'
    BY DEF SomebodyGetsThrough
  <2>. USE <2>1 DEF LockInv, TypeOK, FlockMatchesLocation, At, Goto
  <2>2. ASSUME NEW s \in Sessions, ProbeLive(s) \/ RefuseHeld(s)
        PROVE \E t \in Sessions : ~At(t, "refused")'
    <3>1. PICK t \in Sessions \ {s} : flock[t] # "none"
      BY <2>2 DEF ProbeLive, RefuseHeld, Grantable
    <3>2. pc[t] # "refused" /\ pc'[t] = pc[t]
      BY <2>2, <3>1 DEF ProbeLive, RefuseHeld
    <3>. QED BY <3>2
  <2>3. ASSUME NEW s \in Sessions, Die(s) \/ Release(s) \/ ProbeTake(s) \/ ProbeDrop(s)
        PROVE \E t \in Sessions : ~At(t, "refused")'
    BY <2>3 DEF Die, Release, ReleaseRead, ReleaseRemove, ReleaseUnlock, ProbeTake, ProbeDrop
  <2>4. ASSUME NEW s \in Sessions, Acquire(s), ~RefuseHeld(s)
        PROVE \E t \in Sessions : ~At(t, "refused")'
    BY <2>4 DEF Acquire, TryLock, RefuseForeign, ReadPrevious, ArchivePrevious,
                RemoveOld, RenameNew
  <2>5. CASE ForceClearOwner \/ UNCHANGED vars
    BY <2>5 DEF ForceClearOwner, ClearRead, ClearArchive, ClearRemove, vars
  <2>. QED BY <2>1, <2>2, <2>3, <2>4, <2>5 DEF Next, Probe
<1>. QED BY <1>1, <1>2, LockInvariant, PTL DEF Spec

-----------------------------------------------------------------------------
(* The record.  Where the worktree is Unshared, an exclusive session's claim *)
(* on the record is as good as its lock.                                     *)

\* What an exclusive session knows about the two files at each step between
\* Acquire's read and its release.
RecordInv ==
    /\ clearing.step = "idle"
    /\ \A s \in Sessions : Exclusive(role[s]) =>
        /\ At(s, "archive") => owner.sess = prev[s] /\ prev[s] \in Sessions
        /\ At(s, "replace") =>
              /\ owner.sess = prev[s]
              /\ owner = Absent <=> prev[s] = NoOwner
              /\ prev[s] # NoOwner => superseded = prev[s]
        /\ At(s, "rename") => (prev[s] # NoOwner => superseded = prev[s])
        /\ At(s, "held") =>
              /\ owner.sess = s
              /\ owner.displaced = prev[s]
              /\ prev[s] # NoOwner => superseded = prev[s]

\* While an exclusive session is past its lock, nobody else of its host is.
LEMMA AloneWhenExclusive ==
    ASSUME Unshared, LockInv,
           NEW s \in Sessions, pc[s] \in Locked, Exclusive(role[s]),
           NEW t \in Sessions, pc[t] \in Locked
    PROVE  s = t
BY DEF Unshared, LockInv, FlockMatchesLocation, FlocksCompatible, Mode

\* On one host, with nobody clearing it by hand, every step keeps the record true:
\* it names the exclusive holder, and displaced owners are archived first.
LEMMA RecordInvNext ==
    LockInv /\ (Unshared => RecordInv) /\ [Next]_vars => (Unshared => RecordInv)'
<1>0. SUFFICES ASSUME LockInv, Unshared => RecordInv, [Next]_vars, Unshared' PROVE RecordInv'
  OBVIOUS
<1>1. Unshared /\ LockInv /\ RecordInv /\ [Next]_vars
  BY <1>0, SiteStays
<1>2. TypeOK /\ TypeOK' /\ LockInv'
  BY <1>1, TypeNext, LockInvNext DEF LockInv
<1>. USE <1>1, <1>2 DEF TypeOK, RecordInv, At, Goto, SetFlock, Forget
<1>3. ASSUME NEW s \in Sessions, Probe(s) PROVE RecordInv'
  BY <1>3 DEF Probe, ProbeTake, ProbeLive, ProbeDrop
<1>4. ASSUME NEW s \in Sessions, TryLock(s) \/ RefuseHeld(s) \/ RefuseForeign(s)
      PROVE RecordInv'
  BY <1>4 DEF TryLock, RefuseHeld, RefuseForeign
<1>5. ASSUME NEW s \in Sessions,
             ReadPrevious(s) \/ ArchivePrevious(s) \/ RemoveOld(s) \/ RenameNew(s)
                \/ Release(s)
      PROVE RecordInv'
  <2>1. pc[s] \in Locked
    BY <1>5 DEF ReadPrevious, ArchivePrevious, RemoveOld, RenameNew, Release,
                ReleaseRead, ReleaseRemove, ReleaseUnlock, Locked
  <2>2. \A t \in Sessions : t # s /\ Exclusive(role[t]) => pc[t] \notin Locked
    BY <2>1, AloneWhenExclusive
  <2>. USE <2>2 DEF Locked
  <2>3. CASE ReadPrevious(s)
    BY <2>3, WriterLockAssumption DEF ReadPrevious, Absent, Owner
  <2>4. CASE ArchivePrevious(s)
    BY <2>4, WriterLockAssumption DEF ArchivePrevious, Absent, Owner
  <2>5. CASE RemoveOld(s)
    BY <2>5 DEF RemoveOld
  <2>6. CASE RenameNew(s)
    BY <2>6 DEF RenameNew
  <2>7. CASE Release(s)
    BY <2>7 DEF Release, ReleaseRead, ReleaseRemove, ReleaseUnlock
  <2>. QED BY <1>5, <2>3, <2>4, <2>5, <2>6, <2>7
<1>6. ASSUME NEW s \in Sessions, Die(s) PROVE RecordInv'
  BY <1>6 DEF Die
<1>7. ~ForceClearOwner
  BY DEF Unshared, ForceClearOwner, ClearRead, ClearArchive, ClearRemove
<1>8. CASE UNCHANGED vars
  BY <1>8 DEF vars
<1>. QED BY <1>1, <1>3, <1>4, <1>5, <1>6, <1>7, <1>8 DEF Next, Acquire

\* On one host, unless somebody clears it by hand, the owner record names the
\* exclusive session that holds the lock: Fence.Check reports owner-lost only
\* when ownership is lost.
THEOREM RecordIsTheHolders == Spec => []RecordNamesHolder
<1>1. Init => (Unshared => RecordInv)
  BY DEF Init, RecordInv, At
<1>2. (Unshared => RecordInv) => RecordNamesHolder
  BY DEF RecordInv, RecordNamesHolder
<1>. QED BY <1>1, <1>2, RecordInvNext, LockInvariant, PTL DEF Spec

\* Under the same conditions a takeover is visible from either file.
THEOREM TakeoverIsRecorded == Spec => []TakeoverVisible
<1>1. Init => (Unshared => RecordInv)
  BY DEF Init, RecordInv, At
<1>2. (Unshared => RecordInv) => TakeoverVisible
  BY DEF RecordInv, TakeoverVisible
<1>. QED BY <1>1, <1>2, RecordInvNext, LockInvariant, PTL DEF Spec

\* Under the same conditions an exclusive Acquire removes only a record it has
\* archived.
THEOREM EvidenceIsKept == Spec => ArchivedBeforeRemoved
<1>1. Init => (Unshared => RecordInv)
  BY DEF Init, RecordInv, At
<1>2. LockInv /\ (Unshared => RecordInv) =>
        \A s \in Sessions :
          (Unshared /\ At(s, "replace") /\ pc'[s] = "rename" /\ Exclusive(role[s]) /\ owner # Absent)
              => superseded = owner.sess
  BY DEF RecordInv, At
<1>. QED BY <1>1, <1>2, RecordInvNext, LockInvariant, PTL DEF Spec, ArchivedBeforeRemoved

-----------------------------------------------------------------------------
\* The lock implements the abstract lease: Acquire's last step grants it, the
\* unlock and the death of the session end it, and no other step touches it.
THEOREM LockImplementsLease == Spec => LeaseRefined
<1>. DEFINE leased == {s \in Sessions : Owns(s)}
<1>1. Init => Lease!Init
  BY WriterLockAssumption DEF Init, Lease!Init, Lease!Roles, Roles, Owns, Settings, HostOf
<1>2. LockInv /\ [Next]_vars => [Lease!Next]_<<HostOf, role, leased>>
  <2>1. SUFFICES ASSUME LockInv, [Next]_vars PROVE [Lease!Next]_<<HostOf, role, leased>>
    OBVIOUS
  <2>0. HostOf' = HostOf
    BY <2>1, SiteStays
  <2>. USE <2>0, <2>1 DEF LockInv, TypeOK, At, Goto, Owns
  <2>2. ASSUME NEW s \in Sessions, RenameNew(s) PROVE Lease!Grant(s)
    <3>1. s \notin leased /\ leased' = leased \cup {s} /\ UNCHANGED <<HostOf, role>>
      BY <2>2 DEF RenameNew
    <3>2. \A t \in leased : HostOf[t] = HostOf[s] => role[s] = "read-only" /\ role[t] = "read-only"
      BY <2>2 DEF RenameNew, FlockMatchesLocation, FlocksCompatible, Locked, Mode,
                  Exclusive, Roles
    <3>. QED BY <3>1, <3>2 DEF Lease!Grant
  <2>3. ASSUME NEW s \in Sessions, ReleaseUnlock(s) \/ (Die(s) /\ Owns(s))
        PROVE Lease!GiveBack(s)
    BY <2>3 DEF ReleaseUnlock, Die, Lease!GiveBack
  <2>4. ASSUME NEW s \in Sessions, Die(s), ~Owns(s) PROVE UNCHANGED <<HostOf, role, leased>>
    BY <2>4 DEF Die
  <2>5. ASSUME NEW s \in Sessions, Probe(s) PROVE UNCHANGED <<HostOf, role, leased>>
    BY <2>5 DEF Probe, ProbeTake, ProbeLive, ProbeDrop
  <2>6. ASSUME NEW s \in Sessions, Acquire(s), ~RenameNew(s)
        PROVE UNCHANGED <<HostOf, role, leased>>
    BY <2>6 DEF Acquire, TryLock, RefuseHeld, RefuseForeign, ReadPrevious,
                ArchivePrevious, RemoveOld
  <2>7. ASSUME NEW s \in Sessions, ReleaseRead(s) \/ ReleaseRemove(s)
        PROVE UNCHANGED <<HostOf, role, leased>>
    BY <2>7 DEF ReleaseRead, ReleaseRemove
  <2>8. CASE ForceClearOwner \/ UNCHANGED vars
    BY <2>8 DEF ForceClearOwner, ClearRead, ClearArchive, ClearRemove, vars
  <2>. QED BY <2>1, <2>2, <2>3, <2>4, <2>5, <2>6, <2>7, <2>8
           DEF Next, Acquire, Release, Lease!Next
<1>. QED BY <1>1, <1>2, LockInvariant, PTL DEF Spec, LeaseRefined, Lease!Spec

=============================================================================
