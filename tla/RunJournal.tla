------------------------------ MODULE RunJournal ------------------------------
(***************************************************************************)
(* The journal file of internal/unattended/journal.go: the bytes a crash   *)
(* or a full disk leaves, what ReadJournal makes of them, and the process  *)
(* that opens, appends and dies.  The file is its lines; a line is the     *)
(* record it parses to, or garbage; only the last line may lack its        *)
(* newline, and whatever is appended to such a line joins it.  One state   *)
(* directory serves every run of a project, so the records of two runs     *)
(* share the file.                                                         *)
(***************************************************************************)
EXTENDS RunLedger, Sequences, FiniteSetsExt, SequencesExt

CONSTANTS
    RunIds,     \* the runs whose records share the file
    Repertoire, \* the records a run may append
    MaxLines,   \* bound on the lines of the file
    CarriesOn,  \* whether a process may survive the write error of a torn record
    MaxTears    \* bound on the writes that do not come through whole

ASSUME JournalAssumption ==
    /\ Repertoire \subseteq Records
    /\ CarriesOn \in BOOLEAN
    /\ MaxLines \in Nat
    /\ MaxTears \in Nat

VARIABLES
    file,    \* the lines of the journal
    ended,   \* whether the last line has its newline
    writer,  \* the run of the process that has the file open, and its sequence
    acked,   \* the records an Append reported durable, in order
    tears,   \* the writes that did not come through whole
    torn     \* whether the file has been appended to since a write was torn

vars == <<file, ended, writer, acked, tears, torn>>

-----------------------------------------------------------------------------
Garbage == [seq |-> 0]

IsRecord(line) == line # Garbage

NoWriter == [open |-> FALSE, run |-> CHOOSE r \in RunIds : TRUE, seq |-> 0]

\* Mutant: a malformed line is corruption wherever it is.
ReadStrictly(f) ==
    [ok |-> \A i \in DOMAIN f : IsRecord(f[i]), records |-> SelectSeq(f, IsRecord)]

\* ReadJournal: a malformed last line is dropped, any other is corruption.
ReadJournal(f) ==
    LET corrupt   == \E i \in 1 .. Len(f) - 1 : ~IsRecord(f[i])
        truncated == f # <<>> /\ ~IsRecord(f[Len(f)])
    IN  [ok      |-> ~corrupt,
         records |-> IF corrupt THEN <<>> ELSE IF truncated THEN Front(f) ELSE f]

\* Mutant: the records of every run count.
ReplayAll(records, run) == FoldLeft(LAMBDA st, l : Apply(st, l.rec), EmptyResume, records)

\* Replay: the fold of the records of one run.
Replay(records, run) ==
    FoldLeft(LAMBDA st, l : IF l.run = run THEN Apply(st, l.rec) ELSE st, EmptyResume, records)

LastSeq(records) == Max({0} \cup {records[i].seq : i \in DOMAIN records})

\* What a write leaves at the end of the file: a line of its own, or more of a
\* line that never got its newline, which then parses as nothing.
Written(line) == IF ended THEN Append(file, line) ELSE [file EXCEPT ![Len(file)] = Garbage]

Init ==
    /\ file = <<>>
    /\ ended = TRUE
    /\ writer = NoWriter
    /\ acked = <<>>
    /\ tears = 0
    /\ torn = FALSE

-----------------------------------------------------------------------------
\* OpenJournal, by a process of run r that holds the writer lock.
Open(r) ==
    /\ ~writer.open
    /\ ReadJournal(file).ok
    /\ writer' = [open |-> TRUE, run |-> r, seq |-> LastSeq(ReadJournal(file).records)]
    /\ UNCHANGED <<file, ended, acked, tears, torn>>

Line(rec) == [seq |-> writer.seq + 1, run |-> writer.run, rec |-> rec]

\* Append: the line and its newline are written and synced.
AppendWhole(rec) ==
    /\ writer.open
    /\ Len(file) < MaxLines
    /\ file' = Written(Line(rec))
    /\ ended' = TRUE
    /\ acked' = Append(acked, Line(rec))
    /\ writer' = [writer EXCEPT !.seq = @ + 1]
    /\ torn' = (torn \/ ~ended)
    /\ UNCHANGED tears

\* The write stops inside the record, or just before its newline.  It stops
\* because the machine went down, or with an error the runner carries on after.
AppendTorn(rec, line, dies) ==
    /\ writer.open
    /\ Len(file) < MaxLines
    /\ tears < MaxTears
    /\ line \in {Garbage, Line(rec)}
    /\ dies \/ CarriesOn
    /\ file' = Written(line)
    /\ ended' = FALSE
    /\ writer' = IF dies THEN NoWriter ELSE [writer EXCEPT !.seq = @ + 1]
    /\ tears' = tears + 1
    /\ torn' = (torn \/ ~ended)
    /\ UNCHANGED acked

\* The write fails before its first byte.
AppendNothing ==
    /\ writer.open
    /\ tears < MaxTears
    /\ tears' = tears + 1
    /\ writer' = [writer EXCEPT !.seq = @ + 1]
    /\ UNCHANGED <<file, ended, acked, torn>>

\* Close, or a crash between two records.
Shut ==
    /\ writer.open
    /\ writer' = NoWriter
    /\ UNCHANGED <<file, ended, acked, tears, torn>>

Next ==
    \/ \E r \in RunIds : Open(r)
    \/ \E rec \in Repertoire : AppendWhole(rec)
    \/ \E rec \in Repertoire, dies \in BOOLEAN :
          AppendTorn(rec, Garbage, dies) \/ AppendTorn(rec, Line(rec), dies)
    \/ AppendNothing
    \/ Shut

Spec == Init /\ [][Next]_vars

-----------------------------------------------------------------------------
(* Properties                                                               *)

Recovered == ReadJournal(file).records

\* A crash or a failed write, up to the next append, costs at most its own
\* record: everything acknowledged is read back, in order, and at most one
\* record more, and the sequence numbers of all the file's runs and writers grow
\* (ReadJournal; OpenJournal: "The sequence resumes from the highest number").
TearLosesOneRecord ==
    ~torn => /\ ReadJournal(file).ok
             /\ IsPrefix(acked, Recovered)
             /\ Len(Recovered) <= Len(acked) + 1
             /\ \A i, j \in DOMAIN Recovered : i < j => Recovered[i].seq < Recovered[j].seq

\* Another run's history is history: what one run writes, opens, tears or closes
\* never changes what another resumes from (Replay), up to an append to a torn line.
RunsAreSeparate ==
    [][\A r \in RunIds :
          (r # writer.run /\ ~torn') => Replay(Recovered', r) = Replay(Recovered, r)]_vars

=============================================================================
