--------------------------- MODULE RunJournalProofs ---------------------------
(* What the journal keeps, for every number of runs, records and tears.        *)
EXTENDS RunJournal, SequenceTheorems, TLAPS

----------------------------------------------------------------------------
(* Up to the first append to a torn line the file is what was acknowledged     *)
(* and at most one line more.                                                  *)

Runs == RunIds \cup {NoWriter.run}
Entries == [seq : Nat \ {0}, run : Runs, rec : Repertoire]
Lines == {Garbage} \cup Entries

TypeInv ==
    /\ file \in Seq(Lines)
    /\ ended \in BOOLEAN
    /\ writer \in [open : BOOLEAN, run : Runs, seq : Nat]
    /\ acked \in Seq(Entries)
    /\ torn \in BOOLEAN

\* The file is the acknowledged records, and a line more if that has no newline.
FileIsAcked ==
    /\ ended => file = acked
    /\ ~ended => \E l \in Lines : file = Append(acked, l)

\* A record's number is above those of the lines before it, whatever runs and
\* processes wrote them.
NumbersGrow ==
    \A i, j \in 1..Len(file) : i < j /\ IsRecord(file[j]) => file[i].seq < file[j].seq

\* The process that has the file open numbers on from the highest.
WriterIsAhead ==
    writer.open => \A i \in 1..Len(file) : file[i].seq <= writer.seq

JournalInv ==
    /\ TypeInv
    /\ ~torn => FileIsAcked
    /\ NumbersGrow
    /\ WriterIsAhead

----------------------------------------------------------------------------
(* Lines.                                                                     *)

\* A line is garbage, numbered 0, or a record.
LEMMA LineIs ==
    ASSUME NEW l \in Lines
    PROVE  /\ l.seq \in Nat
           /\ IsRecord(l) <=> l.seq # 0
           /\ IsRecord(l) <=> l \in Entries
BY DEF Lines, Entries, IsRecord, Garbage

LEMMA EntriesAreLines == Seq(Entries) \subseteq Seq(Lines)
<1>1. Entries \subseteq Lines
  BY DEF Lines
<1> QED BY <1>1

\* What ReadJournal makes of a file whose lines, but for the last, are records.
LEMMA ReadIs ==
    ASSUME NEW f \in Seq(Lines), \A i \in 1..Len(f) - 1 : IsRecord(f[i])
    PROVE  /\ ReadJournal(f).ok
           /\ f # << >> /\ ~IsRecord(f[Len(f)]) => ReadJournal(f).records = SubSeq(f, 1, Len(f) - 1)
           /\ f = << >> \/ IsRecord(f[Len(f)]) => ReadJournal(f).records = f
BY DEF ReadJournal, Front

\* In an untorn journal the records read back are those acknowledged, or those
\* and the record of the last write.
LEMMA RecoveredIs ==
    ASSUME TypeInv, FileIsAcked
    PROVE  /\ ReadJournal(file).ok
           /\ \/ Recovered = acked /\ (file = acked \/ \E l \in Lines : ~IsRecord(l) /\ file = Append(acked, l))
              \/ Recovered = file /\ \E l \in Entries : file = Append(acked, l)
<1>1. acked \in Seq(Lines) /\ acked \in Seq(Entries) /\ file \in Seq(Lines)
  BY EntriesAreLines DEF TypeInv
<1>2. \A i \in 1..Len(acked) : IsRecord(acked[i])
  <2>1. ASSUME NEW i \in 1..Len(acked) PROVE acked[i] \in Entries
    BY <1>1
  <2> QED BY <2>1, LineIs DEF Lines
<1>3. CASE ended
  <2>1. file = acked
    BY <1>3 DEF FileIsAcked
  <2>2. \A i \in 1..Len(file) - 1 : IsRecord(file[i])
    BY <1>1, <1>2, <2>1
  <2>3. file = << >> \/ IsRecord(file[Len(file)])
    BY <1>1, <1>2, <2>1
  <2> QED BY <1>1, <2>1, <2>2, <2>3, ReadIs DEF Recovered
<1>4. CASE ~ended
  <2>1. PICK l \in Lines : file = Append(acked, l)
    BY <1>4 DEF FileIsAcked
  <2>2. Len(file) = Len(acked) + 1 /\ file[Len(file)] = l /\ file # << >>
    BY <1>1, <2>1
  <2>3. \A i \in 1..Len(acked) : file[i] = acked[i]
    BY <1>1, <2>1
  <2>4. \A i \in 1..Len(file) - 1 : IsRecord(file[i])
    BY <1>1, <1>2, <2>2, <2>3
  <2>5. SubSeq(file, 1, Len(file) - 1) = acked
    <3>1. Len(file) - 1 = Len(acked) /\ Len(acked) \in Nat
      BY <1>1, <2>2
    <3>2. SubSeq(file, 1, Len(acked)) = acked
      BY <1>1, <2>1
    <3> QED BY <3>1, <3>2
  <2>6. CASE IsRecord(l)
    BY <1>1, <2>1, <2>2, <2>4, <2>6, ReadIs, LineIs DEF Recovered
  <2>7. CASE ~IsRecord(l)
    BY <1>1, <2>1, <2>2, <2>4, <2>5, <2>7, ReadIs DEF Recovered
  <2> QED BY <2>6, <2>7
<1> QED BY <1>3, <1>4 DEF TypeInv

\* The property follows from the invariant.
LEMMA InvGivesProperty ==
    ASSUME JournalInv
    PROVE  TearLosesOneRecord
<1> SUFFICES ASSUME ~torn
             PROVE  /\ ReadJournal(file).ok
                    /\ IsPrefix(acked, Recovered)
                    /\ Len(Recovered) <= Len(acked) + 1
                    /\ \A i, j \in DOMAIN Recovered : i < j => Recovered[i].seq < Recovered[j].seq
  BY DEF TearLosesOneRecord
<1>1. TypeInv /\ FileIsAcked /\ NumbersGrow
  BY DEF JournalInv
<1>2. acked \in Seq(Lines) /\ acked \in Seq(Entries) /\ file \in Seq(Lines)
  BY <1>1, EntriesAreLines DEF TypeInv
<1>3. \A i \in 1..Len(acked) : IsRecord(acked[i])
  <2>1. ASSUME NEW i \in 1..Len(acked) PROVE acked[i] \in Entries
    BY <1>2
  <2> QED BY <2>1, LineIs DEF Lines
<1>4. ReadJournal(file).ok
  BY <1>1, RecoveredIs
<1>5. CASE Recovered = acked /\ (file = acked \/ \E l \in Lines : ~IsRecord(l) /\ file = Append(acked, l))
  <2>1. Len(acked) <= Len(file) /\ \A i \in 1..Len(acked) : file[i] = acked[i]
    BY <1>2, <1>5
  <2>2. \A i, j \in 1..Len(acked) : i < j => acked[i].seq < acked[j].seq
    BY <1>1, <1>2, <1>3, <2>1 DEF NumbersGrow
  <2>3. IsPrefix(acked, acked) /\ Len(acked) <= Len(acked) + 1
    BY <1>2 DEF IsPrefix
  <2>4. DOMAIN acked = 1..Len(acked)
    BY <1>2
  <2> QED BY <1>4, <1>5, <2>2, <2>3, <2>4
<1>6. CASE Recovered = file /\ \E l \in Entries : file = Append(acked, l)
  <2>1. PICK l \in Entries : file = Append(acked, l)
    BY <1>6
  <2>2. Len(file) = Len(acked) + 1 /\ file[Len(file)] = l /\ \A i \in 1..Len(acked) : file[i] = acked[i]
    BY <1>2, <2>1
  <2>3. \A i \in 1..Len(file) : IsRecord(file[i])
    <3>1. IsRecord(l)
      BY LineIs DEF Lines
    <3> QED BY <1>2, <1>3, <2>2, <3>1
  <2>4. \A i, j \in 1..Len(file) : i < j => file[i].seq < file[j].seq
    BY <1>1, <2>3 DEF NumbersGrow
  <2>5. IsPrefix(acked, file)
    <3>1. SubSeq(file, 1, Len(acked)) = acked /\ SubSeq(acked, 1, Len(acked)) = acked
      BY <1>2, <2>1
    <3>2. Len(acked) <= Len(file)
      BY <1>2, <2>2
    <3> QED BY <3>1, <3>2 DEF IsPrefix
  <2>6. DOMAIN file = 1..Len(file)
    BY <1>2
  <2> QED BY <1>2, <1>4, <1>6, <2>2, <2>4, <2>5, <2>6
<1> QED BY <1>1, <1>5, <1>6, RecoveredIs

----------------------------------------------------------------------------
(* What a write leaves, and what the next process numbers from.               *)

\* A line written to the end of the file is the new last line, or spoils the
\* old one.
LEMMA WrittenIs ==
    ASSUME TypeInv, NEW l \in Lines
    PROVE  /\ Written(l) \in Seq(Lines)
           /\ ended => Written(l) = Append(file, l)
           /\ ~ended => /\ Len(Written(l)) = Len(file)
                        /\ \A i \in 1..Len(file) :
                              Written(l)[i] = IF i = Len(file) THEN Garbage ELSE file[i]
<1>1. file \in Seq(Lines) /\ file \in [1..Len(file) -> Lines] /\ Len(file) \in Nat
  BY DEF TypeInv
<1>2. CASE ended
  BY <1>1, <1>2 DEF Written
<1>3. CASE ~ended
  <2>1. Written(l) = [file EXCEPT ![Len(file)] = Garbage]
    BY <1>3 DEF Written
  <2>2. Garbage \in Lines
    BY DEF Lines
  <2>3. Written(l) \in [1..Len(file) -> Lines]
    BY <1>1, <2>1, <2>2
  <2>4. Written(l) \in Seq(Lines) /\ Len(Written(l)) = Len(file)
    BY <1>1, <2>3
  <2>5. \A i \in 1..Len(file) : Written(l)[i] = IF i = Len(file) THEN Garbage ELSE file[i]
    BY <1>1, <2>1
  <2> QED BY <1>3, <2>4, <2>5
<1> QED BY <1>2, <1>3 DEF TypeInv

\* The highest number of records that are in order is that of the last.
LEMMA LastSeqIs ==
    ASSUME NEW recs \in Seq(Lines),
           \A i \in 1..Len(recs) : recs[i] \in Entries,
           \A i, j \in 1..Len(recs) : i < j => recs[i].seq < recs[j].seq
    PROVE  /\ LastSeq(recs) \in Nat
           /\ \A i \in 1..Len(recs) : recs[i].seq <= LastSeq(recs)
<1> DEFINE S == {0} \cup {recs[i].seq : i \in DOMAIN recs}
           top == IF Len(recs) = 0 THEN 0 ELSE recs[Len(recs)].seq
<1>1. DOMAIN recs = 1..Len(recs) /\ Len(recs) \in Nat
  OBVIOUS
<1>2. \A i \in 1..Len(recs) : recs[i].seq \in Nat
  BY LineIs DEF Lines
<1>3. S \subseteq Nat
  BY <1>1, <1>2
<1>4. top \in S
  BY <1>1
<1>5. \A y \in S : top >= y
  <2>1. CASE Len(recs) = 0
    BY <1>1, <2>1
  <2>2. CASE Len(recs) # 0
    <3>1. Len(recs) \in 1..Len(recs)
      BY <1>1, <2>2
    <3>2. \A i \in 1..Len(recs) : recs[i].seq <= recs[Len(recs)].seq
      <4> TAKE i \in 1..Len(recs)
      <4>1. \A n \in Nat : \A k \in 1..n : k = n \/ k < n
        OBVIOUS
      <4>2. i = Len(recs) \/ i < Len(recs)
        BY <1>1, <4>1
      <4> QED BY <1>2, <3>1, <4>2, SMTT(30)
    <3> QED BY <1>1, <1>2, <2>2, <3>1, <3>2
  <2> QED BY <2>1, <2>2
<1>6. LastSeq(recs) \in S /\ \A y \in S : LastSeq(recs) >= y
  <2>1. LastSeq(recs) = CHOOSE x \in S : \A y \in S : x >= y
    BY DEF LastSeq, Max
  <2>2. \E x \in S : \A y \in S : x >= y
    BY <1>4, <1>5
  <2> HIDE DEF S
  <2> QED BY <2>1, <2>2
<1>7. \A i \in 1..Len(recs) : recs[i].seq \in S
  BY <1>1
<1> HIDE DEF S
<1> QED BY <1>2, <1>3, <1>6, <1>7

\* A process that opens a journal numbers on from every line it holds.
LEMMA OpenIsAhead ==
    ASSUME TypeInv, NumbersGrow, ReadJournal(file).ok
    PROVE  /\ LastSeq(Recovered) \in Nat
           /\ \A i \in 1..Len(file) : file[i].seq <= LastSeq(Recovered)
<1>1. file \in Seq(Lines) /\ Len(file) \in Nat /\ \A i \in 1..Len(file) : file[i] \in Lines
  BY DEF TypeInv
<1>2. \A i \in 1..Len(file) - 1 : IsRecord(file[i])
  BY DEF ReadJournal
<1>3. \A i, j \in 1..Len(file) : i < j /\ IsRecord(file[j]) => file[i].seq < file[j].seq
  BY DEF NumbersGrow
<1>4. CASE file = << >> \/ IsRecord(file[Len(file)])
  <2>1. Recovered = file
    BY <1>1, <1>2, <1>4, ReadIs DEF Recovered
  <2>2. \A i \in 1..Len(file) : IsRecord(file[i])
    <3> TAKE i \in 1..Len(file)
    <3>2. i \in 1..Len(file) - 1 \/ i = Len(file)
      BY <1>1
    <3>3. file # << >>
      BY <1>1
    <3> QED BY <1>2, <1>4, <3>2, <3>3
  <2>3. \A i \in 1..Len(file) : file[i] \in Entries
    BY <1>1, <2>2, LineIs
  <2>4. \A i, j \in 1..Len(file) : i < j => file[i].seq < file[j].seq
    BY <1>3, <2>2
  <2> QED BY <1>1, <2>1, <2>3, <2>4, LastSeqIs
<1>5. CASE file # << >> /\ ~IsRecord(file[Len(file)])
  <2> DEFINE f == SubSeq(file, 1, Len(file) - 1)
  <2>1. Recovered = f
    BY <1>1, <1>2, <1>5, ReadIs DEF Recovered
  <2>2. Len(file) \in 1..Len(file)
    BY <1>1, <1>5
  <2>3. f \in Seq(Lines) /\ Len(f) = Len(file) - 1 /\ \A i \in 1..Len(file) - 1 : f[i] = file[i]
    <3>1. PICK n \in Nat : n = Len(file) - 1
      BY <1>1, <2>2
    <3>2. \A i \in 1..n : file[i] \in Lines
      BY <1>1, <3>1
    <3>3. /\ SubSeq(file, 1, n) \in Seq(Lines)
          /\ Len(SubSeq(file, 1, n)) = IF 1 <= n THEN n - 1 + 1 ELSE 0
          /\ \A i \in 1..n - 1 + 1 : SubSeq(file, 1, n)[i] = file[1 + i - 1]
      BY <3>2, SubSeqProperties
    <3>4. Len(SubSeq(file, 1, n)) = n /\ \A i \in 1..n : SubSeq(file, 1, n)[i] = file[i]
      BY <3>3
    <3> QED BY <3>1, <3>3, <3>4
  <2> HIDE DEF f
  <2>4. \A i \in 1..Len(f) : i \in 1..Len(file) /\ f[i] = file[i] /\ IsRecord(file[i])
    BY <1>1, <1>2, <2>3
  <2>5. \A i \in 1..Len(f) : f[i] \in Entries
    BY <1>1, <2>4, LineIs
  <2>6. \A i, j \in 1..Len(f) : i < j => f[i].seq < f[j].seq
    BY <1>3, <2>4
  <2>7. LastSeq(f) \in Nat /\ \A i \in 1..Len(f) : f[i].seq <= LastSeq(f)
    BY <2>3, <2>5, <2>6, LastSeqIs
  <2>8. file[Len(file)].seq = 0
    BY <1>1, <1>5, <2>2, LineIs
  <2>9. \A i \in 1..Len(file) : i \in 1..Len(f) \/ i = Len(file)
    BY <1>1, <2>3
  <2> QED BY <2>1, <2>4, <2>7, <2>8, <2>9
<1> QED BY <1>4, <1>5

\* A write keeps the numbers in order when the line is garbage or carries the
\* writer's next number, and leaves none above that.
LEMMA WriteKeepsOrder ==
    ASSUME TypeInv, NumbersGrow, WriterIsAhead, writer.open,
           NEW l \in Lines, l = Garbage \/ l.seq = writer.seq + 1,
           file' = Written(l)
    PROVE  /\ NumbersGrow'
           /\ \A i \in 1..Len(file') : file'[i].seq <= writer.seq + 1
<1>1. file \in Seq(Lines) /\ Len(file) \in Nat /\ \A i \in 1..Len(file) : file[i] \in Lines
  BY DEF TypeInv
<1>2. \A i, j \in 1..Len(file) : i < j /\ IsRecord(file[j]) => file[i].seq < file[j].seq
  BY DEF NumbersGrow
<1>3. writer.seq \in Nat
  BY DEF TypeInv
<1>4. \A i \in 1..Len(file) : file[i].seq \in Nat /\ file[i].seq <= writer.seq
  BY <1>1, LineIs DEF WriterIsAhead
<1>5. Garbage.seq = 0 /\ ~IsRecord(Garbage)
  BY DEF Garbage, IsRecord
<1>6. l.seq \in Nat /\ l.seq <= writer.seq + 1 /\ (IsRecord(l) => l.seq = writer.seq + 1)
  BY <1>3, <1>5, LineIs
<1>7. CASE ended
  <2>1. file' = Append(file, l)
    BY <1>7, WrittenIs
  <2>2. Len(file') = Len(file) + 1 /\ file'[Len(file) + 1] = l
        /\ \A i \in 1..Len(file) : file'[i] = file[i]
    BY <1>1, <2>1
  <2>3. \A i \in 1..Len(file') : i \in 1..Len(file) \/ i = Len(file) + 1
    BY <1>1, <2>2
  <2>4. \A i \in 1..Len(file') : file'[i].seq <= writer.seq + 1
    BY <1>3, <1>4, <1>6, <2>2, <2>3
  <2>5. ASSUME NEW i \in 1..Len(file'), NEW j \in 1..Len(file'), i < j, IsRecord(file'[j])
        PROVE  file'[i].seq < file'[j].seq
    <3>1. i \in 1..Len(file)
      BY <1>1, <2>2, <2>5
    <3>2. CASE j \in 1..Len(file)
      BY <1>2, <2>2, <2>5, <3>1, <3>2
    <3>3. CASE j = Len(file) + 1
      BY <1>3, <1>4, <1>6, <2>2, <2>5, <3>1, <3>3
    <3> QED BY <2>3, <3>2, <3>3
  <2> QED BY <2>4, <2>5 DEF NumbersGrow, IsRecord, Garbage
<1>8. CASE ~ended
  <2>1. /\ Len(file') = Len(file)
        /\ \A i \in 1..Len(file) : file'[i] = IF i = Len(file) THEN Garbage ELSE file[i]
    BY <1>8, WrittenIs
  <2>2. \A i \in 1..Len(file') : file'[i].seq <= writer.seq + 1
    BY <1>3, <1>4, <1>5, <2>1
  <2>3. ASSUME NEW i \in 1..Len(file'), NEW j \in 1..Len(file'), i < j, IsRecord(file'[j])
        PROVE  file'[i].seq < file'[j].seq
    <3>1. j # Len(file) /\ i # Len(file)
      BY <1>1, <1>5, <2>1, <2>3
    <3> QED BY <1>2, <2>1, <2>3, <3>1
  <2> QED BY <2>2, <2>3 DEF NumbersGrow, IsRecord, Garbage
<1> QED BY <1>7, <1>8 DEF TypeInv

----------------------------------------------------------------------------
(* The journal, step by step.                                                 *)

LEMMA NoWriterIs ==
    NoWriter \in [open : BOOLEAN, run : Runs, seq : Nat] /\ ~NoWriter.open
<1>1. PICK c : c = CHOOSE r \in RunIds : TRUE
  OBVIOUS
<1>2. NoWriter = [open |-> FALSE, run |-> c, seq |-> 0]
  BY <1>1 DEF NoWriter
<1>3. c \in Runs
  BY <1>2 DEF Runs
<1> QED BY <1>2, <1>3

LEMMA JournalInit == Init => JournalInv
<1> SUFFICES ASSUME Init PROVE JournalInv
  OBVIOUS
<1>1. NoWriter \in [open : BOOLEAN, run : Runs, seq : Nat] /\ ~NoWriter.open
  BY NoWriterIs
<1>2. file = << >> /\ acked = << >> /\ ended = TRUE /\ torn = FALSE /\ writer = NoWriter
  BY DEF Init
<1>3. TypeInv
  <2>1. << >> \in Seq(Lines) /\ << >> \in Seq(Entries)
    OBVIOUS
  <2> QED BY <1>1, <1>2, <2>1 DEF TypeInv
<1>4. FileIsAcked /\ NumbersGrow
  BY <1>2 DEF FileIsAcked, NumbersGrow
<1>5. ~writer.open
  BY <1>1, <1>2
<1> QED BY <1>3, <1>4, <1>5 DEF JournalInv, WriterIsAhead

\* A step that leaves the file alone and shuts the writer, or moves it ahead.
LEMMA FileStays ==
    ASSUME JournalInv, UNCHANGED <<file, ended, acked, torn>>,
           writer' \in [open : BOOLEAN, run : Runs, seq : Nat],
           writer'.open => \A i \in 1..Len(file) : file[i].seq <= writer'.seq
    PROVE  JournalInv'
BY DEF JournalInv, TypeInv, FileIsAcked, NumbersGrow, WriterIsAhead, IsRecord, Garbage, Lines, Entries, Runs, NoWriter

\* The writer's next line is a record.
LEMMA NextLine ==
    ASSUME TypeInv, NEW rec \in Repertoire
    PROVE  Line(rec) \in Entries /\ Line(rec).seq = writer.seq + 1 /\ Line(rec) \in Lines
BY DEF TypeInv, Line, Entries, Lines

LEMMA WholeKeeps ==
    ASSUME JournalInv, NEW rec \in Repertoire, AppendWhole(rec)
    PROVE  JournalInv'
<1>1. TypeInv /\ NumbersGrow /\ WriterIsAhead /\ writer.open
  BY DEF JournalInv, AppendWhole
<1>2. PICK l \in Entries : l = Line(rec) /\ l.seq = writer.seq + 1 /\ l \in Lines
  BY <1>1, NextLine
<1>3. /\ file' = Written(l) /\ ended' = TRUE /\ acked' = Append(acked, l)
      /\ writer' = [writer EXCEPT !.seq = @ + 1] /\ torn' = (torn \/ ~ended)
  BY <1>2 DEF AppendWhole
<1>4. NumbersGrow' /\ \A i \in 1..Len(file') : file'[i].seq <= writer.seq + 1
  BY <1>1, <1>2, <1>3, WriteKeepsOrder
<1>5. /\ writer'.seq = writer.seq + 1
      /\ writer' \in [open : BOOLEAN, run : Runs, seq : Nat]
  BY <1>1, <1>3 DEF TypeInv
<1>6. TypeInv'
  <2>1. file' \in Seq(Lines)
    BY <1>1, <1>2, <1>3, WrittenIs
  <2>2. acked' \in Seq(Entries)
    BY <1>1, <1>2, <1>3 DEF TypeInv
  <2>3. ended' \in BOOLEAN /\ torn' \in BOOLEAN
    BY <1>3
  <2> QED BY <1>5, <2>1, <2>2, <2>3 DEF TypeInv, Lines, Entries, Runs, NoWriter, Garbage
<1>7. WriterIsAhead'
  BY <1>4, <1>5 DEF WriterIsAhead
<1>8. ASSUME ~torn' PROVE FileIsAcked'
  <2>1. ended /\ ~torn
    BY <1>1, <1>3, <1>8 DEF TypeInv
  <2>2. file = acked
    BY <2>1 DEF JournalInv, FileIsAcked
  <2>3. file' = acked'
    BY <1>1, <1>2, <1>3, <2>1, <2>2, WrittenIs
  <2> QED BY <1>3, <2>3 DEF FileIsAcked
<1> QED BY <1>4, <1>6, <1>7, <1>8 DEF JournalInv

LEMMA TornKeeps ==
    ASSUME JournalInv, NEW rec \in Repertoire, NEW line, NEW dies \in BOOLEAN,
           AppendTorn(rec, line, dies)
    PROVE  JournalInv'
<1>1. TypeInv /\ NumbersGrow /\ WriterIsAhead /\ writer.open
  BY DEF JournalInv, AppendTorn
<1>2. line \in Lines /\ (line = Garbage \/ line.seq = writer.seq + 1)
  BY <1>1, NextLine DEF AppendTorn, Lines
<1>3. /\ file' = Written(line) /\ ended' = FALSE /\ acked' = acked
      /\ writer' = (IF dies THEN NoWriter ELSE [writer EXCEPT !.seq = @ + 1])
      /\ torn' = (torn \/ ~ended)
  BY DEF AppendTorn
<1>4. NumbersGrow' /\ \A i \in 1..Len(file') : file'[i].seq <= writer.seq + 1
  BY <1>1, <1>2, <1>3, WriteKeepsOrder
<1>5. /\ writer'.open => writer'.seq = writer.seq + 1
      /\ writer' \in [open : BOOLEAN, run : Runs, seq : Nat]
  <2>1. NoWriter \in [open : BOOLEAN, run : Runs, seq : Nat] /\ ~NoWriter.open
    BY NoWriterIs
  <2>2. CASE dies
    BY <1>3, <2>1, <2>2
  <2>3. CASE ~dies
    BY <1>1, <1>3, <2>3 DEF TypeInv
  <2> QED BY <2>2, <2>3
<1>6. TypeInv'
  <2>1. file' \in Seq(Lines)
    BY <1>1, <1>2, <1>3, WrittenIs
  <2>2. ended' \in BOOLEAN /\ torn' \in BOOLEAN /\ acked' \in Seq(Entries)
    BY <1>1, <1>3 DEF TypeInv
  <2> QED BY <1>5, <2>1, <2>2 DEF TypeInv, Lines, Entries, Runs, NoWriter, Garbage
<1>7. WriterIsAhead'
  BY <1>4, <1>5 DEF WriterIsAhead
<1>8. ASSUME ~torn' PROVE FileIsAcked'
  <2>1. ended /\ ~torn
    BY <1>1, <1>3, <1>8 DEF TypeInv
  <2>2. file = acked
    BY <2>1 DEF JournalInv, FileIsAcked
  <2>3. file' = Append(acked', line)
    BY <1>1, <1>2, <1>3, <2>1, <2>2, WrittenIs
  <2> QED BY <1>2, <1>3, <2>3 DEF FileIsAcked, Lines, Entries, Runs, NoWriter, Garbage
<1> QED BY <1>4, <1>6, <1>7, <1>8 DEF JournalInv

LEMMA JournalNext == JournalInv /\ [Next]_vars => JournalInv'
<1> SUFFICES ASSUME JournalInv, [Next]_vars PROVE JournalInv'
  OBVIOUS
<1>1. TypeInv /\ NumbersGrow /\ WriterIsAhead /\ writer \in [open : BOOLEAN, run : Runs, seq : Nat]
  BY DEF JournalInv, TypeInv
<1>2. NoWriter \in [open : BOOLEAN, run : Runs, seq : Nat] /\ ~NoWriter.open
  BY NoWriterIs
<1>3. ASSUME NEW r \in RunIds, Open(r) PROVE JournalInv'
  <2>1. PICK n : n = LastSeq(Recovered)
    OBVIOUS
  <2>2. n \in Nat /\ \A i \in 1..Len(file) : file[i].seq <= n
    BY <1>1, <1>3, <2>1, OpenIsAhead DEF Open
  <2>3. writer' = [open |-> TRUE, run |-> r, seq |-> n] /\ UNCHANGED <<file, ended, acked, torn>>
    BY <1>3, <2>1 DEF Open, Recovered
  <2>4. r \in Runs
    BY DEF Runs
  <2>5. writer' \in [open : BOOLEAN, run : Runs, seq : Nat] /\ writer'.seq = n
    BY <2>2, <2>3, <2>4
  <2> QED BY <2>2, <2>3, <2>5, FileStays
<1>4. ASSUME NEW rec \in Repertoire, AppendWhole(rec) PROVE JournalInv'
  BY <1>4, WholeKeeps
<1>5. ASSUME NEW rec \in Repertoire, NEW dies \in BOOLEAN,
             AppendTorn(rec, Garbage, dies) \/ AppendTorn(rec, Line(rec), dies)
      PROVE  JournalInv'
  BY <1>5, TornKeeps
<1>6. CASE AppendNothing
  <2>1. writer.open /\ writer' = [writer EXCEPT !.seq = @ + 1] /\ UNCHANGED <<file, ended, acked, torn>>
    BY <1>6 DEF AppendNothing
  <2>2. writer' \in [open : BOOLEAN, run : Runs, seq : Nat] /\ writer'.seq = writer.seq + 1
    BY <1>1, <2>1
  <2>3. \A i \in 1..Len(file) : file[i].seq \in Nat /\ file[i].seq <= writer.seq
    BY <1>1, <2>1, LineIs DEF WriterIsAhead, TypeInv
  <2>4. \A i \in 1..Len(file) : file[i].seq <= writer'.seq
    BY <1>1, <2>2, <2>3
  <2> QED BY <2>1, <2>2, <2>4, FileStays
<1>7. CASE Shut
  BY <1>2, <1>7, FileStays DEF Shut
<1>8. CASE UNCHANGED vars
  BY <1>1, <1>8, FileStays DEF vars, WriterIsAhead
<1> QED BY <1>3, <1>4, <1>5, <1>6, <1>7, <1>8 DEF Next

\* Whatever crashes, tears and reopens a journal goes through, a record's number
\* is above those of the lines before it and the open process numbers on from the
\* highest; until an append joins a torn line the file is the acknowledged
\* records and at most one line more (OpenJournal, Append).
THEOREM JournalKeepsOrder == Spec => []JournalInv
BY JournalInit, JournalNext, PTL DEF Spec

\* A torn or failed write costs at most its own record: everything acknowledged
\* is read back in order, for every number of runs, records and tears
\* (ReadJournal, OpenJournal).
THEOREM TearsLoseOneRecord == Spec => []TearLosesOneRecord
<1>1. JournalInv => TearLosesOneRecord
  BY InvGivesProperty
<1> QED BY <1>1, JournalKeepsOrder, PTL
=============================================================================
