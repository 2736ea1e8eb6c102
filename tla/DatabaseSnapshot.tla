-------------------------- MODULE DatabaseSnapshot ---------------------------
(* sqlite_snapshot and SqliteSnapshotCache: a provider's database and its            *)
(* write-ahead log are copied without a lock while the provider goes on writing and *)
(* moving pages between the two, and a copy is used again while nothing changed.    *)
EXTENDS FileListings

NoLog == <<"no log">>

\* One file is read at a time: two pages of the database and the log.
Page(i) ==
  CASE i = 3 -> IF database.file THEN <<"log", database.wal>> ELSE NoLog
    [] OTHER -> <<"page", database.main[i]>>

\* Length, times and identity of the database, and of the log.
Stamp(i) == database.writes[i]

\* A mutant of LogStamp: the log is left out of the stamp.
NoStamp == 0

LogStamp == IF database.file THEN Stamp(2) ELSE -1

SnapshotFails(p, pc) == Moves(p, pc, [pc |-> reader[p].then, outcome |-> "failed"])

\* A missing database lists nothing.  Only Unix tells by a file's stamp that it has not
\* changed; a copy is kept there.
FindDatabase(p) ==
  /\ provider = "hermes"
  /\ Moves(p, "walk",
       IF home THEN [pc |-> IF reader[p].unix THEN "stamp" ELSE "copy", stamps |-> <<>>,
                     round |-> 1, try |-> 1]
       ELSE [pc |-> reader[p].then, listed |-> {}])
  /\ UNCHANGED <<cachefile, rows>>

\* The stamp before the copy; the earlier copy is used while it has the same.
ReadStamp(p) ==
  LET r == reader[p]
      stamps == Append(r.stamps, IF Len(r.stamps) % 2 = 0 THEN Stamp(1) ELSE LogStamp)
  IN /\ At(p, "stamp")
     /\ \/ /\ home /\ Len(stamps) # 2
           /\ Len(stamps) < 4
           /\ Moves(p, "stamp", [stamps |-> stamps])
        \/ /\ home /\ Len(stamps) = 2 /\ r.copy.stamp = stamps
           /\ Moves(p, "stamp", [pc |-> r.then, listed |-> {"rows"} \X r.copy.shows])
        \/ /\ home /\ Len(stamps) = 2 /\ r.copy.stamp # stamps
           /\ Moves(p, "stamp",
                [pc |-> "copy", stamps |-> stamps, copy |-> NoCopy, reads |-> <<>>, try |-> 1])
        \/ ~home /\ SnapshotFails(p, "stamp")
     /\ UNCHANGED <<cachefile, rows>>

\* And the one after it: a copy of what changed meanwhile is not used.
CompareStamps(p) ==
  LET r == reader[p]
      stamps == Append(r.stamps, LogStamp)
      same == SubSeq(stamps, 1, 2) = SubSeq(stamps, 3, 4)
  IN /\ At(p, "stamp") /\ Len(stamps) = 4
     /\ \/ /\ home /\ same
           /\ Moves(p, "stamp",
                [pc |-> r.then, listed |-> {"rows"} \X r.copy.shows,
                 copy |-> [r.copy EXCEPT !.stamp = SubSeq(stamps, 1, 2)]])
        \/ /\ home /\ ~same /\ r.round < Tries
           /\ Moves(p, "stamp", [stamps |-> <<>>, round |-> r.round + 1, copy |-> NoCopy])
        \/ /\ ~home \/ (~same /\ r.round = Tries)
           /\ SnapshotFails(p, "stamp")
     /\ UNCHANGED <<cachefile, rows>>

\* Hash, copy, hash: the copy is good when all three read the same.
Part(reads, n) == SubSeq(reads, 3 * n - 2, 3 * n)

Unchanged(reads) == Part(reads, 1) = Part(reads, 2) /\ Part(reads, 1) = Part(reads, 3)

Copied(reads) ==
  LET part == Part(reads, 2)
  IN Committed([i \in Ids |-> part[i][2]], IF part[3] = NoLog THEN <<>> ELSE part[3][2])

\* A log that was there and is gone when it is to be copied is an error; a copy that does
\* not hold together is made again.
CopyDatabase(p) ==
  LET r == reader[p]
      read == Page((Len(r.reads) % 3) + 1)
      nolog == Len(r.reads) = 5 /\ r.reads[3] = NoLog
      reads == Append(r.reads, IF nolog THEN NoLog ELSE read)
      gone == Len(reads) = 6 /\ reads[3] # NoLog /\ reads[6] = NoLog
  IN /\ At(p, "copy")
     /\ \/ /\ home /\ ~gone /\ Len(reads) < 9
           /\ Moves(p, "copy", [reads |-> reads])
        \/ /\ home /\ Len(reads) = 9 /\ Unchanged(reads) /\ r.unix
           /\ Moves(p, "copy",
                [pc |-> "stamp", reads |-> <<>>,
                 copy |-> [stamp |-> <<>>, shows |-> RowsIn(Copied(reads))]])
        \/ /\ home /\ Len(reads) = 9 /\ Unchanged(reads) /\ ~r.unix
           /\ Moves(p, "copy",
                [pc |-> r.then, reads |-> <<>>, listed |-> {"rows"} \X RowsIn(Copied(reads))])
        \/ /\ home /\ Len(reads) = 9 /\ ~Unchanged(reads) /\ r.try < Tries
           /\ Moves(p, "copy", [reads |-> <<>>, try |-> r.try + 1])
        \/ /\ ~home \/ gone \/ (Len(reads) = 9 /\ ~Unchanged(reads) /\ r.try = Tries)
           /\ SnapshotFails(p, "copy")
     /\ UNCHANGED <<cachefile, rows>>

-----------------------------------------------------------------------------
(* Hermes and SQLite *)

Writing == database.wal # <<>> /\ ~Last(database.wal).last

Moved == database.main = Current

\* A frame is appended, or, when all of the log has been moved, written over it.
AppendFrame(row, here, last) ==
  LET frame == [row |-> row, cell |-> [here |-> here, at |-> changes + 1], last |-> last]
  IN /\ changes < MaxChanges[provider] /\ changes' = changes + 1
     /\ \E wal \in {Append(database.wal, frame)}
                    \cup {<<frame>> : x \in {y \in {1} : Moved /\ ~Writing}} :
          database' = [database EXCEPT !.wal = wal, !.file = TRUE, !.writes[2] = @ + 1]

\* One session is created or removed.
WriteRow ==
  /\ home /\ ~Writing
  /\ \E row \in Ids : AppendFrame(row, ~Current[row].here, TRUE)

\* One session takes the place of the other in one transaction.
ReplaceRow ==
  /\ home /\ (Writing \/ (Current[1].here /\ ~Current[2].here))
  /\ IF Writing THEN AppendFrame(2, TRUE, TRUE) ELSE AppendFrame(1, FALSE, FALSE)

\* A checkpoint moves what is committed, page by page.
Checkpoint ==
  /\ home
  /\ \E row \in Ids :
       /\ database.main[row] # Current[row]
       /\ database' = [database EXCEPT !.main[row] = Current[row], !.writes[1] = @ + 1]
  /\ UNCHANGED changes

\* The last connection takes the log with it.
CloseDatabase ==
  /\ home /\ database.file /\ Moved /\ ~Writing
  /\ database' = [database EXCEPT !.wal = <<>>, !.file = FALSE]
  /\ UNCHANGED changes

DatabaseStep ==
  /\ provider = "hermes"
  /\ WriteRow \/ ReplaceRow \/ Checkpoint \/ CloseDatabase
  /\ UNCHANGED <<home, native>>
==============================================================================
