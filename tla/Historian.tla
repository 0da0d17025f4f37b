------------------------------ MODULE Historian -----------------------------
(***************************************************************************)
(* One of the historian's families of daily files and its JsonlWriter         *)
(* (data/historian).  A file is the sequence of what was written to it: the    *)
(* number of a record and whether all of it is there.  A line ends with its    *)
(* record, so one that is not whole runs into what is written next.            *)
(***************************************************************************)
EXTENDS Integers, Sequences, FiniteSets

CONSTANT Days

NoFiles == [d \in Days |-> <<>>]

\* What became of a write: all of it, a part of it, or nothing is on disk.
Outcomes == {"whole", "torn", "nothing"}

\* Mutation: an existing file is opened from its start.
OpenTruncating(files, day) == [files EXCEPT ![day] = <<>>]

\* open_append: what is in the file stays.
Open(files, day) == files

\* write_all on a file that is open for appending.
Write(files, day, record, outcome) ==
  IF outcome = "nothing" THEN files
  ELSE [files EXCEPT ![day] = Append(@, [record |-> record,
                                         whole  |-> outcome = "whole"])]

\* Mutation: the writer takes the new day before the file is open.
DayKeptEarly(writer, today) == today

\* The day of a writer after a file could not be opened: that of its old file.
DayKept(writer, today) == writer.day

\* write_line.  Each element is what may be the result: the writer, the files,
\* and what became of the record.
WriteLine(writer, files, today, record) ==
  LET reopened == IF writer.day = today THEN writer
                  ELSE [day |-> today, file |-> today]
      opened   == IF writer.day = today THEN files ELSE Open(files, today)
  IN  {[writer |-> reopened, outcome |-> o,
        files  |-> Write(opened, reopened.file, record, o)] : o \in Outcomes}
      \cup
      IF writer.day = today THEN {}
      ELSE {[writer  |-> [writer EXCEPT !.day = DayKept(writer, today)],
             outcome |-> "nothing", files |-> files]}

\* The records a reader gets from a file: those that are a line of their own.
Readable(file) ==
  {file[i].record : i \in {n \in DOMAIN file :
     file[n].whole /\ (n > 1 => file[n - 1].whole)}}
=============================================================================
