------------------------------ MODULE Exporter ------------------------------
(***************************************************************************)
(* internal/stream: how the rows of a row stream become a file or batches. *)
(* An exporter is given the rows the stream delivers, whether the stream   *)
(* (or the context) then reports an error, and whether the disk has room.  *)
(* It is a set of outcomes: whether the call succeeds, and the file that   *)
(* there is afterwards.  A row is a function of its columns.               *)
(***************************************************************************)
EXTENDS Queries

NoFile == [readable |-> TRUE, exists |-> FALSE, records |-> <<>>]

File(records) == [readable |-> TRUE, exists |-> TRUE, records |-> records]

\* A file of a format that is written in one piece, of which a part is missing.
Torn == [readable |-> FALSE, exists |-> TRUE, records |-> <<>>]

Exported(file) == [ok |-> TRUE, file |-> file]
NotExported(file) == [ok |-> FALSE, file |-> file]

\* The cells of the first row's columns.
Records(rows) ==
    [n \in DOMAIN rows |->
       [c \in DOMAIN rows[1] |-> IF c \in DOMAIN rows[n] THEN rows[n][c] ELSE Null]]

\* The file is created first, and what was written is flushed on every return.
\* The writer buffers: a full disk is noticed by a Write, or not before the last
\* Flush, whose error is not looked at.
ExportCSV(rows, err, disk, old) ==
    CASE disk = "room" /\ ~err -> {Exported(File(Records(rows)))}
      [] disk = "room" /\ err  -> {NotExported(File(Records(rows)))}
      [] disk = "full" ->
           {NotExported(File(some)) : some \in Prefixes(Records(rows))}
             \cup (IF err THEN {} ELSE {Exported(File(some)) : some \in Prefixes(Records(rows))})

\* Mutant: the stream's error is not looked at.
ExportJSONLUnchecked(rows, err, disk, old) ==
    IF disk = "room" THEN {Exported(File(rows))}
    ELSE {NotExported(File(some)) : some \in Prefixes(rows)}

\* The file is created first, and each row is written when it is read.
ExportJSONL(rows, err, disk, old) ==
    CASE disk = "room" /\ ~err -> {Exported(File(rows))}
      [] disk = "room" /\ err  -> {NotExported(File(rows))}
      [] disk = "full" -> {NotExported(File(some)) : some \in Prefixes(rows)}

\* The sheet is in memory until it is saved.
ExportExcel(rows, err, disk, old) ==
    CASE err -> {NotExported(old)}
      [] ~err /\ disk = "room" -> {Exported(File(Records(rows)))}
      [] ~err /\ disk = "full" -> {NotExported(Torn)}

\* The rows are in memory until they are written.  Without rows no file is.
ExportParquet(rows, err, disk, old) ==
    CASE err -> {NotExported(old)}
      [] ~err /\ rows = <<>> -> {Exported(old)}
      [] ~err /\ rows # <<>> /\ disk = "room" -> {Exported(File(rows))}
      [] ~err /\ rows # <<>> /\ disk = "full" -> {NotExported(Torn)}

Formats == {"csv", "jsonl", "excel", "parquet"}

\* Another format is an error.
Export(format, rows, err, disk, old) ==
    CASE format = "csv"     -> ExportCSV(rows, err, disk, old)
      [] format = "jsonl"   -> ExportJSONL(rows, err, disk, old)
      [] format = "excel"   -> ExportExcel(rows, err, disk, old)
      [] format = "parquet" -> ExportParquet(rows, err, disk, old)
      [] OTHER              -> {NotExported(old)}

-----------------------------------------------------------------------------
\* The next rows, those that are left, and whether the batch is full: then there
\* is another one, perhaps empty.
NextBatch(left, size) ==
    LET n == IF Len(left) < size THEN Len(left) ELSE size
    IN  [rows |-> SubSeq(left, 1, n), left |-> SubSeq(left, n + 1, Len(left)), more |-> n = size]
=============================================================================
