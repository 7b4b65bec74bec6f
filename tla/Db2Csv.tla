------------------------------- MODULE Db2Csv -------------------------------
(***************************************************************************)
(* thermos-db2csv (src/db2csv/db2csv.cpp) with storage::db::load() and     *)
(* storage::csv::save(): programs that export the database into a CSV file *)
(* of their own, while loggers go on saving (module DbStore).              *)
(*                                                                         *)
(* The CSV files lie beside the database: STEM.csv is number 0, STEM_k.csv *)
(* is number k.  The stream of save() hands its rows to the file whenever  *)
(* its buffer is full, which may be in the middle of a row.  So a file is  *)
(* a sequence of fragments: the head of the row of some reading, without   *)
(* the end of the line, or its tail, with it.                              *)
(***************************************************************************)
EXTENDS DbStore, SequencesExt

CONSTANTS
  Exporter,  \* the programs thermos-db2csv, each of which runs once
  Earlier,   \* the numbers of the CSV files that are there from earlier exports
  MaxName    \* bound: no CSV file has a higher number

ASSUME ExporterAssumption == IsFiniteSet(Exporter)
ASSUME MaxNameAssumption == MaxName \in Nat
ASSUME EarlierAssumption == Earlier \subseteq 0 .. MaxName

VARIABLES
  epc,       \* for each exporter: the step it is about to take
  etype,     \* for each exporter: the type of the readings it is busy with
  data,      \* for each exporter: the readings that it has loaded
  sent,      \* for each exporter: how many fragments of these are in the file
  counter,   \* for each exporter: the number of its destination
  exit,      \* for each exporter: "none", then what its caller sees of it
  present,   \* the numbers of the CSV files that exist
  csv,       \* the fragments in each CSV file
  writers,   \* history: the exporters that have opened each CSV file
  atStart,   \* history: the joined tables when the exporter started
  before     \* history: the CSV files that existed when the exporter started

exporter == <<epc, etype, data, sent, counter, exit, atStart, before>>
files == <<present, csv, writers>>
exportVars == <<dbVars, exporter, files>>

Name == 0 .. MaxName

ExportInit ==
  /\ Init
  /\ epc = [e \in Exporter |-> "start"]
  /\ etype = [e \in Exporter |-> "thermal"]
  /\ data = [e \in Exporter |-> <<>>]
  /\ sent = [e \in Exporter |-> 0]
  /\ counter = [e \in Exporter |-> 0]
  /\ exit = [e \in Exporter |-> "none"]
  /\ present = Earlier
  /\ csv = [n \in Name |-> <<>>]
  /\ writers = [n \in Name |-> {}]
  /\ atStart = [e \in Exporter |-> <<>>]
  /\ before = [e \in Exporter |-> {}]

-----------------------------------------------------------------------------

ExporterGoto(e, there) == epc' = [epc EXCEPT ![e] = there]

\* The program ends, and its variables go with it.  The CSV file stays as it
\* is; only success tells its name.
Exit(e, how) ==
  /\ ExporterGoto(e, "end")
  /\ exit' = [exit EXCEPT ![e] = how]
  /\ etype' = [etype EXCEPT ![e] = "thermal"]
  /\ data' = [data EXCEPT ![e] = <<>>]
  /\ sent' = [sent EXCEPT ![e] = 0]
  /\ counter' = [counter EXCEPT ![e] = IF how = "ok" THEN @ ELSE 0]
  /\ atStart' = [atStart EXCEPT ![e] = IF how = "ok" THEN @ ELSE <<>>]
  /\ before' = [before EXCEPT ![e] = {}]
  /\ UNCHANGED files

\* db2csv() is called.  It returns at once when there is no database file,
\* which is the case at most while no logger has created a table.
StartExport(e) ==
  /\ epc[e] = "start"
  /\ \/ /\ ExporterGoto(e, "load")
        /\ atStart' = [atStart EXCEPT ![e] = Joined]
        /\ before' = [before EXCEPT ![e] = present]
        /\ UNCHANGED <<etype, data, sent, counter, exit, files>>
     \/ /\ tables = {}
        /\ Exit(e, "failure")

\* Whether row r may come before row q: by deviceId, then by date.
NotAfter(r, q) ==
  \/ r.deviceId < q.deviceId
  \/ r.deviceId = q.deviceId /\ r.date <= q.date

\* Mutant: the SELECT asks for no type.
SelectedRowsOfBoth(t) ==
  LET rows == {k \in DOMAIN readingTable :
                 readingTable[k].deviceId \in DOMAIN deviceTable}
  IN  {s \in SetToSeqs(rows) :
         \A i, j \in DOMAIN s :
           i < j => NotAfter(readingTable[s[i]], readingTable[s[j]])}

\* The rows of the SELECT of load_impl(), in its order: by deviceId, then by
\* date.  Rows that agree in both come in any order.
SelectedRows(t) ==
  LET rows == {k \in DOMAIN readingTable :
                 /\ readingTable[k].type = t
                 /\ readingTable[k].deviceId \in DOMAIN deviceTable}
  IN  {s \in SetToSeqs(rows) :
         \A i, j \in DOMAIN s :
           i < j => NotAfter(readingTable[s[i]], readingTable[s[j]])}

\* The device that the loop of load_impl() has at hand in each row: it is read
\* from the row only when the deviceId differs from that of the row before.
Devices(s) ==
  LET row == [k \in DOMAIN s |-> readingTable[s[k]]]
      dev[k \in DOMAIN s] ==
        IF k > 1 /\ row[k].deviceId = row[k - 1].deviceId
        THEN dev[k - 1]
        ELSE deviceTable[row[k].deviceId]
  IN  dev

\* db.load(): afterwards the thermal readings need a destination, the load
\* readings go to the same one.
Load(e) ==
  /\ epc[e] = "load"
  /\ \/ /\ tables = {"device", "reading"}
        /\ \E s \in SelectedRows(etype[e]) :
             data' = [data EXCEPT ![e] =
                        [k \in DOMAIN s |-> [dev  |-> Devices(s)[k],
                                             type |-> readingTable[s[k]].type,
                                             time |-> readingTable[s[k]].date]]]
        /\ ExporterGoto(e, IF etype[e] = "thermal" THEN "csv_name" ELSE "open")
        /\ UNCHANGED <<etype, sent, counter, exit, atStart, before, files>>
     \/ Exit(e, "failure")

\* Mutant: the first name is taken without looking.
CsvNameFixed(e) ==
  /\ epc[e] = "csv_name"
  /\ ExporterGoto(e, "open")
  /\ UNCHANGED <<etype, data, sent, counter, exit, atStart, before, files>>

\* Mutant: the counter is forgotten.
CsvNameStays(e) ==
  /\ epc[e] = "csv_name"
  /\ IF counter[e] \in present THEN UNCHANGED epc ELSE ExporterGoto(e, "open")
  /\ UNCHANGED <<etype, data, sent, counter, exit, atStart, before, files>>

\* One round of the loop of csv_name(): the name is taken, or it is free now.
\* An error of exists() ends the loop too, whatever the name; a file that
\* cannot be looked up cannot be opened either, which is the failure here.
CsvName(e) ==
  /\ epc[e] = "csv_name"
  /\ \/ /\ counter[e] \in present
        /\ counter[e] < MaxName
        /\ counter' = [counter EXCEPT ![e] = @ + 1]
        /\ UNCHANGED <<epc, etype, data, sent, exit, atStart, before, files>>
     \/ /\ counter[e] \notin present
        /\ ExporterGoto(e, "open")
        /\ UNCHANGED <<etype, data, sent, counter, exit, atStart, before, files>>
     \/ Exit(e, "failure")

\* The file that an exporter opens is there, and it is one of its writers.
Opened(e) ==
  /\ present' = present \union {counter[e]}
  /\ writers' = [writers EXCEPT ![counter[e]] = @ \union {e}]
  /\ ExporterGoto(e, "write")
  /\ UNCHANGED <<etype, data, sent, counter, exit, atStart, before>>

\* Mutant: the file is opened without std::ios::app.
OpenTruncates(e) ==
  /\ epc[e] = "open"
  /\ \/ Opened(e) /\ csv' = [csv EXCEPT ![counter[e]] = <<>>]
     \/ Exit(e, "failure")

\* csv.save() opens the file to append to it, and creates it if need be.
Open(e) ==
  /\ epc[e] = "open"
  /\ \/ Opened(e) /\ UNCHANGED csv
     \/ Exit(e, "failure")

\* The k-th of the fragments that the stream makes of the readings d.
Piece(d, k) ==
  [of |-> d[(k + 1) \div 2], part |-> IF k % 2 = 1 THEN "head" ELSE "tail"]

\* The fragments behind the m-th, up to the k-th.
Pieces(d, m, k) == [j \in 1 .. k - m |-> Piece(d, m + j)]

\* The buffer is flushed: the next fragments reach the end of the file.  Or the
\* stream goes bad, or a date cannot be converted, which ends save() with an
\* error.
Write(e) ==
  /\ epc[e] = "write"
  /\ \/ \E k \in sent[e] + 1 .. 2 * Len(data[e]) :
          /\ csv' = [csv EXCEPT ![counter[e]] =
                       @ \o Pieces(data[e], sent[e], k)]
          /\ sent' = [sent EXCEPT ![e] = k]
          /\ UNCHANGED <<epc, etype, data, counter, exit, present, writers,
                         atStart, before>>
     \/ Exit(e, "failure")

\* The stream is closed and good: on with the load readings, or the end.
Close(e) ==
  /\ epc[e] = "write"
  /\ sent[e] = 2 * Len(data[e])
  /\ \/ /\ etype[e] = "thermal"
        /\ etype' = [etype EXCEPT ![e] = "load"]
        /\ ExporterGoto(e, "load")
        /\ data' = [data EXCEPT ![e] = <<>>]
        /\ sent' = [sent EXCEPT ![e] = 0]
        /\ UNCHANGED <<counter, exit, atStart, before, files>>
     \/ /\ etype[e] = "load"
        /\ Exit(e, "ok")

\* The exporter is killed, which its caller sees as a failure.
KillExporter(e) == exit[e] = "none" /\ Exit(e, "failure")

ExportStep(e) ==
  /\ UNCHANGED dbVars
  /\ \/ StartExport(e)
     \/ Load(e)
     \/ CsvName(e)
     \/ Open(e)
     \/ Write(e)
     \/ Close(e)

ExportNext ==
  \/ Next /\ UNCHANGED <<exporter, files>>
  \/ \E e \in Exporter :
       \/ ExportStep(e)
       \/ KillExporter(e) /\ UNCHANGED dbVars

\* The operating system lets an exporter go on.
ExportSpec ==
  /\ ExportInit
  /\ [][ExportNext]_exportVars
  /\ \A e \in Exporter : WF_exportVars(ExportStep(e))

-----------------------------------------------------------------------------
\* Properties.

Count(s, x) == Cardinality({i \in DOMAIN s : s[i] = x})

\* The lines of a CSV file that are whole rows: a head where a line begins, and
\* the tail of the same reading behind it.
RowsAt(f) ==
  {i \in DOMAIN f : /\ f[i].part = "head"
                    /\ i > 1 => f[i - 1].part = "tail"
                    /\ i < Len(f)
                    /\ f[i + 1] = [of |-> f[i].of, part |-> "tail"]}

\* How many rows of a CSV file say x.
RowCount(f, x) == Cardinality({i \in RowsAt(f) : f[i].of = x})

\* An exporter that reports success has written every reading, of both types,
\* that was in the database when it was started.
WroteAll(e) ==
  exit[e] = "ok" =>
    \A x \in Reading : RowCount(csv[counter[e]], x) >= Count(atStart[e], x)

\* The export is complete when no other exporter has opened the file: although
\* the two types are loaded at two times and the file is opened twice, although
\* loggers save in between, although other exporters look for names at the same
\* time, and although a device may have been stored twice.
ExportComplete ==
  \A e \in Exporter : writers[counter[e]] \subseteq {e} => WroteAll(e)

\* What save() and db2csv() promise: no error, so the data was written.  Two
\* exporters that have found the same free name tear each other's rows.
SuccessIsWritten == \A e \in Exporter : WroteAll(e)

\* A file that only one exporter has opened says nothing that is not in the
\* database under the same device, says it only once, and has no torn line.
NothingInvented ==
  \A n \in Name, e \in Exporter :
    writers[n] \subseteq {e} =>
      /\ \A x \in Reading : RowCount(csv[n], x) <= Count(Joined, x)
      /\ \A i \in DOMAIN csv[n] :
           csv[n][i].part = "tail" => i - 1 \in RowsAt(csv[n])

\* An exporter appends, but never to a file that was there when it started:
\* earlier exports stay as they are.
OlderFilesKept ==
  \A e \in Exporter : epc[e] \in {"open", "write"} => counter[e] \notin before[e]

\* All exporters end, also when names are taken away while they look for one.
ExportEnds == <>(\A e \in Exporter : epc[e] = "end")
=============================================================================
