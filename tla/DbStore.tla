------------------------------ MODULE DbStore ------------------------------
(***************************************************************************)
(* storage::db, the writing half: save() of several processes into one     *)
(* SQLite file (lib/storage/db.hpp, lib/storage/db.cpp, lib/sqlite/).      *)
(*                                                                         *)
(* Every SQL statement is one step, because the code opens no transaction: *)
(* each statement commits by itself, and between any two of them another   *)
(* process may run its own, or the process may be killed.  A statement     *)
(* either takes effect as a whole or fails and changes nothing (SQLite     *)
(* rolls it back).  No busy timeout is set, so a statement may fail at any *)
(* time: because another connection holds the lock (SQLITE_BUSY), because  *)
(* the disk is full, because of an I/O error.                              *)
(*                                                                         *)
(* A device is a model value that stands for the pair (name, origin): the  *)
(* code compares both together and never one alone.                        *)
(***************************************************************************)
EXTENDS Subsequence, FiniteSets

CONSTANTS
  Process,   \* the logger processes that save into the same file
  Device,    \* the pairs (name, origin) of the sensors
  Time,      \* the dates of the readings
  Batches,   \* the vectors of readings that save() may be called with
  MaxRows    \* bound: no call of save() starts at this many rows or more

ReadingType == {"thermal", "load"}

Reading == [dev : Device, type : ReadingType, time : Time]

ASSUME ProcessAssumption == IsFiniteSet(Process)
ASSUME BatchesAssumption == Batches \subseteq Seq(Reading)
ASSUME MaxRowsAssumption == MaxRows \in Nat

VARIABLES
  tables,        \* the tables of the schema that exist
  deviceTable,   \* the rows of table device: deviceId is the position
  readingTable,  \* the rows of table reading: readingId is the position
  pc,            \* for each process: the statement its save() is about to run
  batch,         \* for each process: the argument data of save()
  pos,           \* for each process: which reading of data the loop is at
  devId,         \* for each process: the result of find_or_create_device()
  result         \* for each process: what its last call of save() returned

file == <<tables, deviceTable, readingTable>>
call == <<pc, batch, pos, devId, result>>
dbVars == <<tables, deviceTable, readingTable, pc, batch, pos, devId, result>>

\* A row of table reading; the column value travels with the date and is left
\* out.
ReadingRow == [deviceId : Nat, type : ReadingType, date : Time]

Init ==
  /\ tables = {}
  /\ deviceTable = <<>>
  /\ readingTable = <<>>
  /\ pc = [p \in Process |-> "idle"]
  /\ batch = [p \in Process |-> <<>>]
  /\ pos = [p \in Process |-> 1]
  /\ devId = [p \in Process |-> 0]
  /\ result = [p \in Process |-> "none"]

-----------------------------------------------------------------------------
\* Control flow of one process.

At(p, here) == pc[p] = here

Goto(p, there) == pc' = [pc EXCEPT ![p] = there]

Current(p) == batch[p][pos[p]]

\* The local variables of the call are gone; the argument is still the
\* caller's when the call was successful.
Leave(p, r) ==
  /\ Goto(p, "idle")
  /\ result' = [result EXCEPT ![p] = r]
  /\ batch' = [batch EXCEPT ![p] = IF r = "ok" THEN @ ELSE <<>>]
  /\ pos' = [pos EXCEPT ![p] = 1]
  /\ devId' = [devId EXCEPT ![p] = 0]
  /\ UNCHANGED file

\* A statement of the process fails, and with it the whole save().
Fails(p) == Leave(p, "error")

\* Mutant: the loop ends one reading too early.
LoopFromStopsEarly(p, k) ==
  /\ pos' = [pos EXCEPT ![p] = k]
  /\ Goto(p, IF k < Len(batch[p]) THEN "find_device" ELSE "return")

\* The head of the loop over data: go on with reading k, or leave the loop.
LoopFrom(p, k) ==
  /\ pos' = [pos EXCEPT ![p] = k]
  /\ Goto(p, IF k <= Len(batch[p]) THEN "find_device" ELSE "return")

\* The deviceIds that a device has; the schema does not make them unique.
IdsOf(d) == {i \in DOMAIN deviceTable : deviceTable[i] = d}

-----------------------------------------------------------------------------
\* Mutant: positions are counted from zero.
SaveFromZero(p, b) ==
  /\ At(p, "idle")
  /\ Len(readingTable) < MaxRows
  /\ Goto(p, "table_exists")
  /\ batch' = [batch EXCEPT ![p] = b]
  /\ pos' = [pos EXCEPT ![p] = 0]
  /\ result' = [result EXCEPT ![p] = "none"]
  /\ UNCHANGED <<file, devId>>

\* save(): the process opens the database; SQLite opens the file lazily, so
\* nothing of it is read or written yet.
Save(p, b) ==
  /\ At(p, "idle")
  /\ Len(readingTable) < MaxRows
  /\ Goto(p, "table_exists")
  /\ batch' = [batch EXCEPT ![p] = b]
  /\ pos' = [pos EXCEPT ![p] = 1]
  /\ result' = [result EXCEPT ![p] = "none"]
  /\ UNCHANGED <<file, devId>>

\* ensure_tables_exist() asks for table device only.
TableExists(p) ==
  /\ At(p, "table_exists")
  /\ \/ /\ "device" \in tables
        /\ LoopFrom(p, 1)
        /\ UNCHANGED <<file, batch, devId, result>>
     \/ /\ "device" \notin tables
        /\ Goto(p, "create_device_table")
        /\ UNCHANGED <<file, batch, pos, devId, result>>
     \/ Fails(p)

\* The first CREATE TABLE of the two that one exec() runs.  It fails when the
\* table was created by somebody else in the meantime.
CreateDeviceTable(p) ==
  /\ At(p, "create_device_table")
  /\ \/ /\ "device" \notin tables
        /\ tables' = tables \union {"device"}
        /\ Goto(p, "create_reading_table")
        /\ UNCHANGED <<deviceTable, readingTable, batch, pos, devId, result>>
     \/ Fails(p)

CreateReadingTable(p) ==
  /\ At(p, "create_reading_table")
  /\ \/ /\ "reading" \notin tables
        /\ tables' = tables \union {"reading"}
        /\ LoopFrom(p, 1)
        /\ UNCHANGED <<deviceTable, readingTable, batch, devId, result>>
     \/ Fails(p)

\* Mutant: the comparison never matches, so that a device is always inserted.
FindDeviceNeverFinds(p) ==
  /\ At(p, "find_device")
  /\ \/ /\ Goto(p, "insert_device")
        /\ UNCHANGED <<file, batch, pos, devId, result>>
     \/ Fails(p)

\* Mutant: a device that is not found gets the id zero, as in get_device_id().
FindDeviceReturnsZero(p) ==
  /\ At(p, "find_device")
  /\ \/ /\ \E i \in IF IdsOf(Current(p).dev) = {} THEN {0} ELSE IdsOf(Current(p).dev) :
             devId' = [devId EXCEPT ![p] = i]
        /\ Goto(p, "insert_reading")
        /\ UNCHANGED <<file, batch, pos, result>>
     \/ Fails(p)

\* The SELECT ... LIMIT 1 of find_or_create_device(): any of the rows of the
\* device, as the statement orders nothing.
FindDevice(p) ==
  /\ At(p, "find_device")
  /\ \/ \E i \in IdsOf(Current(p).dev) :
          /\ devId' = [devId EXCEPT ![p] = i]
          /\ Goto(p, "insert_reading")
          /\ UNCHANGED <<file, batch, pos, result>>
     \/ /\ IdsOf(Current(p).dev) = {}
        /\ Goto(p, "insert_device")
        /\ UNCHANGED <<file, batch, pos, devId, result>>
     \/ Fails(p)

\* Mutant: an INSERT that fails is tried again from the SELECT on.
InsertDeviceRetries(p) ==
  /\ At(p, "insert_device")
  /\ \/ /\ deviceTable' = Append(deviceTable, Current(p).dev)
        /\ devId' = [devId EXCEPT ![p] = Len(deviceTable) + 1]
        /\ Goto(p, "insert_reading")
        /\ UNCHANGED <<tables, readingTable, batch, pos, result>>
     \/ /\ Goto(p, "find_device")
        /\ UNCHANGED <<file, batch, pos, devId, result>>

\* The INSERT of find_or_create_device() and last_insert_id(), which is local
\* to the connection.
InsertDevice(p) ==
  /\ At(p, "insert_device")
  /\ \/ /\ deviceTable' = Append(deviceTable, Current(p).dev)
        /\ devId' = [devId EXCEPT ![p] = Len(deviceTable) + 1]
        /\ Goto(p, "insert_reading")
        /\ UNCHANGED <<tables, readingTable, batch, pos, result>>
     \/ Fails(p)

\* Mutant: the error of an INSERT is not passed on.
InsertReadingIgnoresError(p) ==
  /\ At(p, "insert_reading")
  /\ \/ /\ "reading" \in tables
        /\ readingTable' = Append(readingTable,
                                  [deviceId |-> devId[p],
                                   type |-> Current(p).type,
                                   date |-> Current(p).time])
     \/ UNCHANGED readingTable
  /\ LoopFrom(p, pos[p] + 1)
  /\ devId' = [devId EXCEPT ![p] = 0]
  /\ UNCHANGED <<tables, deviceTable, batch, result>>

\* The INSERT INTO reading of insert_reading().  It fails when the table is
\* missing, and when the date cannot be converted.
InsertReading(p) ==
  /\ At(p, "insert_reading")
  /\ \/ /\ "reading" \in tables
        /\ readingTable' = Append(readingTable,
                                  [deviceId |-> devId[p],
                                   type |-> Current(p).type,
                                   date |-> Current(p).time])
        /\ LoopFrom(p, pos[p] + 1)
        /\ devId' = [devId EXCEPT ![p] = 0]
        /\ UNCHANGED <<tables, deviceTable, batch, result>>
     \/ Fails(p)

\* The end of save_impl(): an empty optional.
Finish(p) ==
  /\ At(p, "return")
  /\ Leave(p, "ok")

\* The process is killed between two statements; started again, it knows
\* nothing of the call.
Crash(p) == Leave(p, "none")

SaveStep(p) ==
  \/ TableExists(p)
  \/ CreateDeviceTable(p)
  \/ CreateReadingTable(p)
  \/ FindDevice(p)
  \/ InsertDevice(p)
  \/ InsertReading(p)
  \/ Finish(p)

Next ==
  \E p \in Process :
    \/ \E b \in Batches : Save(p, b)
    \/ SaveStep(p)
    \/ Crash(p)

Spec == Init /\ [][Next]_dbVars
-----------------------------------------------------------------------------
\* Properties.

TypeOK ==
  /\ tables \subseteq {"device", "reading"}
  /\ deviceTable \in Seq(Device)
  /\ readingTable \in Seq(ReadingRow)
  /\ pc \in [Process -> {"idle", "table_exists", "create_device_table",
                        "create_reading_table", "find_device",
                        "insert_device", "insert_reading", "return"}]
  /\ batch \in [Process -> Seq(Reading)]
  /\ pos \in [Process -> Nat \ {0}]
  /\ devId \in [Process -> Nat]
  /\ result \in [Process -> {"none", "ok", "error"}]

\* What SELECT ... FROM reading JOIN device shows of the file: the readings, in
\* the order they were inserted, each with the device its row points to.
Joined ==
  [i \in DOMAIN readingTable |->
     [dev  |-> deviceTable[readingTable[i].deviceId],
      type |-> readingTable[i].type,
      time |-> readingTable[i].date]]

\* The readings that the current call of save() has not inserted yet.
Unsaved(p) ==
  IF At(p, "idle") THEN <<>> ELSE SubSeq(batch[p], pos[p], Len(batch[p]))

CallStatus(p) ==
  IF ~At(p, "idle") THEN "saving"
  ELSE IF result[p] = "none" THEN "idle"
  ELSE result[p]

Promise == INSTANCE ReadingLog
             WITH log <- Joined,
                  todo <- [p \in Process |-> Unsaved(p)],
                  status <- [p \in Process |-> CallStatus(p)]

\* The two tables, joined, behave as the log that storage::store promises, for
\* any interleaving of the statements of any number of processes, whatever
\* statement fails and whenever a process is killed: readings are appended in
\* the order of data, exactly once, under the device they were taken from,
\* success is reported only when all are there, and nothing stored changes.
Implements == Promise!Spec

\* Every row of table reading points to a row of table device.  The schema
\* declares no foreign key: only the order of the statements in
\* insert_reading() provides for it, and load() drops rows that violate it.
ReadingsResolve ==
  \A i \in DOMAIN readingTable :
    readingTable[i].deviceId \in DOMAIN deviceTable

\* When save() reported success, all the readings it was given are in the
\* file, in their order, possibly with readings of other processes between.
SavedBatchStored ==
  \A p \in Process : result[p] = "ok" => IsSubsequence(batch[p], Joined)

\* The processes that found no row for the device and will insert one.
Inserting(d) == {p \in Process : At(p, "insert_device") /\ Current(p).dev = d}

\* find_or_create_device() looks a device up and inserts it in two statements,
\* and the schema allows duplicates: processes that race may each insert the
\* device.  But each at most once, however often it is killed and started
\* again; in particular a logger that has the file for itself never stores a
\* device twice.
DuplicatesBounded ==
  \A d \in Device : Cardinality(IdsOf(d)) <= Cardinality(Process)

\* The documentation of ensure_tables_exist() in db.hpp: "Ensures that the
\* tables needed to save information exist", with an empty optional "if tables
\* existed or were created".  The loop over data starts only after that.
TablesEnsured ==
  \A p \in Process :
    pc[p] \in {"find_device", "insert_device", "insert_reading", "return"}
      => tables = {"device", "reading"}

\* Every save() returns, with or without an error, unless its process dies.
SaveReturns == \A p \in Process : ~At(p, "idle") ~> At(p, "idle")
=============================================================================
