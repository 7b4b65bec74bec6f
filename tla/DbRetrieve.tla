----------------------------- MODULE DbRetrieve -----------------------------
(***************************************************************************)
(* storage::db, the reading half, as thermos-graph-generator drives it in  *)
(* generate_traces(): get_devices(), then get_device_readings() for each   *)
(* device, which is get_device_id(), SELECT MAX(date) and the SELECT of    *)
(* the rows.  Every one of these statements sees the file as it is at that *)
(* moment; loggers go on saving between them (module DbStore).             *)
(***************************************************************************)
EXTENDS DbStore, SequencesExt

CONSTANTS
  Reader,    \* the programs that read the file
  TimeSpan,  \* the argument time_span of get_device_readings()
  MaxReads   \* bound: a reader generates its traces this many times

ASSUME TimeAssumption == Time \subseteq Nat
ASSUME TimeSpanAssumption == TimeSpan \in Nat

VARIABLES
  rpc,       \* for each reader: the statement it is about to run
  rtype,     \* for each reader: the type of the readings it asks for
  devices,   \* for each reader: devices of get_devices() not read yet
  id,        \* for each reader: the result of get_device_id()
  maxDate,   \* for each reader: the result of SELECT MAX(date)
  trace,     \* for each reader: the rows of the readings returned last
  atStart,   \* history: the joined file when get_device_readings() started
  reads      \* for each reader: how often it has started

reader == <<rpc, rtype, devices, id, maxDate, trace, atStart, reads>>
retrieveVars == <<dbVars, reader>>

RetrieveInit ==
  /\ Init
  /\ rpc = [r \in Reader |-> "idle"]
  /\ rtype = [r \in Reader |-> "thermal"]
  /\ devices = [r \in Reader |-> <<>>]
  /\ id = [r \in Reader |-> 0]
  /\ maxDate = [r \in Reader |-> 0]
  /\ trace = [r \in Reader |-> {}]
  /\ atStart = [r \in Reader |-> <<>>]
  /\ reads = [r \in Reader |-> 0]

-----------------------------------------------------------------------------

ReaderGoto(r, there) == rpc' = [rpc EXCEPT ![r] = there]

\* generate_traces() returns; a statement that fails makes it return an error.
Done(r) ==
  /\ ReaderGoto(r, "idle")
  /\ devices' = [devices EXCEPT ![r] = <<>>]
  /\ id' = [id EXCEPT ![r] = 0]
  /\ maxDate' = [maxDate EXCEPT ![r] = 0]
  /\ trace' = [trace EXCEPT ![r] = {}]
  /\ atStart' = [atStart EXCEPT ![r] = <<>>]
  /\ UNCHANGED <<rtype, reads>>

\* The loop over devs: the next device, or the end of generate_traces().
NextDevice(r, ds) ==
  IF ds = <<>> THEN Done(r)
  ELSE /\ ReaderGoto(r, "get_device_id")
       /\ devices' = [devices EXCEPT ![r] = ds]
       /\ id' = [id EXCEPT ![r] = 0]
       /\ maxDate' = [maxDate EXCEPT ![r] = 0]
       /\ trace' = [trace EXCEPT ![r] = {}]
       /\ atStart' = [atStart EXCEPT ![r] = Joined]
       /\ UNCHANGED <<rtype, reads>>

RowsOf(i) == {k \in DOMAIN readingTable : readingTable[k].deviceId = i}

\* Mutant: the devices are selected without the join.
DeviceRowsAll(t) == DOMAIN deviceTable

\* The rows of table device that have a reading of the type: get_devices()
\* returns a device as often as it has such rows.
DeviceRows(t) ==
  {i \in DOMAIN deviceTable : \E k \in RowsOf(i) : readingTable[k].type = t}

StartReading(r) ==
  /\ rpc[r] = "idle"
  /\ reads[r] < MaxReads
  /\ ReaderGoto(r, "get_devices")
  /\ reads' = [reads EXCEPT ![r] = @ + 1]
  /\ \E t \in ReadingType : rtype' = [rtype EXCEPT ![r] = t]
  /\ UNCHANGED <<dbVars, devices, id, maxDate, trace, atStart>>

\* get_devices(): one SELECT, ORDER BY name; devices may share a name, so the
\* rows come in some order.
GetDevices(r) ==
  /\ rpc[r] = "get_devices"
  /\ \/ /\ tables = {"device", "reading"}
        /\ \E rows \in SetToSeqs(DeviceRows(rtype[r])) :
             NextDevice(r, [k \in DOMAIN rows |-> deviceTable[rows[k]]])
     \/ Done(r)

\* get_device_id(): SELECT ... LIMIT 1, any of the rows; zero without a row.
GetDeviceId(r) ==
  /\ rpc[r] = "get_device_id"
  /\ \/ /\ LET ids == IdsOf(Head(devices[r])) IN
             \E i \in IF ids = {} THEN {0} ELSE ids : id' = [id EXCEPT ![r] = i]
        /\ ReaderGoto(r, "max_date")
        /\ UNCHANGED <<rtype, devices, maxDate, trace, atStart, reads>>
     \/ Done(r)

\* SELECT MAX(date): an aggregate has a row also when nothing matches, and then
\* its column is NULL.  The code copies the text of the column into a string
\* without a test: without a row to take the maximum of, a null pointer.
MaxDate(r) ==
  /\ rpc[r] = "max_date"
  /\ \/ \E k \in RowsOf(id[r]) :
          /\ \A n \in RowsOf(id[r]) : readingTable[n].date <= readingTable[k].date
          /\ maxDate' = [maxDate EXCEPT ![r] = readingTable[k].date]
          /\ ReaderGoto(r, "select_readings")
          /\ UNCHANGED <<rtype, devices, id, trace, atStart, reads>>
     \/ /\ RowsOf(id[r]) = {}
        /\ ReaderGoto(r, "null_string")
        /\ UNCHANGED <<rtype, devices, id, maxDate, trace, atStart, reads>>
     \/ Done(r)

\* Mutant: the time span ends one too early.
SelectReadingsShortSpan(r) ==
  /\ rpc[r] = "select_readings"
  /\ \/ /\ trace' = [trace EXCEPT ![r] =
                       {k \in RowsOf(id[r]) : /\ readingTable[k].type = rtype[r]
                                              /\ readingTable[k].date + TimeSpan > maxDate[r]}]
        /\ ReaderGoto(r, "vectorize")
        /\ UNCHANGED <<rtype, devices, id, maxDate, atStart, reads>>
     \/ Done(r)

\* Mutant: the readings are not restricted to the device.
SelectReadingsOfAll(r) ==
  /\ rpc[r] = "select_readings"
  /\ \/ /\ trace' = [trace EXCEPT ![r] =
                       {k \in DOMAIN readingTable :
                          /\ readingTable[k].type = rtype[r]
                          /\ readingTable[k].date + TimeSpan >= maxDate[r]}]
        /\ ReaderGoto(r, "vectorize")
        /\ UNCHANGED <<rtype, devices, id, maxDate, atStart, reads>>
     \/ Done(r)

\* The rows of the device from the latest date up to time_span back; the
\* statement orders nothing, so they are a set of readingIds.
SelectReadings(r) ==
  /\ rpc[r] = "select_readings"
  /\ \/ /\ trace' = [trace EXCEPT ![r] =
                       {k \in RowsOf(id[r]) : /\ readingTable[k].type = rtype[r]
                                              /\ readingTable[k].date + TimeSpan >= maxDate[r]}]
        /\ ReaderGoto(r, "vectorize")
        /\ UNCHANGED <<rtype, devices, id, maxDate, atStart, reads>>
     \/ Done(r)

\* Mutant: the loop stays at the device.
FinishDeviceStays(r) ==
  /\ rpc[r] = "vectorize"
  /\ NextDevice(r, devices[r])

\* The trace of the device is integrated; the loop goes on.
FinishDevice(r) ==
  /\ rpc[r] = "vectorize"
  /\ NextDevice(r, Tail(devices[r]))

ReadStep(r) ==
  /\ \/ GetDevices(r)
     \/ GetDeviceId(r)
     \/ MaxDate(r)
     \/ SelectReadings(r)
     \/ FinishDevice(r)
  /\ UNCHANGED dbVars

RetrieveNext ==
  \/ Next /\ UNCHANGED reader
  \/ \E r \in Reader : StartReading(r) \/ ReadStep(r)

RetrieveSpec == RetrieveInit /\ [][RetrieveNext]_retrieveVars

\* The operating system lets running programs go on.
RetrieveFairSpec ==
  /\ RetrieveSpec
  /\ \A r \in Reader : WF_retrieveVars(ReadStep(r))
  /\ \A p \in Process : WF_retrieveVars(SaveStep(p) /\ UNCHANGED reader)

-----------------------------------------------------------------------------
\* Properties.

\* db.hpp:291-293, the comment "No data." in get_device_readings_impl(): that
\* a device has no readings yet is a case of its own, with an empty result and
\* no error.  So reading never runs into the string of a null pointer.
NoDataIsHandled == \A r \in Reader : rpc[r] # "null_string"

\* The time span that ends with the newest reading of the device reaches back to
\* time t or further.
Covers(d, t) == \A n \in DOMAIN Joined : Joined[n].dev = d => Joined[n].time <= t + TimeSpan

\* What get_device_readings() returns covers the readings of the device that
\* were in the file when it was called: of those, it leaves out none that is
\* in the time span that ends with the newest (retrieve.hpp: it "will retrieve
\* the data from the latest time up to two hours back"), although loggers
\* insert newer ones between its statements.
TraceComplete ==
  \A r \in Reader :
    rpc[r] = "vectorize" =>
      \A k \in DOMAIN atStart[r] :
        LET j == atStart[r][k] IN
          (/\ j.dev = Head(devices[r])
           /\ j.type = rtype[r]
           /\ Covers(j.dev, j.time))
            => \E n \in trace[r] : readingTable[n].date = j.time

\* And it returns only readings of that device, of the type asked for.
TraceOfDevice ==
  \A r \in Reader :
    rpc[r] = "vectorize" =>
      \A n \in trace[r] :
        /\ deviceTable[readingTable[n].deviceId] = Head(devices[r])
        /\ readingTable[n].type = rtype[r]

\* Reading comes to an end, while loggers keep saving.
ReadingEnds ==
  \A r \in Reader : rpc[r] # "idle" ~> rpc[r] = "idle"
=============================================================================
