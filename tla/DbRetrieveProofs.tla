-------------------------- MODULE DbRetrieveProofs --------------------------
(***************************************************************************)
(* Proofs about DbRetrieve: what a program that reads the file sees while  *)
(* others save into it, for any number of loggers and readers as far as    *)
(* that is true, and for one logger where a second one would spoil it.     *)
(***************************************************************************)
EXTENDS DbRetrieve, DbStoreProofs

\* The statements of get_device_readings(): a device is at hand.
AtDevice == {"get_device_id", "max_date", "select_readings", "vectorize"}

ReaderTypes ==
  /\ rpc \in [Reader -> {"idle", "get_devices", "null_string"} \cup AtDevice]
  /\ rtype \in [Reader -> ReadingType]
  /\ devices \in [Reader -> Seq(Device)]
  /\ id \in [Reader -> Nat]
  /\ maxDate \in [Reader -> Nat]
  /\ trace \in [Reader -> SUBSET Nat]
  /\ atStart \in [Reader -> Seq(Reading)]
  /\ \A r \in Reader : rpc[r] \in AtDevice => devices[r] # <<>>

\* The id stays the one of a row of the device, as no row is ever changed; it
\* is zero only until the maximum of no rows has been taken.
IdHeld ==
  \A r \in Reader :
    /\ rpc[r] = "max_date" => id[r] = 0 \/ id[r] \in IdsOf(Head(devices[r]))
    /\ rpc[r] \in {"select_readings", "vectorize"} => id[r] \in IdsOf(Head(devices[r]))

\* The rows of the trace are still rows of that id and of the type.
TraceHeld ==
  \A r \in Reader :
    rpc[r] = "vectorize" =>
      \A n \in trace[r] : n \in RowsOf(id[r]) /\ readingTable[n].type = rtype[r]

OwnInv == DbInv /\ ReaderTypes /\ IdHeld /\ TraceHeld

\* The rows that one statement returns, in any order, are rows of the table.
LEMMA DevicesReturned ==
  ASSUME DbInv, NEW t, NEW rows \in SetToSeqs(DeviceRows(t))
  PROVE  LET ds == [k \in DOMAIN rows |-> deviceTable[rows[k]]] IN
         /\ ds \in Seq(Device)
         /\ \A m \in DOMAIN ds : rows[m] \in DeviceRows(t) /\ ds[m] = deviceTable[rows[m]]
<1> DEFINE n == Cardinality(DeviceRows(t))
           ds == [k \in DOMAIN rows |-> deviceTable[rows[k]]]
<1>1. deviceTable \in Seq(Device) /\ Len(deviceTable) \in Nat
  BY DEF DbInv, TypeInv, TypeOK
<1>2. DeviceRows(t) \subseteq DOMAIN deviceTable /\ DeviceRows(t) \subseteq 1 .. Len(deviceTable)
  BY <1>1 DEF DeviceRows
<1>3. n \in Nat
  <2>1. IsFiniteSet(1 .. Len(deviceTable))
    BY <1>1, FS_Interval
  <2>2. IsFiniteSet(DeviceRows(t))
    BY <1>2, <2>1, FS_Subset
  <2> QED
    BY <2>2, FS_CardinalityType
<1>4. rows \in [1 .. n -> DeviceRows(t)]
  BY DEF SetToSeqs
<1> HIDE DEF n
<1>5. ds \in [1 .. n -> Device]
  BY <1>1, <1>2, <1>4
<1>6. ds \in Seq(Device)
  BY <1>3, <1>5
<1> QED
  BY <1>4, <1>6

\* The step of a reader touches no variable of another one.
LEMMA ReaderFrame ==
  ASSUME ReaderTypes, NEW r \in Reader, StartReading(r) \/ ReadStep(r),
         NEW q \in Reader, q # r
  PROVE  /\ rpc'[q] = rpc[q]
         /\ rtype'[q] = rtype[q]
         /\ devices'[q] = devices[q]
         /\ id'[q] = id[q]
         /\ maxDate'[q] = maxDate[q]
         /\ trace'[q] = trace[q]
         /\ atStart'[q] = atStart[q]
<1>1. ASSUME Done(r)
      PROVE  /\ rpc'[q] = rpc[q]
             /\ rtype'[q] = rtype[q]
             /\ devices'[q] = devices[q]
             /\ id'[q] = id[q]
             /\ maxDate'[q] = maxDate[q]
             /\ trace'[q] = trace[q]
             /\ atStart'[q] = atStart[q]
  BY <1>1 DEF Done, ReaderGoto, ReaderTypes
<1>2. ASSUME NEW ds, NextDevice(r, ds)
      PROVE  /\ rpc'[q] = rpc[q]
             /\ rtype'[q] = rtype[q]
             /\ devices'[q] = devices[q]
             /\ id'[q] = id[q]
             /\ maxDate'[q] = maxDate[q]
             /\ trace'[q] = trace[q]
             /\ atStart'[q] = atStart[q]
  BY <1>1, <1>2 DEF NextDevice, ReaderGoto, ReaderTypes
<1>3. CASE StartReading(r)
  BY <1>3 DEF StartReading, ReaderGoto, ReaderTypes
<1>4. CASE GetDevices(r)
  BY <1>1, <1>2, <1>4 DEF GetDevices
<1>5. CASE GetDeviceId(r)
  BY <1>1, <1>5 DEF GetDeviceId, ReaderGoto, ReaderTypes
<1>6. CASE MaxDate(r)
  BY <1>1, <1>6 DEF MaxDate, ReaderGoto, ReaderTypes
<1>7. CASE SelectReadings(r)
  BY <1>1, <1>7 DEF SelectReadings, ReaderGoto, ReaderTypes
<1>8. CASE FinishDevice(r)
  BY <1>2, <1>8 DEF FinishDevice
<1> QED
  BY <1>3, <1>4, <1>5, <1>6, <1>7, <1>8 DEF ReadStep

\* Going on with devices ds, or to the end, from any statement.
LEMMA NextDeviceOwn ==
  ASSUME OwnInv, NEW r \in Reader, NEW ds \in Seq(Device),
         NextDevice(r, ds) \/ Done(r), UNCHANGED dbVars,
         Joined \in Seq(Reading)
  PROVE  /\ ReaderTypes'
         /\ rpc'[r] \in {"idle", "get_device_id"}
<1>1. ASSUME Done(r)
      PROVE  ReaderTypes' /\ rpc'[r] = "idle"
  <2>1. <<>> \in Seq(Device) /\ <<>> \in Seq(Reading) /\ {} \subseteq Nat
    OBVIOUS
  <2>2. rpc' = [rpc EXCEPT ![r] = "idle"]
    BY <1>1 DEF Done, ReaderGoto
  <2>3. \A q \in Reader : rpc'[q] \in AtDevice => rpc'[q] = rpc[q] /\ devices'[q] = devices[q]
    BY <1>1, <2>2 DEF Done, ReaderTypes, OwnInv, AtDevice
  <2> QED
    BY <1>1, <2>1, <2>2, <2>3 DEF Done, ReaderTypes, OwnInv
<1>2. ASSUME ds # <<>>, NextDevice(r, ds)
      PROVE  ReaderTypes' /\ rpc'[r] = "get_device_id"
  <2>1. /\ rpc' = [rpc EXCEPT ![r] = "get_device_id"]
        /\ devices' = [devices EXCEPT ![r] = ds]
        /\ id' = [id EXCEPT ![r] = 0]
        /\ maxDate' = [maxDate EXCEPT ![r] = 0]
        /\ trace' = [trace EXCEPT ![r] = {}]
        /\ atStart' = [atStart EXCEPT ![r] = Joined]
        /\ rtype' = rtype
    BY <1>2 DEF NextDevice, ReaderGoto
  <2>2. \A q \in Reader : rpc'[q] \in AtDevice => devices'[q] # <<>>
    BY <1>2, <2>1 DEF ReaderTypes, OwnInv
  <2>3. {} \in SUBSET Nat /\ "get_device_id" \in AtDevice
    BY DEF AtDevice
  <2> QED
    BY <2>1, <2>2, <2>3 DEF ReaderTypes, OwnInv
<1> QED
  BY <1>1, <1>2 DEF NextDevice

\* A step of a reader keeps the invariant; the file does not change.
LEMMA OwnReaderStep ==
  ASSUME OwnInv, NEW r \in Reader, StartReading(r) \/ ReadStep(r)
  PROVE  OwnInv'
<1>1. UNCHANGED dbVars
  BY DEF StartReading, ReadStep
<1>2. DbInv'
  BY <1>1, DbInvNext DEF OwnInv
<1>3. /\ UNCHANGED <<deviceTable, readingTable>>
      /\ \A d : IdsOf(d)' = IdsOf(d)
      /\ \A i : RowsOf(i)' = RowsOf(i)
  BY <1>1 DEF dbVars, IdsOf, RowsOf
<1>4. \A q \in Reader : q # r =>
        /\ rpc'[q] = rpc[q]
        /\ rtype'[q] = rtype[q]
        /\ devices'[q] = devices[q]
        /\ id'[q] = id[q]
        /\ trace'[q] = trace[q]
  BY ReaderFrame DEF OwnInv
<1>5. SUFFICES
        /\ ReaderTypes'
        /\ rpc'[r] = "max_date" => id'[r] = 0 \/ id'[r] \in IdsOf(Head(devices'[r]))
        /\ rpc'[r] \in {"select_readings", "vectorize"} => id'[r] \in IdsOf(Head(devices'[r]))
        /\ rpc'[r] = "vectorize" =>
             \A n \in trace'[r] : n \in RowsOf(id'[r]) /\ readingTable[n].type = rtype'[r]
  <2>1. IdHeld'
    BY <1>3, <1>4, <1>5 DEF IdHeld, OwnInv, IdsOf
  <2>2. TraceHeld'
    BY <1>3, <1>4, <1>5 DEF TraceHeld, OwnInv, RowsOf
  <2> QED
    BY <1>2, <1>5, <2>1, <2>2 DEF OwnInv
<1>6. Joined \in Seq(Reading)
  BY JoinedReadings DEF OwnInv
<1>7. CASE Done(r)
  <2>1. <<>> \in Seq(Device)
    OBVIOUS
  <2> QED
    BY <1>1, <1>6, <1>7, <2>1, NextDeviceOwn
<1>8. CASE StartReading(r)
  BY <1>8 DEF StartReading, ReaderGoto, ReaderTypes, OwnInv, AtDevice
<1>9. CASE GetDevices(r) /\ ~Done(r)
  <2>1. PICK rows \in SetToSeqs(DeviceRows(rtype[r])) :
               NextDevice(r, [k \in DOMAIN rows |-> deviceTable[rows[k]]])
    BY <1>9 DEF GetDevices
  <2>2. [k \in DOMAIN rows |-> deviceTable[rows[k]]] \in Seq(Device)
    BY DevicesReturned DEF OwnInv
  <2> QED
    BY <1>1, <1>6, <2>1, <2>2, NextDeviceOwn
<1>10. CASE GetDeviceId(r) /\ ~Done(r)
  <2>1. /\ rpc[r] = "get_device_id"
        /\ \E i \in {0} \cup IdsOf(Head(devices[r])) : id' = [id EXCEPT ![r] = i]
        /\ rpc' = [rpc EXCEPT ![r] = "max_date"]
        /\ UNCHANGED <<rtype, devices, maxDate, trace, atStart, reads>>
    BY <1>10 DEF GetDeviceId, ReaderGoto
  <2>2. \A d : IdsOf(d) \subseteq Nat
    BY DEF IdsOf, OwnInv, DbInv, TypeInv, TypeOK
  <2> QED
    BY <2>1, <2>2 DEF ReaderTypes, OwnInv, AtDevice
<1>11. CASE MaxDate(r) /\ ~Done(r)
  <2>1. \A k \in DOMAIN readingTable :
          readingTable[k].date \in Nat /\ readingTable[k].deviceId \in DOMAIN deviceTable
    <3>1. readingTable \in Seq(ReadingRow)
      BY DEF OwnInv, DbInv, TypeInv, TypeOK
    <3>2. \A k \in DOMAIN readingTable : readingTable[k] \in ReadingRow
      BY <3>1, ElementOfSeq
    <3> QED
      BY <3>2, TimeAssumption DEF OwnInv, DbInv, ReadingsResolve, ReadingRow
  <2>2. CASE rpc' = [rpc EXCEPT ![r] = "null_string"]
    BY <1>11, <2>2 DEF MaxDate, ReaderTypes, OwnInv, AtDevice, ReaderGoto
  <2>3. CASE ~(rpc' = [rpc EXCEPT ![r] = "null_string"])
    <3>1. PICK k \in RowsOf(id[r]) :
                 /\ maxDate' = [maxDate EXCEPT ![r] = readingTable[k].date]
                 /\ rpc' = [rpc EXCEPT ![r] = "select_readings"]
                 /\ rpc[r] = "max_date"
                 /\ UNCHANGED <<rtype, devices, id, trace, atStart, reads>>
      BY <1>11, <2>3 DEF MaxDate, ReaderGoto
    <3>2. k \in DOMAIN readingTable /\ readingTable[k].deviceId = id[r]
      BY DEF RowsOf
    <3>3. id[r] # 0
      BY <2>1, <3>2 DEF OwnInv, DbInv, TypeInv, TypeOK
    <3>4. id[r] \in IdsOf(Head(devices[r]))
      BY <3>1, <3>3 DEF OwnInv, IdHeld
    <3> QED
      BY <2>1, <3>1, <3>2, <3>4 DEF ReaderTypes, OwnInv, AtDevice
  <2> QED
    BY <2>2, <2>3
<1>12. CASE SelectReadings(r) /\ ~Done(r)
  <2>1. /\ rpc[r] = "select_readings"
        /\ trace' = [trace EXCEPT ![r] =
                       {k \in RowsOf(id[r]) : /\ readingTable[k].type = rtype[r]
                                              /\ readingTable[k].date + TimeSpan >= maxDate[r]}]
        /\ rpc' = [rpc EXCEPT ![r] = "vectorize"]
        /\ UNCHANGED <<rtype, devices, id, maxDate, atStart, reads>>
    BY <1>12 DEF SelectReadings, ReaderGoto
  <2>2. RowsOf(id[r]) \subseteq Nat
    BY DEF RowsOf, OwnInv, DbInv, TypeInv, TypeOK
  <2>3. trace'[r] = {k \in RowsOf(id[r]) : /\ readingTable[k].type = rtype[r]
                                           /\ readingTable[k].date + TimeSpan >= maxDate[r]}
    BY <2>1 DEF ReaderTypes, OwnInv
  <2>4. ReaderTypes'
    BY <2>1, <2>2 DEF ReaderTypes, OwnInv, AtDevice
  <2>5. id[r] \in IdsOf(Head(devices[r]))
    BY <2>1 DEF OwnInv, IdHeld
  <2> QED
    BY <2>1, <2>3, <2>4, <2>5 DEF ReaderTypes, OwnInv
<1>13. CASE FinishDevice(r)
  <2>1. devices[r] \in Seq(Device) /\ devices[r] # <<>>
    BY <1>13 DEF FinishDevice, ReaderTypes, OwnInv, AtDevice
  <2>2. Tail(devices[r]) \in Seq(Device)
    BY <2>1
  <2> QED
    BY <1>1, <1>6, <1>13, <2>2, NextDeviceOwn DEF FinishDevice
<1> QED
  BY <1>7, <1>8, <1>9, <1>10, <1>11, <1>12, <1>13 DEF ReadStep

\* Saving keeps it, as rows stay what they are.
LEMMA OwnSaveStep ==
  ASSUME OwnInv, [Next]_dbVars, UNCHANGED reader
  PROVE  OwnInv'
<1>1. DbInv'
  BY DbInvNext DEF OwnInv
<1>2. ReaderTypes'
  BY DEF OwnInv, ReaderTypes, reader
<1>3. \A d : IdsOf(d) \subseteq IdsOf(d)'
  BY FileGrows DEF OwnInv, IdsOf
<1>4. \A i : RowsOf(i) \subseteq RowsOf(i)'
  BY FileGrows DEF OwnInv, RowsOf
<1>5. IdHeld'
  BY <1>3 DEF OwnInv, IdHeld, reader, IdsOf
<1>6. TraceHeld'
  BY <1>4, FileGrows DEF OwnInv, TraceHeld, reader, RowsOf
<1> QED
  BY <1>1, <1>2, <1>5, <1>6 DEF OwnInv

LEMMA OwnInvInit == RetrieveInit => OwnInv
<1>1. RetrieveInit => DbInv
  BY DbInvInit DEF RetrieveInit
<1>2. RetrieveInit => ReaderTypes
  <2>1. <<>> \in Seq(Device) /\ <<>> \in Seq(Reading) /\ {} \subseteq Nat
    OBVIOUS
  <2> QED
    BY <2>1 DEF RetrieveInit, ReaderTypes, AtDevice, ReadingType
<1>3. RetrieveInit => IdHeld /\ TraceHeld
  BY DEF RetrieveInit, IdHeld, TraceHeld
<1> QED
  BY <1>1, <1>2, <1>3 DEF OwnInv

LEMMA OwnInvNext == OwnInv /\ [RetrieveNext]_retrieveVars => OwnInv'
<1> SUFFICES ASSUME OwnInv, [RetrieveNext]_retrieveVars PROVE OwnInv'
  OBVIOUS
<1>1. CASE UNCHANGED retrieveVars
  BY <1>1, OwnSaveStep DEF retrieveVars, dbVars, reader
<1>2. CASE RetrieveNext
  BY <1>2, OwnSaveStep, OwnReaderStep DEF RetrieveNext
<1> QED
  BY <1>1, <1>2

\* A trace shows no reading of another device or type, for any number of
\* loggers and readers, whatever the loggers insert while it is read.
THEOREM TracesAreOwn == RetrieveSpec => []TraceOfDevice
<1>1. OwnInv => TraceOfDevice
  <2> SUFFICES ASSUME OwnInv, NEW r \in Reader, rpc[r] = "vectorize", NEW n \in trace[r]
               PROVE  /\ deviceTable[readingTable[n].deviceId] = Head(devices[r])
                      /\ readingTable[n].type = rtype[r]
    BY DEF TraceOfDevice
  <2>1. n \in RowsOf(id[r]) /\ readingTable[n].type = rtype[r]
    BY DEF OwnInv, TraceHeld
  <2>2. id[r] \in IdsOf(Head(devices[r]))
    BY DEF OwnInv, IdHeld
  <2> QED
    BY <2>1, <2>2 DEF RowsOf, IdsOf
<1> QED
  BY OwnInvInit, OwnInvNext, <1>1, PTL DEF RetrieveSpec

-----------------------------------------------------------------------------
\* With one logger a device has one id at most, and more can be said.

\* A device that was returned by get_devices() has a reading.
DevicesKnown ==
  \A r \in Reader : \A m \in DOMAIN devices[r] :
    \E k \in DOMAIN readingTable :
      deviceTable[readingTable[k].deviceId] = devices[r][m]

\* So get_device_id() finds it, there is a maximum to take, and no string of a
\* null pointer.
IdKnown ==
  \A r \in Reader :
    /\ rpc[r] # "null_string"
    /\ rpc[r] = "max_date" => id[r] \in IdsOf(Head(devices[r]))

\* What was in the file when get_device_readings() started still is.
StartKept ==
  \A r \in Reader : \A k \in DOMAIN atStart[r] :
    k \in DOMAIN Joined /\ Joined[k] = atStart[r][k]

\* The maximum is the date of a row of the device, though later there may be
\* newer ones.
MaxHeld ==
  \A r \in Reader :
    rpc[r] \in {"select_readings", "vectorize"} =>
      \E n \in RowsOf(id[r]) : readingTable[n].date = maxDate[r]

\* Of what was in the file at the start, the trace has everything of the
\* device and the type from the time span before that maximum.
SpanHeld ==
  \A r \in Reader :
    rpc[r] = "vectorize" =>
      \A k \in DOMAIN atStart[r] :
        (/\ atStart[r][k].dev = Head(devices[r])
         /\ atStart[r][k].type = rtype[r]
         /\ maxDate[r] <= atStart[r][k].time + TimeSpan)
          => k \in trace[r]

CompleteInv == DevicesKnown /\ IdKnown /\ StartKept /\ MaxHeld /\ SpanHeld

\* Two ids of one device would be two rows, one more than there are loggers.
LEMMA OneId ==
  ASSUME NEW p, Process = {p}, TypeInv, DupInv, NEW d \in Device,
         NEW i \in IdsOf(d), NEW j \in IdsOf(d)
  PROVE  i = j
<1>1. Cardinality(Process) = 1
  BY FS_Singleton
<1>2. /\ IsFiniteSet(IdsOf(d)) /\ Cardinality(IdsOf(d)) \in Nat
      /\ Cardinality(Inserting(d)) \in Nat
  BY DupFinite
<1>3. Cardinality(IdsOf(d)) <= 1
  BY <1>1, <1>2 DEF DupInv
<1> SUFFICES ASSUME i # j PROVE FALSE
  OBVIOUS
<1>4. {i, j} \subseteq IdsOf(d)
  OBVIOUS
<1>5. Cardinality({i, j}) <= Cardinality(IdsOf(d))
  BY <1>2, <1>4, FS_Subset
<1>6. Cardinality({i, j}) = 2
  <2>1. IsFiniteSet({i}) /\ Cardinality({i}) = 1
    BY FS_Singleton
  <2>2. {i, j} = {i} \cup {j} /\ j \notin {i}
    OBVIOUS
  <2> QED
    BY <2>1, <2>2, FS_AddElement, SMTT(30)
<1> QED
  BY <1>2, <1>3, <1>5, <1>6

\* The rows of the device are those whose readings the join shows.
LEMMA RowsOfDevice ==
  ASSUME NEW p, Process = {p}, DbInv, DupInv, NEW d \in Device, NEW i \in IdsOf(d),
         NEW k \in DOMAIN readingTable
  PROVE  k \in RowsOf(i) <=> deviceTable[readingTable[k].deviceId] = d
<1>1. readingTable[k].deviceId \in DOMAIN deviceTable
  BY DEF DbInv, ReadingsResolve
<1>2. ASSUME deviceTable[readingTable[k].deviceId] = d
      PROVE  readingTable[k].deviceId = i
  BY <1>1, <1>2, OneId DEF IdsOf, DbInv
<1> QED
  BY <1>2 DEF RowsOf, IdsOf

\* Going on with devices that are known, or to the end.
LEMMA NextDeviceComplete ==
  ASSUME OwnInv, CompleteInv, NEW r \in Reader, NEW ds \in Seq(Device),
         NextDevice(r, ds) \/ Done(r),
         \A m \in DOMAIN ds : \E k \in DOMAIN readingTable :
           deviceTable[readingTable[k].deviceId] = ds[m]
  PROVE  /\ rpc'[r] \in {"idle", "get_device_id"}
         /\ \A m \in DOMAIN devices'[r] : \E k \in DOMAIN readingTable :
              deviceTable[readingTable[k].deviceId] = devices'[r][m]
         /\ \A k \in DOMAIN atStart'[r] : k \in DOMAIN Joined /\ Joined[k] = atStart'[r][k]
<1>1. CASE Done(r)
  BY <1>1 DEF Done, ReaderGoto, ReaderTypes, OwnInv
<1>2. CASE ds # <<>> /\ NextDevice(r, ds)
  BY <1>2 DEF NextDevice, ReaderGoto, ReaderTypes, OwnInv
<1> QED
  BY <1>1, <1>2 DEF NextDevice

LEMMA CompleteReaderStep ==
  ASSUME NEW p, Process = {p}, OwnInv, DupInv, CompleteInv,
         NEW r \in Reader, StartReading(r) \/ ReadStep(r)
  PROVE  CompleteInv'
<1>1. UNCHANGED dbVars
  BY DEF StartReading, ReadStep
<1>2. /\ UNCHANGED <<deviceTable, readingTable>>
      /\ \A d : IdsOf(d)' = IdsOf(d)
      /\ \A i : RowsOf(i)' = RowsOf(i)
      /\ Joined' = Joined
  BY <1>1 DEF dbVars, IdsOf, RowsOf, Joined
<1>3. \A q \in Reader : q # r =>
        /\ rpc'[q] = rpc[q]
        /\ rtype'[q] = rtype[q]
        /\ devices'[q] = devices[q]
        /\ id'[q] = id[q]
        /\ maxDate'[q] = maxDate[q]
        /\ trace'[q] = trace[q]
        /\ atStart'[q] = atStart[q]
  BY ReaderFrame DEF OwnInv
<1>4. SUFFICES
        /\ \A m \in DOMAIN devices'[r] : \E k \in DOMAIN readingTable :
             deviceTable[readingTable[k].deviceId] = devices'[r][m]
        /\ rpc'[r] # "null_string"
        /\ rpc'[r] = "max_date" => id'[r] \in IdsOf(Head(devices'[r]))
        /\ \A k \in DOMAIN atStart'[r] : k \in DOMAIN Joined /\ Joined[k] = atStart'[r][k]
        /\ rpc'[r] \in {"select_readings", "vectorize"} =>
             \E n \in RowsOf(id'[r]) : readingTable[n].date = maxDate'[r]
        /\ rpc'[r] = "vectorize" =>
             \A k \in DOMAIN atStart'[r] :
               (/\ atStart'[r][k].dev = Head(devices'[r])
                /\ atStart'[r][k].type = rtype'[r]
                /\ maxDate'[r] <= atStart'[r][k].time + TimeSpan)
                 => k \in trace'[r]
  <2>1. DevicesKnown'
    BY <1>2, <1>3, <1>4 DEF DevicesKnown, CompleteInv
  <2>2. IdKnown'
    BY <1>2, <1>3, <1>4 DEF IdKnown, CompleteInv
  <2>3. StartKept'
    BY <1>2, <1>3, <1>4 DEF StartKept, CompleteInv
  <2>4. MaxHeld'
    BY <1>2, <1>3, <1>4 DEF MaxHeld, CompleteInv
  <2>5. SpanHeld'
    BY <1>2, <1>3, <1>4 DEF SpanHeld, CompleteInv
  <2> QED
    BY <2>1, <2>2, <2>3, <2>4, <2>5 DEF CompleteInv
<1>5. \A m \in DOMAIN devices[r] : \E k \in DOMAIN readingTable :
        deviceTable[readingTable[k].deviceId] = devices[r][m]
  BY DEF CompleteInv, DevicesKnown
<1>6. \A k \in DOMAIN atStart[r] : k \in DOMAIN Joined /\ Joined[k] = atStart[r][k]
  BY DEF CompleteInv, StartKept
\* The device at hand has a reading; so its id is found, and has rows.
<1>7. ASSUME rpc[r] \in AtDevice
      PROVE  /\ Head(devices[r]) \in Device
             /\ \E k \in DOMAIN readingTable :
                  /\ deviceTable[readingTable[k].deviceId] = Head(devices[r])
                  /\ readingTable[k].deviceId \in IdsOf(Head(devices[r]))
  <2>1. devices[r] \in Seq(Device) /\ devices[r] # <<>>
    BY <1>7 DEF OwnInv, ReaderTypes
  <2>2. 1 \in DOMAIN devices[r] /\ Head(devices[r]) = devices[r][1] /\ devices[r][1] \in Device
    BY <2>1
  <2> QED
    BY <1>5, <2>2 DEF IdsOf, OwnInv, DbInv, ReadingsResolve
<1>8. CASE Done(r)
  <2>1. <<>> \in Seq(Device) /\ \A m \in DOMAIN <<>> : FALSE
    OBVIOUS
  <2> QED
    BY <1>8, <2>1, NextDeviceComplete
<1>9. CASE StartReading(r)
  <2>1. rpc'[r] = "get_devices" /\ UNCHANGED <<devices, atStart>>
    BY <1>9 DEF StartReading, ReaderGoto, ReaderTypes, OwnInv
  <2> QED
    BY <1>5, <1>6, <2>1
<1>10. CASE GetDevices(r) /\ ~Done(r)
  <2> DEFINE Of(rows) == [k \in DOMAIN rows |-> deviceTable[rows[k]]]
  <2>1. PICK rows \in SetToSeqs(DeviceRows(rtype[r])) : NextDevice(r, Of(rows))
    BY <1>10 DEF GetDevices
  <2> DEFINE ds == Of(rows)
  <2>2. /\ ds \in Seq(Device)
        /\ \A m \in DOMAIN ds : /\ rows[m] \in DeviceRows(rtype[r])
                                /\ ds[m] = deviceTable[rows[m]]
    BY DevicesReturned DEF OwnInv
  <2>3. \A m \in DOMAIN ds : \E k \in DOMAIN readingTable :
          deviceTable[readingTable[k].deviceId] = ds[m]
    BY <2>2 DEF DeviceRows, RowsOf
  <2>4. NextDevice(r, ds)
    BY <2>1
  <2> HIDE DEF ds
  <2> QED
    BY <2>2, <2>3, <2>4, NextDeviceComplete
<1>11. CASE GetDeviceId(r) /\ ~Done(r)
  <2>1. /\ rpc[r] = "get_device_id"
        /\ IdsOf(Head(devices[r])) # {} =>
             \E i \in IdsOf(Head(devices[r])) : id' = [id EXCEPT ![r] = i]
        /\ rpc' = [rpc EXCEPT ![r] = "max_date"]
        /\ UNCHANGED <<rtype, devices, maxDate, trace, atStart, reads>>
    BY <1>11 DEF GetDeviceId, ReaderGoto
  <2>2. IdsOf(Head(devices[r])) # {}
    BY <1>7, <2>1 DEF AtDevice
  <2>3. id'[r] \in IdsOf(Head(devices[r]))
    BY <2>1, <2>2 DEF OwnInv, ReaderTypes
  <2> QED
    BY <1>5, <1>6, <2>1, <2>3 DEF OwnInv, ReaderTypes
<1>12. CASE MaxDate(r) /\ ~Done(r)
  <2>1. rpc[r] = "max_date" /\ id[r] \in IdsOf(Head(devices[r]))
    BY <1>12 DEF MaxDate, CompleteInv, IdKnown
  <2>2. RowsOf(id[r]) # {}
    <3>1. PICK k \in DOMAIN readingTable :
                 deviceTable[readingTable[k].deviceId] = Head(devices[r])
      BY <1>7, <2>1 DEF AtDevice
    <3>2. Head(devices[r]) \in Device
      BY <1>7, <2>1 DEF AtDevice
    <3>3. k \in RowsOf(id[r]) <=> deviceTable[readingTable[k].deviceId] = Head(devices[r])
      BY <2>1, <3>2, RowsOfDevice DEF OwnInv
    <3> QED
      BY <3>1, <3>3
  <2>3. PICK k \in RowsOf(id[r]) :
               /\ maxDate' = [maxDate EXCEPT ![r] = readingTable[k].date]
               /\ rpc' = [rpc EXCEPT ![r] = "select_readings"]
               /\ UNCHANGED <<rtype, devices, id, trace, atStart, reads>>
    BY <1>12, <2>2 DEF MaxDate, ReaderGoto
  <2> QED
    BY <1>5, <1>6, <2>3 DEF OwnInv, ReaderTypes
<1>13. CASE SelectReadings(r) /\ ~Done(r)
  <2>1. /\ rpc[r] = "select_readings"
        /\ trace' = [trace EXCEPT ![r] =
                       {k \in RowsOf(id[r]) : /\ readingTable[k].type = rtype[r]
                                              /\ readingTable[k].date + TimeSpan >= maxDate[r]}]
        /\ rpc' = [rpc EXCEPT ![r] = "vectorize"]
        /\ UNCHANGED <<rtype, devices, id, maxDate, atStart, reads>>
    BY <1>13 DEF SelectReadings, ReaderGoto
  <2>2. trace'[r] = {k \in RowsOf(id[r]) : /\ readingTable[k].type = rtype[r]
                                           /\ readingTable[k].date + TimeSpan >= maxDate[r]}
    BY <2>1 DEF ReaderTypes, OwnInv
  <2>3. id[r] \in IdsOf(Head(devices[r])) /\ Head(devices[r]) \in Device
    BY <1>7, <2>1 DEF OwnInv, IdHeld, AtDevice
  <2>4. ASSUME NEW k \in DOMAIN atStart[r],
               atStart[r][k].dev = Head(devices[r]),
               atStart[r][k].type = rtype[r],
               maxDate[r] <= atStart[r][k].time + TimeSpan
        PROVE  k \in trace'[r]
    <3>1. /\ k \in DOMAIN readingTable
          /\ deviceTable[readingTable[k].deviceId] = Head(devices[r])
          /\ readingTable[k].type = rtype[r]
          /\ maxDate[r] <= readingTable[k].date + TimeSpan
      <4>1. k \in DOMAIN Joined /\ Joined[k] = atStart[r][k]
        BY <1>6
      <4>2. /\ k \in DOMAIN readingTable
            /\ Joined[k].dev = deviceTable[readingTable[k].deviceId]
            /\ Joined[k].type = readingTable[k].type
            /\ Joined[k].time = readingTable[k].date
        BY <4>1 DEF Joined
      <4> QED
        BY <2>4, <4>1, <4>2
    <3>2. k \in RowsOf(id[r])
      BY <2>3, <3>1, RowsOfDevice DEF OwnInv
    <3>3. readingTable[k].date \in Nat /\ maxDate[r] \in Nat
      <4>1. readingTable \in Seq(ReadingRow)
        BY DEF OwnInv, DbInv, TypeInv, TypeOK
      <4>2. readingTable[k] \in ReadingRow
        BY <3>1, <4>1, ElementOfSeq
      <4> QED
        BY <4>2, TimeAssumption DEF ReadingRow, OwnInv, ReaderTypes
    <3>4. readingTable[k].date + TimeSpan >= maxDate[r]
      BY <3>1, <3>3, TimeSpanAssumption
    <3> QED
      BY <2>2, <3>1, <3>2, <3>4
  <2>5. \E n \in RowsOf(id[r]) : readingTable[n].date = maxDate[r]
    BY <2>1 DEF CompleteInv, MaxHeld
  <2>6. rpc'[r] = "vectorize"
    BY <2>1 DEF OwnInv, ReaderTypes
  <2> QED
    BY <1>5, <1>6, <2>1, <2>4, <2>5, <2>6
<1>14. CASE FinishDevice(r)
  <2>1. devices[r] \in Seq(Device) /\ devices[r] # <<>>
    BY <1>14 DEF FinishDevice, ReaderTypes, OwnInv, AtDevice
  <2> DEFINE ds == Tail(devices[r])
  <2>2. ds \in Seq(Device)
    BY <2>1
  <2>3. \A m \in DOMAIN ds : m + 1 \in DOMAIN devices[r] /\ ds[m] = devices[r][m + 1]
    BY <2>1
  <2>4. NextDevice(r, ds)
    BY <1>14 DEF FinishDevice
  <2> HIDE DEF ds
  <2>5. \A m \in DOMAIN ds : \E k \in DOMAIN readingTable :
          deviceTable[readingTable[k].deviceId] = ds[m]
    BY <1>5, <2>3
  <2> QED
    BY <2>2, <2>4, <2>5, NextDeviceComplete
<1> QED
  BY <1>8, <1>9, <1>10, <1>11, <1>12, <1>13, <1>14 DEF ReadStep

LEMMA CompleteSaveStep ==
  ASSUME OwnInv, CompleteInv, [Next]_dbVars, UNCHANGED reader
  PROVE  CompleteInv'
<1>1. \A i : IdsOf(i) \subseteq IdsOf(i)' /\ RowsOf(i) \subseteq RowsOf(i)'
  BY FileGrows DEF OwnInv, IdsOf, RowsOf
<1>2. \A k \in DOMAIN readingTable :
        /\ k \in DOMAIN readingTable'
        /\ readingTable'[k] = readingTable[k]
        /\ readingTable[k].deviceId \in DOMAIN deviceTable
        /\ deviceTable'[readingTable[k].deviceId] = deviceTable[readingTable[k].deviceId]
  BY FileGrows DEF OwnInv, DbInv, ReadingsResolve
<1>3. \A k \in DOMAIN Joined : k \in DOMAIN Joined' /\ Joined'[k] = Joined[k]
  BY <1>2 DEF Joined
<1>4. DevicesKnown'
  BY <1>2 DEF DevicesKnown, CompleteInv, reader
<1>5. IdKnown'
  BY <1>1 DEF IdKnown, CompleteInv, reader
<1>6. StartKept'
  BY <1>3 DEF StartKept, CompleteInv, reader
<1>7. MaxHeld'
  BY <1>1, <1>2 DEF MaxHeld, CompleteInv, reader, RowsOf
<1>8. SpanHeld'
  BY DEF SpanHeld, CompleteInv, reader
<1> QED
  BY <1>4, <1>5, <1>6, <1>7, <1>8 DEF CompleteInv

LEMMA CompleteInit == RetrieveInit => CompleteInv
<1> SUFFICES ASSUME RetrieveInit PROVE CompleteInv
  OBVIOUS
<1>1. \A r \in Reader : rpc[r] = "idle" /\ DOMAIN devices[r] = {} /\ DOMAIN atStart[r] = {}
  BY DEF RetrieveInit
<1> QED
  BY <1>1 DEF CompleteInv, DevicesKnown, IdKnown, StartKept, MaxHeld, SpanHeld

LEMMA OneLoggerNext ==
  ASSUME NEW p, Process = {p}
  PROVE  OwnInv /\ DupInv /\ CompleteInv /\ [RetrieveNext]_retrieveVars
           => DupInv' /\ CompleteInv'
<1> SUFFICES ASSUME OwnInv, DupInv, CompleteInv, [RetrieveNext]_retrieveVars
             PROVE  DupInv' /\ CompleteInv'
  OBVIOUS
<1>1. DbInv'
  BY OwnInvNext DEF OwnInv
<1>2. CASE [Next]_dbVars /\ UNCHANGED reader
  <2>1. CompleteInv'
    BY <1>2, CompleteSaveStep
  <2>2. CASE UNCHANGED dbVars
    BY <2>1, <2>2 DEF DupInv, IdsOf, Inserting, At, Current, dbVars
  <2>3. CASE Next
    <3>1. PICK q \in Process : ProcessStep(q)
      BY <2>3 DEF Next, ProcessStep
    <3> QED
      BY <1>1, <2>1, <3>1, DupStep DEF OwnInv
  <2> QED
    BY <1>2, <2>2, <2>3
<1>3. CASE \E r \in Reader : StartReading(r) \/ ReadStep(r)
  <2>1. UNCHANGED dbVars
    BY <1>3 DEF StartReading, ReadStep
  <2>2. DupInv'
    BY <2>1 DEF DupInv, IdsOf, Inserting, At, Current, dbVars
  <2> QED
    BY <1>3, <2>2, CompleteReaderStep
<1> QED
  BY <1>2, <1>3 DEF RetrieveNext, retrieveVars, dbVars, reader

LEMMA OneLoggerInit == RetrieveInit => OwnInv /\ DupInv /\ CompleteInv
  BY OwnInvInit, DupInit, CompleteInit DEF RetrieveInit

\* With one logger, reading never meets the maximum of no rows, and so never
\* the string of a null pointer; with two it may, as a run shows.
THEOREM NullNeverMet ==
  ASSUME NEW p, Process = {p}
  PROVE  RetrieveSpec => []NoDataIsHandled
<1>1. CompleteInv => NoDataIsHandled
  BY DEF CompleteInv, IdKnown, NoDataIsHandled
<1> QED
  BY OneLoggerInit, OwnInvNext, OneLoggerNext, <1>1, PTL DEF RetrieveSpec

\* With one logger, a trace has every reading of the device and type that was
\* in the file when the reading of the device began and that is in the time
\* span before the newest one, though the logger goes on saving meanwhile.
THEOREM TracesAreComplete ==
  ASSUME NEW p, Process = {p}
  PROVE  RetrieveSpec => []TraceComplete
<1>1. OwnInv /\ CompleteInv => TraceComplete
  <2> SUFFICES ASSUME OwnInv, CompleteInv, NEW r \in Reader, rpc[r] = "vectorize",
                      NEW k \in DOMAIN atStart[r],
                      atStart[r][k].dev = Head(devices[r]),
                      atStart[r][k].type = rtype[r],
                      Covers(atStart[r][k].dev, atStart[r][k].time)
               PROVE  \E n \in trace[r] : readingTable[n].date = atStart[r][k].time
    BY DEF TraceComplete
  <2>1. k \in DOMAIN Joined /\ Joined[k] = atStart[r][k]
    BY DEF CompleteInv, StartKept
  <2>2. PICK n \in RowsOf(id[r]) : readingTable[n].date = maxDate[r]
    BY DEF CompleteInv, MaxHeld
  <2>3. n \in DOMAIN Joined /\ Joined[n].dev = Head(devices[r]) /\ Joined[n].time = maxDate[r]
    BY <2>2 DEF Joined, RowsOf, IdsOf, OwnInv, IdHeld
  <2>4. maxDate[r] <= atStart[r][k].time + TimeSpan
    BY <2>3 DEF Covers
  <2>5. k \in trace[r]
    BY <2>4 DEF CompleteInv, SpanHeld
  <2>6. readingTable[k].date = atStart[r][k].time
    BY <2>1 DEF Joined
  <2> QED
    BY <2>5, <2>6
<1> QED
  BY OneLoggerInit, OwnInvNext, OneLoggerNext, <1>1, PTL DEF RetrieveSpec
=============================================================================
