--------------------------- MODULE DbStoreProofs ---------------------------
(***************************************************************************)
(* Proofs about DbStore, for any number of processes, devices, readings    *)
(* and batches.                                                            *)
(***************************************************************************)
EXTENDS DbStore, SubsequenceProofs, SequenceTheorems, FiniteSetTheorems, TLAPS

Looping == {"find_device", "insert_device", "insert_reading"}
Preparing == {"table_exists", "create_device_table", "create_reading_table"}

\* Where the loop over data is: at its first reading before it starts, at one
\* of the readings while it runs, and one past the last when it is left.
PosOK ==
  \A p \in Process :
    /\ pc[p] \in Preparing => pos[p] = 1
    /\ pc[p] \in Looping => pos[p] <= Len(batch[p])
    /\ pc[p] = "return" => pos[p] = Len(batch[p]) + 1

\* Type correctness is not inductive by itself: that InsertDevice inserts a
\* device and InsertReading a reading depends on the position in the batch.
TypeInv == TypeOK /\ PosOK

LEMMA TypeInit == Init => TypeInv
  BY DEF Init, TypeInv, TypeOK, PosOK, Preparing, Looping

\* While the loop runs, there is a reading that it is at.
LEMMA CurrentReading ==
  ASSUME TypeInv, NEW p \in Process, pc[p] \in Looping
  PROVE  /\ pos[p] \in DOMAIN batch[p]
         /\ Current(p) \in Reading
  BY DEF TypeInv, TypeOK, PosOK, Current

\* Leaving save() in any way keeps types and positions.
LEMMA TypeLeave ==
  ASSUME TypeInv, NEW p \in Process, NEW r \in {"none", "ok", "error"}, Leave(p, r)
  PROVE  TypeInv'
<1>1. batch' \in [Process -> Seq(Reading)]
  BY DEF TypeInv, TypeOK, Leave
<1>2. TypeOK'
  BY <1>1 DEF TypeInv, TypeOK, Leave, Goto, file
<1>3. PosOK'
  <2>1. \A q \in Process : q # p => pc'[q] = pc[q] /\ pos'[q] = pos[q] /\ batch'[q] = batch[q]
    BY DEF TypeInv, TypeOK, Leave, Goto
  <2>2. pc'[p] = "idle"
    BY DEF TypeInv, TypeOK, Leave, Goto
  <2> QED
    BY <2>1, <2>2 DEF TypeInv, PosOK, Preparing, Looping
<1> QED
  BY <1>2, <1>3 DEF TypeInv

\* So does the head of the loop, when it is reached from the reading before.
LEMMA TypeLoop ==
  ASSUME TypeInv, NEW p \in Process, NEW k \in Nat \ {0},
         k <= Len(batch[p]) + 1, LoopFrom(p, k), batch' = batch
  PROVE  /\ pos' \in [Process -> Nat \ {0}]
         /\ pc' \in [Process -> {"idle", "table_exists", "create_device_table",
                                 "create_reading_table", "find_device",
                                 "insert_device", "insert_reading", "return"}]
         /\ PosOK'
<1>1. Len(batch[p]) \in Nat
  BY DEF TypeInv, TypeOK
<1>2. pos' \in [Process -> Nat \ {0}] /\ pos' = [pos EXCEPT ![p] = k]
  BY DEF TypeInv, TypeOK, LoopFrom
<1>3. /\ pc' \in [Process -> {"idle", "table_exists", "create_device_table",
                              "create_reading_table", "find_device",
                              "insert_device", "insert_reading", "return"}]
      /\ pc' = [pc EXCEPT ![p] = IF k <= Len(batch[p]) THEN "find_device" ELSE "return"]
  BY DEF TypeInv, TypeOK, LoopFrom, Goto
<1>4. PosOK'
  <2>1. ASSUME NEW q \in Process, q # p
        PROVE  pc'[q] = pc[q] /\ pos'[q] = pos[q]
    BY <2>1, <1>2, <1>3 DEF TypeInv, TypeOK
  <2>2. pos'[p] = k
    BY <1>2 DEF TypeInv, TypeOK
  <2>3. pc'[p] = IF k <= Len(batch[p]) THEN "find_device" ELSE "return"
    BY <1>3 DEF TypeInv, TypeOK
  <2> QED
    BY <2>1, <2>2, <2>3, <1>1 DEF TypeInv, PosOK, Preparing, Looping
<1> QED
  BY <1>2, <1>3, <1>4

\* A step to another statement of the same reading keeps the positions.
LEMMA PosGoto ==
  ASSUME TypeInv, NEW p \in Process, NEW here \in {"find_device", "insert_device", "insert_reading"},
         pc[p] \in Looping, Goto(p, here), UNCHANGED <<pos, batch>>
  PROVE  PosOK'
  BY DEF TypeInv, TypeOK, PosOK, Goto, Looping, Preparing

\* Every step of the specification keeps types and positions.
LEMMA TypeNext == TypeInv /\ [Next]_dbVars => TypeInv'
<1> SUFFICES ASSUME TypeInv, [Next]_dbVars PROVE TypeInv'
  OBVIOUS
<1> USE DEF TypeInv
<1>1. CASE UNCHANGED dbVars
  BY <1>1 DEF TypeOK, PosOK, dbVars
<1>2. ASSUME NEW p \in Process, NEW b \in Batches, Save(p, b) PROVE TypeInv'
  <2>1. b \in Seq(Reading)
    BY BatchesAssumption
  <2>2. batch' \in [Process -> Seq(Reading)]
    BY <1>2, <2>1 DEF TypeOK, Save
  <2>3. TypeOK'
    BY <1>2, <2>2 DEF TypeOK, Save, Goto, file
  <2>4. PosOK'
    BY <1>2, <2>2 DEF TypeOK, PosOK, Save, Goto, Preparing, Looping
  <2> QED
    BY <2>3, <2>4
<1>3. ASSUME NEW p \in Process, TableExists(p) PROVE TypeInv'
  <2>1. CASE Fails(p)
    BY <2>1, TypeLeave DEF Fails
  <2>2. CASE LoopFrom(p, 1) /\ UNCHANGED <<file, batch, devId, result>>
    <3>1. 1 <= Len(batch[p]) + 1
      BY DEF TypeOK
    <3> QED
      BY <2>2, <3>1, TypeLoop DEF TypeOK, file
  <2>3. CASE /\ Goto(p, "create_device_table")
             /\ UNCHANGED <<file, batch, pos, devId, result>>
    <3>1. PosOK'
      BY <1>3, <2>3 DEF TypeOK, PosOK, TableExists, At, Goto, Preparing, Looping
    <3> QED
      BY <2>3, <3>1 DEF TypeOK, Goto, file
  <2> QED
    BY <1>3, <2>1, <2>2, <2>3 DEF TableExists
<1>4. ASSUME NEW p \in Process, CreateDeviceTable(p) PROVE TypeInv'
  <2>1. CASE Fails(p)
    BY <2>1, TypeLeave DEF Fails
  <2>2. CASE ~Fails(p)
    <3>1. PosOK'
      BY <1>4, <2>2 DEF TypeOK, PosOK, CreateDeviceTable, At, Goto, Preparing, Looping
    <3> QED
      BY <1>4, <2>2, <3>1 DEF TypeOK, CreateDeviceTable, Goto
  <2> QED
    BY <2>1, <2>2
<1>5. ASSUME NEW p \in Process, CreateReadingTable(p) PROVE TypeInv'
  <2>1. CASE Fails(p)
    BY <2>1, TypeLeave DEF Fails
  <2>2. CASE ~Fails(p)
    <3>1. 1 <= Len(batch[p]) + 1
      BY DEF TypeOK
    <3>2. /\ LoopFrom(p, 1)
          /\ tables' = tables \union {"reading"}
          /\ UNCHANGED <<deviceTable, readingTable, batch, devId, result>>
      BY <1>5, <2>2 DEF CreateReadingTable
    <3>3. 1 \in Nat \ {0} /\ UNCHANGED batch
      BY <3>2
    <3>4. /\ pos' \in [Process -> Nat \ {0}]
          /\ pc' \in [Process -> {"idle", "table_exists", "create_device_table",
                                  "create_reading_table", "find_device",
                                  "insert_device", "insert_reading", "return"}]
          /\ PosOK'
      BY <3>1, <3>2, <3>3, TypeLoop
    <3> QED
      BY <3>2, <3>4 DEF TypeOK
  <2> QED
    BY <2>1, <2>2
<1>6. ASSUME NEW p \in Process, FindDevice(p) PROVE TypeInv'
  <2>1. CASE Fails(p)
    BY <2>1, TypeLeave DEF Fails
  <2>2. CASE ~Fails(p)
    <3>1. IdsOf(Current(p).dev) \subseteq Nat
      BY DEF IdsOf, TypeOK
    <3>2. PosOK'
      BY <1>6, <2>2, PosGoto DEF FindDevice, At, Looping
    <3>3. devId' \in [Process -> Nat]
      BY <1>6, <2>2, <3>1 DEF TypeOK, FindDevice
    <3>4. pc' = [pc EXCEPT ![p] = "insert_reading"] \/ pc' = [pc EXCEPT ![p] = "insert_device"]
      BY <1>6, <2>2 DEF FindDevice, Goto
    <3>5. UNCHANGED <<file, batch, pos, result>>
      BY <1>6, <2>2 DEF FindDevice
    <3> QED
      BY <3>2, <3>3, <3>4, <3>5 DEF TypeOK, file
  <2> QED
    BY <2>1, <2>2
<1>7. ASSUME NEW p \in Process, InsertDevice(p) PROVE TypeInv'
  <2>1. CASE Fails(p)
    BY <2>1, TypeLeave DEF Fails
  <2>2. CASE ~Fails(p)
    <3>1. Current(p).dev \in Device
      BY <1>7, CurrentReading DEF InsertDevice, At, Looping, Reading
    <3>2. PosOK'
      BY <1>7, <2>2, PosGoto DEF InsertDevice, At, Looping
    <3>3. deviceTable' \in Seq(Device) /\ devId' \in [Process -> Nat]
      <4>1. /\ deviceTable' = Append(deviceTable, Current(p).dev)
            /\ devId' = [devId EXCEPT ![p] = Len(deviceTable) + 1]
        BY <1>7, <2>2 DEF InsertDevice
      <4>2. Len(deviceTable) + 1 \in Nat
        BY DEF TypeOK
      <4>3. deviceTable' \in Seq(Device)
        BY <3>1, <4>1 DEF TypeOK
      <4> QED
        BY <4>1, <4>2, <4>3 DEF TypeOK
    <3>4. /\ pc' = [pc EXCEPT ![p] = "insert_reading"]
          /\ UNCHANGED <<tables, readingTable, batch, pos, result>>
      BY <1>7, <2>2 DEF InsertDevice, Goto
    <3>5. TypeOK'
      BY <3>3, <3>4 DEF TypeOK
    <3> QED
      BY <3>2, <3>5
  <2> QED
    BY <2>1, <2>2
<1>8. ASSUME NEW p \in Process, InsertReading(p) PROVE TypeInv'
  <2>1. CASE Fails(p)
    BY <2>1, TypeLeave DEF Fails
  <2>2. CASE ~Fails(p)
    <3>1. Current(p) \in Reading /\ pos[p] <= Len(batch[p])
      BY <1>8, CurrentReading DEF InsertReading, At, Looping, PosOK
    <3>2. readingTable' \in Seq(ReadingRow) /\ devId' \in [Process -> Nat]
      <4>1. /\ readingTable' = Append(readingTable, [deviceId |-> devId[p],
                                                    type |-> Current(p).type,
                                                    date |-> Current(p).time])
            /\ devId' = [devId EXCEPT ![p] = 0]
        BY <1>8, <2>2 DEF InsertReading
      <4>2. [deviceId |-> devId[p], type |-> Current(p).type, date |-> Current(p).time]
              \in ReadingRow
        BY <3>1 DEF TypeOK, Reading, ReadingRow
      <4>3. readingTable' \in Seq(ReadingRow)
        BY <4>1, <4>2 DEF TypeOK
      <4> QED
        BY <4>1, <4>3 DEF TypeOK
    <3>3. /\ LoopFrom(p, pos[p] + 1)
          /\ UNCHANGED <<tables, deviceTable, batch, result>>
      BY <1>8, <2>2 DEF InsertReading
    <3>4. pos[p] + 1 \in Nat \ {0} /\ pos[p] + 1 <= Len(batch[p]) + 1
      BY <3>1 DEF TypeOK
    <3>5. /\ pos' \in [Process -> Nat \ {0}]
          /\ pc' \in [Process -> {"idle", "table_exists", "create_device_table",
                                  "create_reading_table", "find_device",
                                  "insert_device", "insert_reading", "return"}]
          /\ PosOK'
      BY <3>3, <3>4, TypeLoop
    <3> QED
      BY <3>2, <3>3, <3>5 DEF TypeOK
  <2> QED
    BY <2>1, <2>2
<1>9. ASSUME NEW p \in Process, Finish(p) PROVE TypeInv'
  BY <1>9, TypeLeave DEF Finish
<1>10. ASSUME NEW p \in Process, Crash(p) PROVE TypeInv'
  BY <1>10, TypeLeave DEF Crash
<1> QED
  BY <1>1, <1>2, <1>3, <1>4, <1>5, <1>6, <1>7, <1>8, <1>9, <1>10
     DEF Next, SaveStep

\* Type correctness: in every reachable state the file and the variables of
\* every process have their types.
THEOREM TypeCorrect == Spec => []TypeOK
<1>1. TypeInv => TypeOK
  BY DEF TypeInv
<1> QED
  BY TypeInit, TypeNext, <1>1, PTL DEF Spec

-----------------------------------------------------------------------------
\* A process at the INSERT of a reading holds the id of a row of its device.
DevIdOK ==
  \A p \in Process :
    pc[p] = "insert_reading" =>
      /\ devId[p] \in DOMAIN deviceTable
      /\ deviceTable[devId[p]] = Current(p).dev

\* The inductive invariant: that rows of table reading resolve follows from
\* what the process knows before it inserts one.
DbInv == TypeInv /\ DevIdOK /\ ReadingsResolve

ProcessStep(p) == (\E b \in Batches : Save(p, b)) \/ SaveStep(p) \/ Crash(p)

\* A step of a process touches no local variable of another one.
LEMMA Frame ==
  ASSUME TypeInv, NEW p \in Process, NEW q \in Process, q # p, ProcessStep(p)
  PROVE  /\ pc'[q] = pc[q]
         /\ batch'[q] = batch[q]
         /\ pos'[q] = pos[q]
         /\ devId'[q] = devId[q]
         /\ result'[q] = result[q]
<1> USE DEF TypeInv, TypeOK
<1>1. ASSUME NEW r \in {"none", "ok", "error"}, Leave(p, r)
      PROVE  /\ pc'[q] = pc[q]
             /\ batch'[q] = batch[q]
             /\ pos'[q] = pos[q]
             /\ devId'[q] = devId[q]
             /\ result'[q] = result[q]
  BY <1>1 DEF Leave, Goto
<1>2. CASE \E b \in Batches : Save(p, b)
  BY <1>2 DEF Save, Goto
<1>3. CASE TableExists(p)
  BY <1>1, <1>3 DEF TableExists, Fails, LoopFrom, Goto
<1>4. CASE CreateDeviceTable(p)
  BY <1>1, <1>4 DEF CreateDeviceTable, Fails, Goto
<1>5. CASE CreateReadingTable(p)
  BY <1>1, <1>5 DEF CreateReadingTable, Fails, LoopFrom, Goto
<1>6. CASE FindDevice(p)
  BY <1>1, <1>6 DEF FindDevice, Fails, Goto
<1>7. CASE InsertDevice(p)
  BY <1>1, <1>7 DEF InsertDevice, Fails, Goto
<1>8. CASE InsertReading(p)
  BY <1>1, <1>8 DEF InsertReading, Fails, LoopFrom, Goto
<1>9. CASE Finish(p) \/ Crash(p)
  BY <1>1, <1>9 DEF Finish, Crash
<1> QED
  BY <1>2, <1>3, <1>4, <1>5, <1>6, <1>7, <1>8, <1>9 DEF ProcessStep, SaveStep

\* What a step of a process may do to the file: nothing, or create a table, or
\* append one row to one of the tables, for the reading the process is at.
LEMMA FileStep ==
  ASSUME TypeInv, NEW p \in Process, ProcessStep(p)
  PROVE  \/ UNCHANGED <<deviceTable, readingTable>>
         \/ /\ InsertDevice(p)
            /\ deviceTable' = Append(deviceTable, Current(p).dev)
            /\ devId' = [devId EXCEPT ![p] = Len(deviceTable) + 1]
            /\ Goto(p, "insert_reading")
            /\ UNCHANGED <<readingTable, batch, pos>>
         \/ /\ InsertReading(p)
            /\ readingTable' = Append(readingTable, [deviceId |-> devId[p],
                                                     type |-> Current(p).type,
                                                     date |-> Current(p).time])
            /\ LoopFrom(p, pos[p] + 1)
            /\ UNCHANGED <<deviceTable, batch, result>>
<1>1. ASSUME NEW r, Leave(p, r) PROVE UNCHANGED <<deviceTable, readingTable>>
  BY <1>1 DEF Leave, file
<1>2. CASE \E b \in Batches : Save(p, b)
  BY <1>2 DEF Save, file
<1>3. CASE TableExists(p)
  BY <1>1, <1>3 DEF TableExists, Fails, file
<1>4. CASE CreateDeviceTable(p) \/ CreateReadingTable(p)
  BY <1>1, <1>4 DEF CreateDeviceTable, CreateReadingTable, Fails
<1>5. CASE FindDevice(p)
  BY <1>1, <1>5 DEF FindDevice, Fails, file
<1>6. CASE InsertDevice(p)
  BY <1>1, <1>6 DEF InsertDevice, Fails
<1>7. CASE InsertReading(p)
  BY <1>1, <1>7 DEF InsertReading, Fails
<1>8. CASE Finish(p) \/ Crash(p)
  BY <1>1, <1>8 DEF Finish, Crash
<1> QED
  BY <1>2, <1>3, <1>4, <1>5, <1>6, <1>7, <1>8 DEF ProcessStep, SaveStep

\* The rows of table device stay where they are.
LEMMA DevicesKept ==
  ASSUME TypeInv, NEW p \in Process, ProcessStep(p), NEW i \in DOMAIN deviceTable
  PROVE  i \in DOMAIN deviceTable' /\ deviceTable'[i] = deviceTable[i]
<1>1. CASE UNCHANGED deviceTable
  BY <1>1
<1>2. CASE deviceTable' = Append(deviceTable, Current(p).dev) /\ Current(p).dev \in Device
  BY <1>2 DEF TypeInv, TypeOK
<1>3. InsertDevice(p) => Current(p).dev \in Device
  BY CurrentReading DEF InsertDevice, At, Looping, Reading
<1> QED
  BY <1>1, <1>2, <1>3, FileStep

\* The step of one process preserves the inductive invariant.
LEMMA DbInvStep ==
  ASSUME DbInv, TypeInv', NEW p \in Process, ProcessStep(p)
  PROVE  DbInv'
<1> USE DEF DbInv
<1>1. ASSUME NEW q \in Process, q # p, pc'[q] = "insert_reading"
      PROVE  /\ devId'[q] \in DOMAIN deviceTable'
             /\ deviceTable'[devId'[q]] = Current(q)'.dev
  <2>1. /\ pc[q] = "insert_reading"
        /\ devId'[q] = devId[q]
        /\ Current(q)' = Current(q)
    BY <1>1, Frame DEF Current
  <2>2. devId[q] \in DOMAIN deviceTable /\ deviceTable[devId[q]] = Current(q).dev
    BY <2>1 DEF DevIdOK
  <2> QED
    BY <2>1, <2>2, DevicesKept
<1>2. ASSUME pc'[p] = "insert_reading"
      PROVE  /\ devId'[p] \in DOMAIN deviceTable'
             /\ deviceTable'[devId'[p]] = Current(p)'.dev
  <2>1. CASE FindDevice(p)
    <3>1. PICK i \in IdsOf(Current(p).dev) :
            /\ devId' = [devId EXCEPT ![p] = i]
            /\ UNCHANGED <<file, batch, pos, result>>
      BY <1>2, <2>1 DEF FindDevice, Fails, Leave, Goto, TypeInv, TypeOK
    <3>2. devId'[p] = i
      BY <3>1 DEF TypeInv, TypeOK
    <3> QED
      BY <3>1, <3>2 DEF IdsOf, Current, file
  <2>2. CASE InsertDevice(p)
    <3>1. /\ deviceTable' = Append(deviceTable, Current(p).dev)
          /\ devId' = [devId EXCEPT ![p] = Len(deviceTable) + 1]
          /\ UNCHANGED <<batch, pos>>
      BY <1>2, <2>2 DEF InsertDevice, Fails, Leave, Goto, TypeInv, TypeOK
    <3>2. Current(p).dev \in Device
      BY <2>2, CurrentReading DEF InsertDevice, At, Looping, Reading
    <3>3. devId'[p] = Len(deviceTable) + 1
      BY <3>1 DEF TypeInv, TypeOK
    <3>4. Current(p)' = Current(p)
      BY <3>1 DEF Current
    <3> QED
      BY <3>1, <3>2, <3>3, <3>4 DEF TypeInv, TypeOK
  <2>3. CASE ~FindDevice(p) /\ ~InsertDevice(p)
    BY <1>2, <2>3 DEF ProcessStep, SaveStep, Save, TableExists, CreateDeviceTable,
          CreateReadingTable, InsertReading, Finish, Crash, Fails, Leave, LoopFrom,
          Goto, TypeInv, TypeOK
  <2> QED
    BY <2>1, <2>2, <2>3
<1>3. DevIdOK'
  BY <1>1, <1>2 DEF DevIdOK
<1>4. ReadingsResolve'
  <2>1. CASE UNCHANGED readingTable
    BY <2>1, DevicesKept DEF ReadingsResolve
  <2>2. CASE InsertReading(p) /\ readingTable' # readingTable
    <3>1. /\ readingTable' = Append(readingTable, [deviceId |-> devId[p],
                                                   type |-> Current(p).type,
                                                   date |-> Current(p).time])
          /\ UNCHANGED deviceTable
      BY <2>2, FileStep
    <3>2. devId[p] \in DOMAIN deviceTable
      BY <2>2 DEF InsertReading, At, DevIdOK
    <3>3. readingTable \in Seq(ReadingRow) /\ readingTable' \in Seq(ReadingRow)
      BY DEF TypeInv, TypeOK
    <3>4. ASSUME NEW i \in DOMAIN readingTable'
          PROVE  readingTable'[i].deviceId \in DOMAIN deviceTable'
      <4>1. CASE i \in DOMAIN readingTable
        BY <3>1, <3>3, <4>1 DEF ReadingsResolve
      <4>2. CASE i = Len(readingTable) + 1
        BY <3>1, <3>2, <3>3, <4>2
      <4> QED
        BY <3>1, <3>3, <4>1, <4>2
    <3> QED
      BY <3>4 DEF ReadingsResolve
  <2> QED
    BY <2>1, <2>2, FileStep
<1> QED
  BY <1>3, <1>4

LEMMA DbInvInit == Init => DbInv
  BY TypeInit DEF Init, DbInv, DevIdOK, ReadingsResolve

LEMMA DbInvNext == DbInv /\ [Next]_dbVars => DbInv'
<1> SUFFICES ASSUME DbInv, [Next]_dbVars PROVE DbInv'
  OBVIOUS
<1>1. TypeInv'
  BY TypeNext DEF DbInv
<1>2. CASE UNCHANGED dbVars
  BY <1>1, <1>2 DEF DbInv, DevIdOK, ReadingsResolve, Current, dbVars
<1>3. CASE Next
  <2>1. PICK p \in Process : ProcessStep(p)
    BY <1>3 DEF Next, ProcessStep
  <2> QED
    BY <1>1, <2>1, DbInvStep
<1> QED
  BY <1>2, <1>3

\* No row of table reading ever points to a device that does not exist.
THEOREM ReferencesHold == Spec => []ReadingsResolve
<1>1. DbInv => ReadingsResolve
  BY DEF DbInv
<1> QED
  BY DbInvInit, DbInvNext, <1>1, PTL DEF Spec

-----------------------------------------------------------------------------
\* Refinement: the joined tables behave as the log of ReadingLog.

\* The mapping of what a process has yet to store, and of how its call stands.
Todo == [p \in Process |-> Unsaved(p)]
Status == [p \in Process |-> CallStatus(p)]

LEMMA PromiseInit == Init => Promise!Init
<1> SUFFICES ASSUME Init PROVE Promise!Init
  OBVIOUS
<1>1. Joined = <<>>
  BY DEF Init, Joined
<1>2. Todo = [p \in Process |-> <<>>]
  BY DEF Init, Todo, Unsaved, At
<1>3. Status = [p \in Process |-> "idle"]
  BY DEF Init, Status, CallStatus, At
<1> QED
  BY <1>1, <1>2, <1>3 DEF Promise!Init, Todo, Status

\* As long as no reading is inserted, the join shows the same.
LEMMA JoinedSame ==
  ASSUME DbInv, NEW p \in Process, ProcessStep(p), UNCHANGED readingTable
  PROVE  Joined' = Joined
<1>1. \A i \in DOMAIN readingTable :
        deviceTable'[readingTable[i].deviceId] = deviceTable[readingTable[i].deviceId]
  BY DevicesKept DEF DbInv, ReadingsResolve
<1> QED
  BY <1>1 DEF Joined

\* A step of p leaves the mapped variables of all other processes alone.
LEMMA OthersMapped ==
  ASSUME DbInv, NEW p \in Process, ProcessStep(p)
  PROVE  /\ Todo' = [Todo EXCEPT ![p] = Unsaved(p)']
         /\ Status' = [Status EXCEPT ![p] = CallStatus(p)']
<1>1. ASSUME NEW q \in Process, q # p
      PROVE  Unsaved(q)' = Unsaved(q) /\ CallStatus(q)' = CallStatus(q)
  BY <1>1, Frame DEF DbInv, Unsaved, CallStatus, At
<1> QED
  BY <1>1 DEF Todo, Status

\* A call that is left keeps nothing to store, and its status is the result.
LEMMA LeaveMapped ==
  ASSUME DbInv, NEW p \in Process, NEW r \in {"none", "ok", "error"}, Leave(p, r),
         ProcessStep(p)
  PROVE  /\ Joined' = Joined
         /\ Todo' = [Todo EXCEPT ![p] = <<>>]
         /\ Status' = [Status EXCEPT ![p] = IF r = "none" THEN "idle" ELSE r]
<1>1. Joined' = Joined
  BY JoinedSame DEF Leave, file
<1>2. pc'[p] = "idle" /\ result'[p] = r
  BY DEF Leave, Goto, DbInv, TypeInv, TypeOK
<1>3. Unsaved(p)' = <<>> /\ CallStatus(p)' = IF r = "none" THEN "idle" ELSE r
  BY <1>2 DEF Unsaved, CallStatus, At
<1> QED
  BY <1>1, <1>3, OthersMapped

\* A step inside a call that stores no reading and stays at the position is a
\* step that the log does not see.
LEMMA InsideMapped ==
  ASSUME DbInv, NEW p \in Process, ProcessStep(p), UNCHANGED readingTable,
         pc[p] # "idle", pc'[p] # "idle", batch'[p] = batch[p], pos'[p] = pos[p]
  PROVE  Joined' = Joined /\ Todo' = Todo /\ Status' = Status
<1>1. Joined' = Joined
  BY JoinedSame
<1>2. Unsaved(p)' = Unsaved(p) /\ CallStatus(p)' = CallStatus(p)
  BY DEF Unsaved, CallStatus, At
<1> QED
  BY <1>1, <1>2, OthersMapped DEF Todo, Status

\* The rest of a sequence from position k is element k and the rest after it.
LEMMA RestOfSequence ==
  ASSUME NEW S, NEW s \in Seq(S), NEW k \in 1 .. Len(s),
         NEW u, u = SubSeq(s, k, Len(s))
  PROVE  /\ Len(u) = Len(s) - k + 1
         /\ SubSeq(u, 1, 1) = <<s[k]>>
         /\ SubSeq(u, 2, Len(u)) = SubSeq(s, k + 1, Len(s))
<1>1. Len(s) \in k .. Len(s) /\ \A i \in k .. Len(s) : s[i] \in S
  BY LenProperties
<1>2. u \in Seq(S) /\ Len(u) = Len(s) - k + 1 /\ u[1] = s[k]
  BY <1>1, SubSeqProperties
<1>3. SubSeq(u, 1, 1) = <<s[k]>>
  <2>1. \A i \in 1 .. 1 : u[i] \in S
    BY <1>1, <1>2
  <2>2. /\ SubSeq(u, 1, 1) \in Seq(S)
        /\ Len(SubSeq(u, 1, 1)) = 1
        /\ SubSeq(u, 1, 1)[1] = s[k]
    BY <1>2, <2>1, SubSeqProperties
  <2>3. <<s[k]>> \in Seq(S) /\ Len(<<s[k]>>) = 1 /\ <<s[k]>>[1] = s[k]
    BY <1>1
  <2>4. \A i \in 1 .. 1 : SubSeq(u, 1, 1)[i] = <<s[k]>>[i]
    BY <2>2, <2>3
  <2>5. Len(SubSeq(u, 1, 1)) = Len(<<s[k]>>)
    BY <2>2, <2>3
  <2> DEFINE left == SubSeq(u, 1, 1)
             right == <<s[k]>>
  <2>6. \A i \in 1 .. Len(left) : left[i] = right[i]
    BY <2>2, <2>4
  <2> QED
    BY <2>2, <2>3, <2>5, <2>6, SeqEqual
<1>4. u # <<>>
  <2>1. Len(u) # 0
    BY <1>2
  <2> QED
    BY <2>1, EmptySeq
<1>5. Tail(u) = SubSeq(s, k + 1, Len(s))
  BY <1>1, HeadTailOfSubSeq
<1> QED
  BY <1>2, <1>3, <1>4, <1>5, TailIsSubSeq

\* The insertion of a reading is the store of the next reading of the call.
LEMMA InsertMapped ==
  ASSUME DbInv, NEW p \in Process, InsertReading(p), ~Fails(p)
  PROVE  /\ Status[p] = "saving"
         /\ 1 \in 1 .. Len(Todo[p])
         /\ Joined' = Joined \o SubSeq(Todo[p], 1, 1)
         /\ Todo' = [Todo EXCEPT ![p] = SubSeq(@, 2, Len(@))]
         /\ Status' = Status
<1>0. ProcessStep(p)
  BY DEF ProcessStep, SaveStep
<1>1. /\ pc[p] = "insert_reading"
      /\ readingTable' = Append(readingTable, [deviceId |-> devId[p],
                                               type |-> Current(p).type,
                                               date |-> Current(p).time])
      /\ LoopFrom(p, pos[p] + 1)
      /\ UNCHANGED <<deviceTable, batch, result>>
  BY DEF InsertReading, At
<1>2. /\ batch[p] \in Seq(Reading)
      /\ pos[p] \in 1 .. Len(batch[p])
      /\ Current(p) \in Reading
  BY <1>1, CurrentReading DEF DbInv, TypeInv, TypeOK, Looping
<1>3. /\ pos'[p] = pos[p] + 1
      /\ pc'[p] # "idle"
  BY <1>1 DEF LoopFrom, Goto, DbInv, TypeInv, TypeOK
<1>4. Unsaved(p) = SubSeq(batch[p], pos[p], Len(batch[p]))
  BY <1>1 DEF Unsaved, At
<1>5. Unsaved(p)' = SubSeq(batch[p], pos[p] + 1, Len(batch[p]))
  BY <1>1, <1>3 DEF Unsaved, At
<1>6. /\ Len(Unsaved(p)) = Len(batch[p]) - pos[p] + 1
      /\ SubSeq(Unsaved(p), 1, 1) = <<Current(p)>>
      /\ SubSeq(Unsaved(p), 2, Len(Unsaved(p))) = Unsaved(p)'
  BY <1>2, <1>4, <1>5, RestOfSequence DEF Current
<1>7. Joined' = Joined \o <<Current(p)>>
  <2>1. readingTable \in Seq(ReadingRow)
    BY DEF DbInv, TypeInv, TypeOK
  <2>2. deviceTable[devId[p]] = Current(p).dev
    BY <1>1 DEF DbInv, DevIdOK
  <2>3. Joined' =
          [i \in 1 .. Len(readingTable) + 1 |->
             IF i = Len(readingTable) + 1 THEN Current(p) ELSE Joined[i]]
    BY <1>1, <1>2, <2>1, <2>2 DEF Joined, Reading
  <2>4. Joined \in Seq({Joined[i] : i \in DOMAIN readingTable}) /\ Len(Joined) = Len(readingTable)
    BY <2>1 DEF Joined
  <2> QED
    BY <2>3, <2>4
<1>8. Status[p] = "saving" /\ CallStatus(p)' = "saving"
  BY <1>1, <1>3 DEF Status, CallStatus, At
<1>9. Todo[p] = Unsaved(p) /\ Len(Todo[p]) \in Nat \ {0}
  BY <1>2, <1>6 DEF Todo
<1>10. Todo' = [Todo EXCEPT ![p] = SubSeq(@, 2, Len(@))]
  BY <1>0, <1>6, <1>9, OthersMapped DEF Todo
<1>11. Status' = Status
  BY <1>0, <1>8, OthersMapped DEF Status
<1>12. Joined' = Joined \o SubSeq(Todo[p], 1, 1)
  BY <1>6, <1>7, <1>9
<1>13. 1 \in 1 .. Len(Todo[p])
  BY <1>9
<1> QED
  BY <1>8, <1>10, <1>11, <1>12, <1>13

\* Every step of a process is a step of the log, or one that it does not see.
LEMMA PromiseStep ==
  ASSUME DbInv, NEW p \in Process, ProcessStep(p)
  PROVE  Promise!Next \/ (Joined' = Joined /\ Todo' = Todo /\ Status' = Status)
<1> USE DEF Promise!Next, Promise!Begin, Promise!Store, Promise!Succeed,
            Promise!Fail, Promise!Abandon
<1>1. Todo[p] = Unsaved(p) /\ Status[p] = CallStatus(p)
  BY DEF Todo, Status
<1>2. CASE Fails(p) /\ pc[p] # "idle"
  <2>1. Status[p] = "saving"
    BY <1>1, <1>2 DEF CallStatus, At
  <2>2. /\ Joined' = Joined
        /\ Todo' = [Todo EXCEPT ![p] = <<>>]
        /\ Status' = [Status EXCEPT ![p] = "error"]
    BY <1>2, LeaveMapped DEF Fails
  <2>3. Promise!Fail(p)
    BY <2>1, <2>2 DEF Todo, Status
  <2> QED
    BY <2>3
<1>3. CASE Crash(p)
  <2>1. /\ Joined' = Joined
        /\ Todo' = [Todo EXCEPT ![p] = <<>>]
        /\ Status' = [Status EXCEPT ![p] = "idle"]
    BY <1>3, LeaveMapped DEF Crash
  <2>2. Promise!Abandon(p)
    BY <2>1 DEF Todo, Status
  <2> QED
    BY <2>2
<1>4. ASSUME NEW b \in Batches, Save(p, b)
      PROVE  Promise!Next
  <2>1. Status[p] # "saving"
    BY <1>1, <1>4 DEF CallStatus, At, Save, DbInv, TypeInv, TypeOK
  <2>2. Joined' = Joined
    BY <1>4, JoinedSame DEF Save, file
  <2>3. /\ pc'[p] = "table_exists" /\ pos'[p] = 1 /\ batch'[p] = b
    BY <1>4 DEF Save, Goto, DbInv, TypeInv, TypeOK
  <2>4. b \in Seq(Reading)
    BY BatchesAssumption
  <2>5. Unsaved(p)' = b /\ CallStatus(p)' = "saving"
    BY <2>3, <2>4, SubSeqFull DEF Unsaved, CallStatus, At
  <2>6. Promise!Begin(p, b)
    BY <2>1, <2>2, <2>5, OthersMapped DEF Todo, Status
  <2> QED
    BY <2>6
<1>5. CASE Finish(p)
  <2>1. /\ pc[p] = "return"
        /\ batch[p] \in Seq(Reading)
        /\ pos[p] = Len(batch[p]) + 1
    BY <1>5 DEF Finish, At, DbInv, TypeInv, TypeOK, PosOK
  <2>2. Unsaved(p) = <<>>
    BY <2>1, SubSeqEmpty DEF Unsaved, At
  <2>3. Status[p] = "saving"
    BY <1>1, <2>1 DEF CallStatus, At
  <2>4. /\ Joined' = Joined
        /\ Todo' = [Todo EXCEPT ![p] = <<>>]
        /\ Status' = [Status EXCEPT ![p] = "ok"]
    BY <1>5, LeaveMapped DEF Finish
  <2>5. Todo' = Todo
    BY <1>1, <2>2, <2>4 DEF Todo
  <2>6. Promise!Succeed(p)
    BY <1>1, <2>2, <2>3, <2>4, <2>5 DEF Todo, Status
  <2> QED
    BY <2>6
<1>6. CASE InsertReading(p) /\ ~Fails(p)
  <2>1. Promise!Store(p, 1)
    BY <1>6, InsertMapped DEF Todo, Status
  <2> QED
    BY <1>6, <2>1, InsertMapped DEF Todo
<1>7. CASE /\ \/ TableExists(p)
              \/ CreateDeviceTable(p)
              \/ CreateReadingTable(p)
              \/ FindDevice(p)
              \/ InsertDevice(p)
           /\ ~Fails(p)
  <2>1. /\ pc[p] # "idle"
        /\ pc'[p] # "idle"
        /\ UNCHANGED <<readingTable, batch>>
    BY <1>7 DEF TableExists, CreateDeviceTable, CreateReadingTable, FindDevice,
                InsertDevice, At, Goto, LoopFrom, file, DbInv, TypeInv, TypeOK
  <2>2. pos'[p] = pos[p]
    BY <1>7 DEF TableExists, CreateDeviceTable, CreateReadingTable, FindDevice,
                InsertDevice, At, LoopFrom, DbInv, TypeInv, TypeOK, PosOK, Preparing
  <2> QED
    BY <2>1, <2>2, InsideMapped
<1>8. Fails(p) /\ SaveStep(p) => pc[p] # "idle"
  BY DEF SaveStep, TableExists, CreateDeviceTable, CreateReadingTable, FindDevice,
         InsertDevice, InsertReading, Finish, At
<1> QED
  BY <1>2, <1>3, <1>4, <1>5, <1>6, <1>7, <1>8 DEF ProcessStep, SaveStep

\* The database is a store: whatever the processes do, what a reader of the
\* joined tables sees behaves as the log that storage::store promises.
THEOREM PromiseKept == Spec => Implements
<1>1. DbInv /\ [Next]_dbVars => [Promise!Next]_(Promise!logVars)
  <2> SUFFICES ASSUME DbInv, [Next]_dbVars PROVE [Promise!Next]_(Promise!logVars)
    OBVIOUS
  <2>1. CASE UNCHANGED dbVars
    BY <2>1 DEF dbVars, Promise!logVars, Joined, Unsaved, CallStatus, At
  <2>2. CASE Next
    <3>1. PICK p \in Process : ProcessStep(p)
      BY <2>2 DEF Next, ProcessStep
    <3> QED
      BY <3>1, PromiseStep DEF Promise!logVars, Todo, Status
  <2> QED
    BY <2>1, <2>2
<1> QED
  BY PromiseInit, DbInvInit, DbInvNext, <1>1, PTL
     DEF Spec, Implements, Promise!Spec

-----------------------------------------------------------------------------
\* What a call of save() has stored so far: while the loop runs, the readings
\* before the one it is at; after a success, all of them.  The second part is
\* SavedBatchStored, which says nothing of the calls under way and is therefore
\* not inductive.
StoredInv ==
  \A p \in Process :
    /\ pc[p] # "idle" => StartStored(batch[p], pos[p] - 1, Joined)
    /\ result[p] = "ok" => /\ pc[p] = "idle"
                           /\ StartStored(batch[p], Len(batch[p]), Joined)

\* The join shows readings, since every row has its device.
LEMMA JoinedReadings ==
  ASSUME DbInv
  PROVE  Joined \in Seq(Reading)
<1>1. readingTable \in Seq(ReadingRow) /\ deviceTable \in Seq(Device)
  BY DEF DbInv, TypeInv, TypeOK
<1>2. ASSUME NEW i \in 1 .. Len(readingTable)
      PROVE  [dev  |-> deviceTable[readingTable[i].deviceId],
              type |-> readingTable[i].type,
              time |-> readingTable[i].date] \in Reading
  <2>1. readingTable[i] \in ReadingRow
    BY <1>1, ElementOfSeq
  <2>2. deviceTable[readingTable[i].deviceId] \in Device
    BY <1>1 DEF DbInv, ReadingsResolve
  <2> QED
    BY <2>1, <2>2 DEF ReadingRow, Reading
<1>3. DOMAIN readingTable = 1 .. Len(readingTable) /\ Len(readingTable) \in Nat
  BY <1>1
<1> QED
  BY <1>2, <1>3 DEF Joined

\* The stretch of a sequence from k to k is its element k.
LEMMA OneElement ==
  ASSUME NEW S, NEW s \in Seq(S), NEW k \in 1 .. Len(s)
  PROVE  SubSeq(s, k, k) = <<s[k]>>
<1> DEFINE left == SubSeq(s, k, k)
           right == <<s[k]>>
<1>1. s[k] \in S /\ \A i \in k .. k : s[i] \in S
  BY ElementOfSeq
<1>2. left \in Seq(S) /\ Len(left) = 1 /\ left[1] = s[k]
  BY <1>1, SubSeqProperties
<1>3. right \in Seq(S) /\ Len(right) = 1 /\ right[1] = s[k]
  BY <1>1
<1>4. \A i \in 1 .. Len(left) : left[i] = right[i]
  BY <1>2, <1>3
<1> QED
  BY <1>2, <1>3, <1>4, SeqEqual

\* The join grows only by the reading that the loop of one process is at.
LEMMA JoinedGrows ==
  ASSUME DbInv, NEW p \in Process, ProcessStep(p)
  PROVE  IF InsertReading(p) /\ ~Fails(p)
         THEN Joined' = Joined \o SubSeq(batch[p], pos[p], pos[p])
         ELSE Joined' = Joined
<1>1. CASE ~InsertReading(p)
  BY <1>1, JoinedSame, FileStep DEF DbInv
<1>2. CASE InsertReading(p) /\ ~Fails(p)
  <2>1. pc[p] \in Looping
    BY <1>2 DEF InsertReading, At, Looping
  <2>2. batch[p] \in Seq(Reading) /\ pos[p] \in 1 .. Len(batch[p])
    BY <2>1, CurrentReading DEF DbInv, TypeInv, TypeOK
  <2>3. Todo[p] = SubSeq(batch[p], pos[p], Len(batch[p]))
    BY <2>1 DEF Todo, Unsaved, At, Looping
  <2>4. SubSeq(Todo[p], 1, 1) = SubSeq(batch[p], pos[p], pos[p])
    BY <2>2, <2>3, RestOfSequence, OneElement
  <2> QED
    BY <1>2, <2>4, InsertMapped
<1>3. CASE Fails(p)
  BY <1>3, JoinedSame DEF Fails, Leave, file
<1> QED
  BY <1>1, <1>2, <1>3

\* So what is stored of any batch stays stored.
LEMMA KeptInJoin ==
  ASSUME DbInv, NEW p \in Process, ProcessStep(p), NEW s, NEW k \in Nat,
         StartStored(s, k, Joined)
  PROVE  StartStored(s, k, Joined')
<1>1. CASE Joined' = Joined
  BY <1>1
<1>2. CASE /\ InsertReading(p) /\ ~Fails(p)
           /\ Joined' = Joined \o SubSeq(batch[p], pos[p], pos[p])
  <2>1. pos[p] \in DOMAIN batch[p] /\ batch[p] \in Seq(Reading)
    BY <1>2, CurrentReading DEF InsertReading, At, Looping, DbInv, TypeInv, TypeOK
  <2>2. Current(p) \in Reading
    BY <1>2, CurrentReading DEF InsertReading, At, Looping, DbInv
  <2>3. pos[p] \in 1 .. Len(batch[p])
    BY <2>1
  <2>4. SubSeq(batch[p], pos[p], pos[p]) = <<Current(p)>>
    BY <2>1, <2>3, OneElement DEF Current
  <2>5. <<Current(p)>> \in Seq(Reading)
    BY <2>2
  <2> QED
    BY <1>2, <2>4, <2>5, JoinedReadings, StillStored
<1> QED
  BY <1>1, <1>2, JoinedGrows

\* The step of one process preserves what is known of the calls.
LEMMA StoredStep ==
  ASSUME DbInv, StoredInv, NEW p \in Process, ProcessStep(p)
  PROVE  StoredInv'
<1>1. ASSUME NEW q \in Process
      PROVE  /\ pos[q] \in Nat \ {0} /\ pos[q] - 1 \in Nat
             /\ batch[q] \in Seq(Reading) /\ Len(batch[q]) \in Nat
  BY DEF DbInv, TypeInv, TypeOK
<1>2. ASSUME NEW q \in Process, q # p
      PROVE  /\ pc'[q] # "idle" => StartStored(batch'[q], pos'[q] - 1, Joined')
             /\ result'[q] = "ok" => /\ pc'[q] = "idle"
                                     /\ StartStored(batch'[q], Len(batch'[q]), Joined')
  BY <1>1, <1>2, Frame, KeptInJoin DEF StoredInv, DbInv
<1>3. CASE Crash(p) \/ Fails(p)
  <2>1. pc'[p] = "idle" /\ result'[p] # "ok"
    BY <1>3 DEF Crash, Fails, Leave, Goto, DbInv, TypeInv, TypeOK
  <2> QED
    BY <1>2, <2>1 DEF StoredInv
<1>4. CASE \E b \in Batches : Save(p, b)
  <2>1. pos'[p] = 1 /\ result'[p] = "none"
    BY <1>4 DEF Save, DbInv, TypeInv, TypeOK
  <2>2. StartStored(batch'[p], pos'[p] - 1, Joined')
    BY <2>1, NothingStored
  <2> QED
    BY <1>2, <2>1, <2>2 DEF StoredInv
<1>5. CASE Finish(p)
  <2>1. /\ pc[p] = "return" /\ pos[p] = Len(batch[p]) + 1
        /\ pc'[p] = "idle" /\ batch'[p] = batch[p]
    BY <1>5 DEF Finish, At, Leave, Goto, DbInv, TypeInv, TypeOK, PosOK
  <2>2. pos[p] - 1 = Len(batch[p])
    BY <1>1, <2>1
  <2>3. StartStored(batch[p], Len(batch[p]), Joined)
    BY <2>1, <2>2 DEF StoredInv
  <2>4. StartStored(batch'[p], Len(batch'[p]), Joined')
    BY <1>1, <2>1, <2>3, KeptInJoin
  <2> QED
    BY <1>2, <2>1, <2>4 DEF StoredInv
<1>6. CASE InsertReading(p) /\ ~Fails(p)
  <2>1. /\ pc[p] = "insert_reading"
        /\ pos'[p] = pos[p] + 1
        /\ UNCHANGED <<batch, result>>
    BY <1>6 DEF InsertReading, At, LoopFrom, DbInv, TypeInv, TypeOK
  <2>2. pos[p] \in 1 .. Len(batch[p])
    BY <1>1, <2>1, CurrentReading DEF Looping, DbInv
  <2>3. Joined' = Joined \o SubSeq(batch[p], pos[p], pos[p])
    BY <1>6, JoinedGrows
  <2>4. StartStored(batch[p], pos[p] - 1, Joined)
    BY <2>1 DEF StoredInv
  <2> DEFINE k == pos[p] - 1
  <2>5. k \in Nat /\ k + 1 = pos[p] /\ k + 1 <= Len(batch[p])
    BY <1>1, <2>2
  <2> HIDE DEF k
  <2>6. StartStored(batch[p], k + 1, Joined \o SubSeq(batch[p], k + 1, k + 1))
    BY <1>1, <2>4, <2>5, JoinedReadings, MoreStored DEF k
  <2>7. StartStored(batch'[p], pos'[p] - 1, Joined')
    BY <1>1, <2>1, <2>3, <2>5, <2>6
  <2>8. result'[p] # "ok"
    BY <2>1 DEF StoredInv
  <2> QED
    BY <1>2, <2>7, <2>8 DEF StoredInv
<1>7. CASE /\ \/ TableExists(p)
              \/ CreateDeviceTable(p)
              \/ CreateReadingTable(p)
              \/ FindDevice(p)
              \/ InsertDevice(p)
           /\ ~Fails(p)
  <2>1. /\ pc[p] # "idle"
        /\ UNCHANGED <<batch, result>>
    BY <1>7 DEF TableExists, CreateDeviceTable, CreateReadingTable, FindDevice,
                InsertDevice, At
  <2>2. pos'[p] = pos[p]
    BY <1>7 DEF TableExists, CreateDeviceTable, CreateReadingTable, FindDevice,
                InsertDevice, At, LoopFrom, DbInv, TypeInv, TypeOK, PosOK, Preparing
  <2>3. StartStored(batch'[p], pos'[p] - 1, Joined')
    BY <1>1, <2>1, <2>2, KeptInJoin DEF StoredInv
  <2>4. result'[p] # "ok"
    BY <2>1 DEF StoredInv
  <2> QED
    BY <1>2, <2>3, <2>4 DEF StoredInv
<1> QED
  BY <1>3, <1>4, <1>5, <1>6, <1>7 DEF ProcessStep, SaveStep

\* When save() has reported success, every reading of its batch is in the
\* file, in order, whatever other processes have stored between them and
\* whatever is stored later.
THEOREM SavedIsStored == Spec => []SavedBatchStored
<1>1. Init => StoredInv
  BY DEF Init, StoredInv
<1>2. DbInv /\ StoredInv /\ [Next]_dbVars => StoredInv'
  <2> SUFFICES ASSUME DbInv, StoredInv, [Next]_dbVars PROVE StoredInv'
    OBVIOUS
  <2>1. CASE UNCHANGED dbVars
    BY <2>1 DEF StoredInv, dbVars, Joined
  <2>2. CASE Next
    <3>1. PICK p \in Process : ProcessStep(p)
      BY <2>2 DEF Next, ProcessStep
    <3> QED
      BY <3>1, StoredStep
  <2> QED
    BY <2>1, <2>2
<1>3. DbInv /\ StoredInv => SavedBatchStored
  BY AllStored DEF StoredInv, SavedBatchStored, DbInv, TypeInv, TypeOK
<1> QED
  BY DbInvInit, DbInvNext, <1>1, <1>2, <1>3, PTL DEF Spec

-----------------------------------------------------------------------------
\* Duplicates.  A process may insert a device only while it is between its
\* SELECT and its INSERT, and it gets there only when no row exists; so the
\* rows and the processes that are about to add one are bounded together.
DupInv ==
  \A d \in Device :
    Cardinality(IdsOf(d)) + Cardinality(Inserting(d)) <= Cardinality(Process)

LEMMA DupFinite ==
  ASSUME TypeInv, NEW d
  PROVE  /\ IsFiniteSet(IdsOf(d)) /\ Cardinality(IdsOf(d)) \in Nat
         /\ IsFiniteSet(Inserting(d)) /\ Cardinality(Inserting(d)) \in Nat
         /\ Cardinality(Inserting(d)) <= Cardinality(Process)
         /\ Cardinality(Process) \in Nat
<1>1. Len(deviceTable) \in Nat /\ IdsOf(d) \subseteq 1 .. Len(deviceTable)
  BY DEF TypeInv, TypeOK, IdsOf
<1>2. IsFiniteSet(1 .. Len(deviceTable))
  BY <1>1, FS_Interval
<1>3. IsFiniteSet(IdsOf(d))
  BY <1>1, <1>2, FS_Subset
<1>4. Inserting(d) \subseteq Process
  BY DEF Inserting
<1>5. IsFiniteSet(Inserting(d)) /\ Cardinality(Inserting(d)) <= Cardinality(Process)
  BY <1>4, ProcessAssumption, FS_Subset
<1> QED
  BY <1>3, <1>5, ProcessAssumption, FS_CardinalityType

LEMMA DupStep ==
  ASSUME DbInv, DbInv', DupInv, NEW p \in Process, ProcessStep(p)
  PROVE  DupInv'
<1> SUFFICES ASSUME NEW d \in Device
             PROVE  Cardinality(IdsOf(d)') + Cardinality(Inserting(d)')
                      <= Cardinality(Process)
  BY DEF DupInv
<1> USE DEF DbInv
<1>1. Cardinality(IdsOf(d)) + Cardinality(Inserting(d)) <= Cardinality(Process)
  BY DEF DupInv
<1>2. \A q \in Process : q # p => (q \in Inserting(d)' <=> q \in Inserting(d))
  BY Frame DEF Inserting, At, Current
<1>3. /\ IsFiniteSet(IdsOf(d)') /\ Cardinality(IdsOf(d)') \in Nat
      /\ IsFiniteSet(Inserting(d)') /\ Cardinality(Inserting(d)') \in Nat
      /\ Cardinality(Inserting(d)') <= Cardinality(Process)
  <2>1. /\ Len(deviceTable') \in Nat /\ IdsOf(d)' \subseteq 1 .. Len(deviceTable')
        /\ Inserting(d)' \subseteq Process
    BY DEF TypeInv, TypeOK, IdsOf, Inserting
  <2>2. IsFiniteSet(1 .. Len(deviceTable'))
    BY <2>1, FS_Interval
  <2>3. IsFiniteSet(IdsOf(d)') /\ IsFiniteSet(Inserting(d)')
    BY <2>1, <2>2, ProcessAssumption, FS_Subset
  <2> QED
    BY <2>1, <2>3, ProcessAssumption, FS_Subset, FS_CardinalityType
\* A step that adds no row, and no process that will, leaves the bound alone.
<1>4. CASE UNCHANGED deviceTable /\ p \notin Inserting(d)'
  <2>1. IdsOf(d)' = IdsOf(d)
    BY <1>4 DEF IdsOf
  <2>2. Inserting(d)' \subseteq Inserting(d)
    BY <1>2, <1>4 DEF Inserting
  <2>3. Cardinality(Inserting(d)') <= Cardinality(Inserting(d))
    BY <2>2, DupFinite, FS_Subset
  <2> QED
    BY <1>1, <1>3, <2>1, <2>3, DupFinite
\* The process gets to its INSERT: it has just seen that there is no row.
<1>5. CASE FindDevice(p) /\ p \in Inserting(d)'
  <2>1. /\ IdsOf(Current(p).dev) = {}
        /\ UNCHANGED <<file, batch, pos>>
    BY <1>5 DEF FindDevice, Fails, Leave, Goto, Inserting, At, TypeInv, TypeOK
  <2>2. Current(p).dev = d
    BY <1>5, <2>1 DEF Inserting, Current
  <2>3. IdsOf(d)' = {}
    BY <2>1, <2>2 DEF IdsOf, file
  <2> QED
    BY <1>3, <2>3, FS_EmptySet, DupFinite
\* The process inserts the row: it is no longer one of those about to.
<1>6. CASE InsertDevice(p) /\ ~UNCHANGED deviceTable
  <2>1. /\ deviceTable' = Append(deviceTable, Current(p).dev)
        /\ UNCHANGED <<batch, pos>>
        /\ pc'[p] = "insert_reading"
    BY <1>6, FileStep DEF Goto, InsertReading, InsertDevice, At, TypeInv, TypeOK
  <2>2. Current(p).dev \in Device /\ deviceTable \in Seq(Device)
    BY <1>6, CurrentReading DEF InsertDevice, At, Looping, Reading, TypeInv, TypeOK
  <2>3. Inserting(d)' = Inserting(d) \ {p}
    BY <1>2, <2>1 DEF Inserting, At
  <2>4. CASE Current(p).dev = d
    <3>1. p \in Inserting(d)
      BY <1>6, <2>4 DEF Inserting, InsertDevice
    <3>2. IdsOf(d)' = IdsOf(d) \cup {Len(deviceTable) + 1}
      BY <2>1, <2>2, <2>4 DEF IdsOf
    <3>3. Len(deviceTable) + 1 \notin IdsOf(d)
      BY <2>2 DEF IdsOf
    <3>4. Cardinality(IdsOf(d)') = Cardinality(IdsOf(d)) + 1
      BY <3>2, <3>3, DupFinite, FS_AddElement
    <3>5. Cardinality(Inserting(d)') = Cardinality(Inserting(d)) - 1
      BY <2>3, <3>1, DupFinite, FS_RemoveElement
    <3> QED
      BY <1>1, <3>4, <3>5, DupFinite
  <2>5. CASE Current(p).dev # d
    <3>1. IdsOf(d)' = IdsOf(d)
      BY <2>1, <2>2, <2>5 DEF IdsOf
    <3>2. Cardinality(Inserting(d)') <= Cardinality(Inserting(d))
      BY <2>3, DupFinite, FS_Subset
    <3> QED
      BY <1>1, <1>3, <3>1, <3>2, DupFinite
  <2> QED
    BY <2>4, <2>5
<1>7. CASE UNCHANGED deviceTable /\ p \in Inserting(d)' /\ ~FindDevice(p)
  \* Only the SELECT leads to the INSERT of a device.
  <2>1. pc'[p] = "insert_device"
    BY <1>7 DEF Inserting, At
  <2> QED
    BY <1>7, <2>1 DEF ProcessStep, SaveStep, Save, TableExists, CreateDeviceTable,
       CreateReadingTable, InsertDevice, InsertReading, Finish, Crash, Fails, Leave,
       LoopFrom, Goto, TypeInv, TypeOK
<1> QED
  BY <1>4, <1>5, <1>6, <1>7, FileStep

LEMMA DupInit == Init => DupInv
<1> SUFFICES ASSUME Init, NEW d \in Device
             PROVE  Cardinality(IdsOf(d)) + Cardinality(Inserting(d)) <= Cardinality(Process)
  BY DEF DupInv
<1>1. IdsOf(d) = {} /\ Inserting(d) = {}
  BY DEF Init, IdsOf, Inserting, At
<1> QED
  BY <1>1, FS_EmptySet, ProcessAssumption, FS_CardinalityType

\* However the loggers race and however often they are killed and restarted, a
\* device has at most as many rows as there are loggers: one, with one logger.
THEOREM DuplicatesAreBounded == Spec => []DuplicatesBounded
<1>1. DbInv /\ DbInv' /\ DupInv /\ [Next]_dbVars => DupInv'
  <2> SUFFICES ASSUME DbInv, DbInv', DupInv, [Next]_dbVars PROVE DupInv'
    OBVIOUS
  <2>1. CASE UNCHANGED dbVars
    BY <2>1 DEF DupInv, IdsOf, Inserting, At, Current, dbVars
  <2>2. CASE Next
    <3>1. PICK p \in Process : ProcessStep(p)
      BY <2>2 DEF Next, ProcessStep
    <3> QED
      BY <3>1, DupStep
  <2> QED
    BY <2>1, <2>2
<1>2. DbInv /\ DupInv => DuplicatesBounded
  BY DupFinite DEF DupInv, DbInv, DuplicatesBounded
<1> QED
  BY DbInvInit, DbInvNext, DupInit, <1>1, <1>2, PTL DEF Spec

-----------------------------------------------------------------------------
\* Saving only adds rows.
LEMMA FileGrows ==
  ASSUME DbInv, [Next]_dbVars
  PROVE  /\ \A i \in DOMAIN deviceTable :
              i \in DOMAIN deviceTable' /\ deviceTable'[i] = deviceTable[i]
         /\ \A k \in DOMAIN readingTable :
              k \in DOMAIN readingTable' /\ readingTable'[k] = readingTable[k]
<1>1. CASE UNCHANGED dbVars
  BY <1>1 DEF dbVars
<1>2. CASE Next
  <2>1. PICK p \in Process : ProcessStep(p)
    BY <1>2 DEF Next, ProcessStep
  <2>2. \A i \in DOMAIN deviceTable :
          i \in DOMAIN deviceTable' /\ deviceTable'[i] = deviceTable[i]
    BY <2>1, DevicesKept DEF DbInv
  <2>3. CASE UNCHANGED readingTable
    BY <2>2, <2>3
  <2>4. ASSUME NEW row, readingTable' = Append(readingTable, row)
        PROVE  \A k \in DOMAIN readingTable :
                 k \in DOMAIN readingTable' /\ readingTable'[k] = readingTable[k]
    BY <2>4 DEF DbInv, TypeInv, TypeOK
  <2> QED
    BY <2>1, <2>2, <2>3, <2>4, FileStep DEF DbInv
<1> QED
  BY <1>1, <1>2

\* And so does the join.
LEMMA JoinedKept ==
  ASSUME DbInv, [Next]_dbVars
  PROVE  \A k \in DOMAIN Joined : k \in DOMAIN Joined' /\ Joined'[k] = Joined[k]
<1>1. \A k \in DOMAIN readingTable :
        /\ k \in DOMAIN readingTable'
        /\ readingTable'[k] = readingTable[k]
        /\ readingTable[k].deviceId \in DOMAIN deviceTable
        /\ deviceTable'[readingTable[k].deviceId] = deviceTable[readingTable[k].deviceId]
  BY FileGrows DEF DbInv, ReadingsResolve
<1> QED
  BY <1>1 DEF Joined
=============================================================================
