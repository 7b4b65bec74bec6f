---------------------------- MODULE LoggerProofs ----------------------------
(***************************************************************************)
(* Proofs about Logger, for any number of loggers, any devices, any        *)
(* interval and a clock that runs as far as it likes.                      *)
(***************************************************************************)
EXTENDS Logger, SubsequenceProofs, SequenceTheorems, TLAPS

KnownDevice ==
  UNION {{devs[i] : i \in DOMAIN devs} : devs \in ThermalDevices \union LoadDevices}

\* A reading, dated by the clock.
Entry == [dev : KnownDevice, type : {"thermal", "load"}, time : Nat]

Saving == {"saving_thermal", "saving_load"}
HasThermal == {"read_load", "save_thermal", "saving_thermal", "saving_load"}
HasBoth == {"save_thermal", "saving_thermal", "saving_load"}

LoggerTypes ==
  /\ log \in Seq(Entry)
  /\ todo \in [Process -> Seq(Entry)]
  /\ status \in [Process -> {"idle", "saving", "ok", "error"}]
  /\ phase \in [Process -> {"off", "read_thermal", "read_load", "save_thermal",
                           "saving_thermal", "saving_load", "sleep"}]
  /\ thermal \in [Process -> Seq(Entry)]
  /\ load \in [Process -> Seq(Entry)]
  /\ next \in [Process -> Nat]
  /\ now \in Nat
  /\ started \in [Process -> Nat]
  /\ rounds \in [Process -> Nat]

\* next is the time of the round that runs or is waited for, counted from the
\* start of the program.
DueInv ==
  \A p \in Process :
    /\ phase[p] = "off" => rounds[p] = 0
    /\ phase[p] # "off" => next[p] = started[p] + rounds[p] * Interval
    /\ phase[p] \notin {"off", "sleep"} => now >= next[p]

\* What is known of the dates of the readings from when they are taken on.
FreshInv ==
  \A p \in Process :
    /\ phase[p] \in HasThermal =>
         \A i \in DOMAIN thermal[p] :
           next[p] <= thermal[p][i].time /\ thermal[p][i].time <= now
    /\ phase[p] \in HasBoth =>
         \A i \in DOMAIN thermal[p], j \in DOMAIN load[p] :
           thermal[p][i].time <= load[p][j].time

\* What a logger saves in a round.
Round(p) == thermal[p] \o load[p]

\* The call of save() is under way with the readings rest of which the first k
\* are stored, before them the first l of the round; or it has stored them all.
CallInv(p, rest, l) ==
  /\ status[p] # "idle"
  /\ status[p] = "saving" =>
       \E k \in 0 .. Len(rest) :
         /\ todo[p] = SubSeq(rest, k + 1, Len(rest))
         /\ StartStored(Round(p), l + k, log)
  /\ status[p] = "ok" => StartStored(Round(p), l + Len(rest), log)

\* How much of the round of a logger the file holds.
RoundInv ==
  \A p \in Process :
    /\ status[p] = "saving" => phase[p] \in Saving
    /\ phase[p] = "saving_thermal" => CallInv(p, thermal[p], 0)
    /\ phase[p] = "saving_load" => CallInv(p, load[p], Len(thermal[p]))
    /\ phase[p] = "sleep" => StartStored(Round(p), Len(Round(p)), log)

\* Only those that were started on the file do anything.
UsersInv ==
  \A p \in Process :
    p \notin users => phase[p] = "off" /\ thermal[p] = <<>> /\ load[p] = <<>>

\* The file is in order and ends not later than now.
FileOrdered ==
  /\ \A i, j \in DOMAIN log : i < j => log[i].time <= log[j].time
  /\ \A i \in DOMAIN log : log[i].time <= now

\* The readings of one call of read_all() have one date, and what the logger still
\* has to store is not older than what is in the file.
Ordered(p) ==
  /\ \A i, j \in DOMAIN thermal[p] : thermal[p][i].time = thermal[p][j].time
  /\ \A i, j \in DOMAIN load[p] : load[p][i].time = load[p][j].time
  /\ \A i \in DOMAIN thermal[p] : thermal[p][i].time <= now
  /\ \A i \in DOMAIN load[p] : load[p][i].time <= now
  /\ phase[p] \in {"read_load", "save_thermal", "saving_thermal"} =>
       \A i \in DOMAIN log, j \in DOMAIN thermal[p] : log[i].time <= thermal[p][j].time
  /\ phase[p] \in HasBoth =>
       \A i \in DOMAIN log, j \in DOMAIN load[p] : log[i].time <= load[p][j].time

\* As long as the file belongs to one logger.
OrderInv ==
  /\ UsersInv
  /\ ~Shared => FileOrdered /\ \A p \in users \intersect Process : Ordered(p)

\* A list of devices gives a vector of readings, all of them dated now.
LEMMA ReadingsTyped ==
  ASSUME now \in Nat, NEW devs \in ThermalDevices \union LoadDevices,
         NEW t \in {"thermal", "load"}
  PROVE  /\ Readings(devs, t) \in Seq(Entry)
         /\ \A i \in DOMAIN Readings(devs, t) : Readings(devs, t)[i].time = now
<1>1. devs \in Seq(KnownDevice)
  <2>1. devs \in Seq({devs[i] : i \in DOMAIN devs})
    BY ListsAssumption
  <2>2. {devs[i] : i \in DOMAIN devs} \subseteq KnownDevice
    BY DEF KnownDevice
  <2> QED
    BY <2>1, <2>2, SeqMonotonic
<1>2. \A i \in 1 .. Len(devs) :
        [dev |-> devs[i], type |-> t, time |-> now] \in Entry
  BY <1>1, ElementOfSeq DEF Entry
<1>3. DOMAIN devs = 1 .. Len(devs) /\ Len(devs) \in Nat
  BY <1>1, LenProperties
<1> QED
  BY <1>2, <1>3 DEF Readings

\* One step of one logger, or of the store for it.
ProcessStep(p) == Start(p) \/ LogStep(p) \/ StoreStep(p) \/ Kill(p)

\* It touches nothing of another logger, and it takes no time.
LEMMA Frame ==
  ASSUME LoggerTypes, NEW p \in Process, NEW q \in Process, q # p, ProcessStep(p)
  PROVE  /\ phase'[q] = phase[q] /\ thermal'[q] = thermal[q] /\ load'[q] = load[q]
         /\ next'[q] = next[q] /\ started'[q] = started[q] /\ rounds'[q] = rounds[q]
         /\ todo'[q] = todo[q] /\ status'[q] = status[q]
<1> USE DEF LoggerTypes, Enter, logger, logVars
<1>1. CASE Start(p) \/ ReadThermal(p) \/ ReadLoad(p)
  BY <1>1 DEF Start, ReadThermal, ReadLoad, Quit
<1>2. CASE SaveThermal(p) \/ SaveLoad(p)
  BY <1>2 DEF SaveThermal, SaveLoad, Begin
<1>3. CASE Sleep(p) \/ Wake(p)
  BY <1>3 DEF Sleep, Wake
<1>4. CASE SaveFailed(p) \/ Kill(p)
  BY <1>4 DEF SaveFailed, Kill, Quit, Abandon
<1>5. CASE StoreStep(p)
  BY <1>5 DEF StoreStep, Store, Succeed, Fail
<1> QED
  BY <1>1, <1>2, <1>3, <1>4, <1>5 DEF ProcessStep, LogStep

\* Only the store writes to the file, the next n readings of the call.
LEMMA LogStored ==
  ASSUME NEW p \in Process, ProcessStep(p)
  PROVE  /\ now' = now
         /\ \/ log' = log
            \/ \E n \in 1 .. Len(todo[p]) : Store(p, n) /\ UNCHANGED logger
BY DEF ProcessStep, LogStep, Start, ReadThermal, ReadLoad, SaveThermal, SaveLoad,
       Sleep, Wake, SaveFailed, Kill, StoreStep, Begin, Succeed, Fail, Abandon, logVars

-----------------------------------------------------------------------------
\* Types.

LEMMA TypesInit == LoggerInit => LoggerTypes
  BY DEF LoggerInit, Init, LoggerTypes

\* A program that ends leaves values of the right types behind.
LEMMA TypesQuit ==
  ASSUME LoggerTypes, NEW p \in Process, Quit(p)
  PROVE  /\ phase' \in [Process -> {"off", "read_thermal", "read_load", "save_thermal",
                                   "saving_thermal", "saving_load", "sleep"}]
         /\ thermal' \in [Process -> Seq(Entry)]
         /\ load' \in [Process -> Seq(Entry)]
         /\ next' \in [Process -> Nat]
         /\ started' \in [Process -> Nat]
         /\ rounds' \in [Process -> Nat]
BY DEF LoggerTypes, Quit, Enter

\* What the store does for a call keeps the types.
LEMMA TypesStore ==
  ASSUME LoggerTypes, NEW p \in Process, NEW n \in 1 .. Len(todo[p]), Store(p, n)
  PROVE  log' \in Seq(Entry) /\ todo' \in [Process -> Seq(Entry)]
<1>1. todo[p] \in Seq(Entry) /\ Len(todo[p]) \in Nat
  BY DEF LoggerTypes
<1>2. \A i \in 1 .. Len(todo[p]) : todo[p][i] \in Entry
  BY <1>1, ElementOfSeq
<1>3. SubSeq(todo[p], 1, n) \in Seq(Entry)
  BY <1>1, <1>2, SubSeqProperties
<1>4. SubSeq(todo[p], n + 1, Len(todo[p])) \in Seq(Entry)
  BY <1>1, <1>2, SubSeqProperties
<1>5. log' \in Seq(Entry)
  BY <1>3, ConcatProperties DEF Store, LoggerTypes
<1> QED
  BY <1>4, <1>5 DEF Store, LoggerTypes

LEMMA TypesNext == LoggerTypes /\ [LoggerNext]_loggerVars => LoggerTypes'
<1> SUFFICES ASSUME LoggerTypes, [LoggerNext]_loggerVars PROVE LoggerTypes'
  OBVIOUS
<1>1. CASE UNCHANGED loggerVars
  BY <1>1 DEF LoggerTypes, loggerVars, logVars, logger
<1>2. CASE Tick
  BY <1>2 DEF Tick, LoggerTypes, logVars, logger
<1>3. ASSUME NEW p \in Process, Start(p) PROVE LoggerTypes'
  BY <1>3 DEF Start, Enter, LoggerTypes, logVars
<1>4. ASSUME NEW p \in Process, ReadThermal(p) PROVE LoggerTypes'
  <2>1. CASE Quit(p)
    BY <1>4, <2>1, TypesQuit DEF ReadThermal, LoggerTypes, logVars
  <2>2. ASSUME NEW devs \in ThermalDevices,
               thermal' = [thermal EXCEPT ![p] = Readings(devs, "thermal")],
               Enter(p, "read_load"), UNCHANGED <<load, next, started, rounds>>
        PROVE  LoggerTypes'
    <3>1. Readings(devs, "thermal") \in Seq(Entry)
      BY ReadingsTyped DEF LoggerTypes
    <3> QED
      BY <1>4, <2>2, <3>1 DEF ReadThermal, LoggerTypes, logVars, Enter
  <2> QED
    BY <1>4, <2>1, <2>2 DEF ReadThermal
<1>5. ASSUME NEW p \in Process, ReadLoad(p) PROVE LoggerTypes'
  <2>1. CASE Quit(p)
    BY <1>5, <2>1, TypesQuit DEF ReadLoad, LoggerTypes, logVars
  <2>2. ASSUME NEW devs \in LoadDevices,
               load' = [load EXCEPT ![p] = Readings(devs, "load")],
               Enter(p, "save_thermal"), UNCHANGED <<thermal, next, started, rounds>>
        PROVE  LoggerTypes'
    <3>1. Readings(devs, "load") \in Seq(Entry)
      BY ReadingsTyped DEF LoggerTypes
    <3> QED
      BY <1>5, <2>2, <3>1 DEF ReadLoad, LoggerTypes, logVars, Enter
  <2> QED
    BY <1>5, <2>1, <2>2 DEF ReadLoad
<1>6. ASSUME NEW p \in Process, SaveThermal(p) PROVE LoggerTypes'
  BY <1>6 DEF SaveThermal, Begin, Enter, LoggerTypes
<1>7. ASSUME NEW p \in Process, SaveLoad(p) PROVE LoggerTypes'
  BY <1>7 DEF SaveLoad, Begin, Enter, LoggerTypes
<1>8. ASSUME NEW p \in Process, Sleep(p) PROVE LoggerTypes'
  <2>1. next[p] + Interval \in Nat /\ rounds[p] + 1 \in Nat
    BY IntervalAssumption DEF LoggerTypes
  <2> QED
    BY <1>8, <2>1 DEF Sleep, Enter, LoggerTypes, logVars
<1>9. ASSUME NEW p \in Process, Wake(p) PROVE LoggerTypes'
  BY <1>9 DEF Wake, Enter, LoggerTypes, logVars
<1>10. ASSUME NEW p \in Process, SaveFailed(p) PROVE LoggerTypes'
  BY <1>10, TypesQuit DEF SaveFailed, LoggerTypes, logVars
<1>11. ASSUME NEW p \in Process, Kill(p) PROVE LoggerTypes'
  <2>1. todo' \in [Process -> Seq(Entry)] /\ UNCHANGED <<log, now>>
    BY <1>11 DEF Kill, Abandon, LoggerTypes
  <2>2. status' \in [Process -> {"idle", "saving", "ok", "error"}]
    BY <1>11 DEF Kill, Abandon, LoggerTypes
  <2> QED
    BY <1>11, <2>1, <2>2, TypesQuit DEF Kill, LoggerTypes
<1>12. ASSUME NEW p \in Process, StoreStep(p) PROVE LoggerTypes'
  <2>1. ASSUME NEW n \in 1 .. Len(todo[p]), Store(p, n) PROVE LoggerTypes'
    BY <1>12, <2>1, TypesStore DEF StoreStep, Store, LoggerTypes, logger
  <2>2. CASE Succeed(p)
    BY <1>12, <2>2 DEF StoreStep, Succeed, LoggerTypes, logger
  <2>3. CASE Fail(p)
    BY <1>12, <2>3 DEF StoreStep, Fail, LoggerTypes, logger
  <2> QED
    BY <1>12, <2>1, <2>2, <2>3 DEF StoreStep
<1> QED
  BY <1>1, <1>2, <1>3, <1>4, <1>5, <1>6, <1>7, <1>8, <1>9, <1>10, <1>11, <1>12
     DEF LoggerNext, LogStep

-----------------------------------------------------------------------------
\* The rounds and their times.

\* Counting a round on adds one interval.
LEMMA OneMoreRound ==
  ASSUME NEW r \in Nat, NEW s \in Nat
  PROVE  s + (r + 1) * Interval = s + r * Interval + Interval
BY IntervalAssumption

LEMMA DueStep ==
  ASSUME LoggerTypes, DueInv, NEW p \in Process, ProcessStep(p)
  PROVE  DueInv'
<1> DEFINE Due(ph, nx, st, ro) ==
             /\ ph = "off" => ro = 0
             /\ ph # "off" => nx = st + ro * Interval
             /\ ph \notin {"off", "sleep"} => now >= nx
<1>1. now' = now
  BY LogStored
<1>2. ASSUME NEW q \in Process, q # p
      PROVE  Due(phase'[q], next'[q], started'[q], rounds'[q])
  BY <1>2, Frame DEF DueInv
<1>3. ASSUME Quit(p)
      PROVE  phase'[p] = "off" /\ rounds'[p] = 0
  BY <1>3 DEF Quit, Enter, LoggerTypes
<1>4. Due(phase'[p], next'[p], started'[p], rounds'[p])
  <2>1. CASE Start(p)
    <3>1. /\ phase'[p] = "read_thermal" /\ next'[p] = now /\ started'[p] = now
          /\ rounds'[p] = 0
      BY <2>1 DEF Start, In, Enter, LoggerTypes, DueInv
    <3>2. 0 * Interval = 0 /\ now \in Nat
      BY IntervalAssumption DEF LoggerTypes
    <3> QED
      BY <3>1, <3>2
  <2>2. CASE Quit(p)
    BY <1>3, <2>2
  <2>3. CASE /\ phase[p] \notin {"off", "sleep"} /\ phase'[p] # "off"
             /\ UNCHANGED <<next, started, rounds>>
    BY <2>3 DEF DueInv
  <2>4. CASE Sleep(p)
    <3>1. /\ phase[p] = "saving_load" /\ phase'[p] = "sleep"
          /\ next'[p] = next[p] + Interval
          /\ rounds'[p] = rounds[p] + 1
          /\ started'[p] = started[p]
      BY <2>4 DEF Sleep, In, Enter, LoggerTypes
    <3>2. next[p] = started[p] + rounds[p] * Interval
      BY <3>1 DEF DueInv
    <3>3. rounds[p] \in Nat /\ started[p] \in Nat
      BY DEF LoggerTypes
    <3> QED
      BY <3>1, <3>2, <3>3, OneMoreRound
  <2>5. CASE Wake(p)
    <3>1. /\ phase[p] = "sleep" /\ now >= next[p] /\ phase'[p] = "read_thermal"
          /\ UNCHANGED <<next, started, rounds>>
      BY <2>5 DEF Wake, In, Enter, LoggerTypes
    <3> QED
      BY <3>1 DEF DueInv
  <2>6. CASE StoreStep(p)
    BY <2>6 DEF StoreStep, logger, DueInv
  <2>7. CASE (ReadThermal(p) \/ ReadLoad(p) \/ SaveThermal(p) \/ SaveLoad(p)) /\ ~Quit(p)
    <3>1. /\ phase[p] \notin {"off", "sleep"} /\ phase'[p] # "off"
          /\ UNCHANGED <<next, started, rounds>>
      BY <2>7 DEF ReadThermal, ReadLoad, SaveThermal, SaveLoad, In, Enter, LoggerTypes
    <3> QED
      BY <2>3, <3>1
  <2> HIDE DEF Due
  <2> QED
    BY <2>1, <2>2, <2>4, <2>5, <2>6, <2>7 DEF ProcessStep, LogStep, SaveFailed, Kill
<1>5. \A q \in Process : Due(phase'[q], next'[q], started'[q], rounds'[q])
  BY <1>2, <1>4
<1> QED
  BY <1>1, <1>5 DEF DueInv

LEMMA DueNext == LoggerTypes /\ DueInv /\ [LoggerNext]_loggerVars => DueInv'
<1> SUFFICES ASSUME LoggerTypes, DueInv, [LoggerNext]_loggerVars PROVE DueInv'
  OBVIOUS
<1>1. CASE UNCHANGED loggerVars
  BY <1>1 DEF DueInv, loggerVars, logger
<1>2. CASE Tick
  <2>1. UNCHANGED <<phase, next, started, rounds>> /\ now' = now + 1
    BY <1>2 DEF Tick, logger
  <2>2. \A q \in Process : next[q] \in Nat /\ now \in Nat
    BY DEF LoggerTypes
  <2> QED
    BY <2>1, <2>2 DEF DueInv
<1>3. CASE \E p \in Process : ProcessStep(p)
  BY <1>3, DueStep
<1> QED
  BY <1>1, <1>2, <1>3 DEF LoggerNext, ProcessStep

\* No logger begins a round before its time, counted in intervals from its
\* start, however late the rounds before it were.
THEOREM RoundsOnTime == LoggerSpec => []NoEarlyRound
<1>1. LoggerInit => DueInv
  BY DEF LoggerInit, DueInv
<1>2. DueInv => NoEarlyRound
  BY DEF DueInv, NoEarlyRound, Running, In
<1> QED
  BY TypesInit, TypesNext, DueNext, <1>1, <1>2, PTL DEF LoggerSpec

-----------------------------------------------------------------------------
\* The dates of the readings of a round.

LEMMA FreshStep ==
  ASSUME LoggerTypes, DueInv, FreshInv, NEW p \in Process, ProcessStep(p)
  PROVE  FreshInv'
<1> DEFINE Fresh(ph, th, lo, nx) ==
             /\ ph \in HasThermal =>
                  \A i \in DOMAIN th : nx <= th[i].time /\ th[i].time <= now
             /\ ph \in HasBoth =>
                  \A i \in DOMAIN th, j \in DOMAIN lo : th[i].time <= lo[j].time
<1>1. now' = now
  BY LogStored
<1>2. ASSUME NEW q \in Process, q # p
      PROVE  Fresh(phase'[q], thermal'[q], load'[q], next'[q])
  BY <1>2, Frame DEF FreshInv
<1>3. Fresh(phase'[p], thermal'[p], load'[p], next'[p])
  <2>1. CASE Quit(p) \/ Start(p) \/ Sleep(p) \/ Wake(p)
    <3>1. phase'[p] \notin HasThermal \union HasBoth
      BY <2>1 DEF Quit, Start, Sleep, Wake, Enter, LoggerTypes, HasThermal, HasBoth
    <3> QED
      BY <3>1
  <2>2. CASE ReadThermal(p) /\ ~Quit(p)
    <3>1. PICK devs \in ThermalDevices :
            /\ thermal' = [thermal EXCEPT ![p] = Readings(devs, "thermal")]
            /\ Enter(p, "read_load")
            /\ UNCHANGED <<load, next, started, rounds>>
      BY <2>2 DEF ReadThermal
    <3>2. \A i \in DOMAIN Readings(devs, "thermal") :
            Readings(devs, "thermal")[i].time = now
      BY ReadingsTyped DEF LoggerTypes
    <3>3. now >= next[p] /\ now \in Nat /\ next[p] \in Nat
      BY <2>2 DEF ReadThermal, In, DueInv, LoggerTypes
    <3>4. phase'[p] = "read_load" /\ thermal'[p] = Readings(devs, "thermal")
      BY <3>1 DEF Enter, LoggerTypes
    <3> QED
      BY <3>1, <3>2, <3>3, <3>4 DEF HasBoth
  <2>3. CASE ReadLoad(p) /\ ~Quit(p)
    <3>1. PICK devs \in LoadDevices :
            /\ load' = [load EXCEPT ![p] = Readings(devs, "load")]
            /\ Enter(p, "save_thermal")
            /\ UNCHANGED <<thermal, next, started, rounds>>
      BY <2>3 DEF ReadLoad
    <3>2. \A i \in DOMAIN Readings(devs, "load") : Readings(devs, "load")[i].time = now
      BY ReadingsTyped DEF LoggerTypes
    <3>3. load'[p] = Readings(devs, "load")
      BY <3>1 DEF LoggerTypes
    <3>4. \A i \in DOMAIN thermal[p] :
            next[p] <= thermal[p][i].time /\ thermal[p][i].time <= now
      BY <2>3 DEF ReadLoad, In, FreshInv, HasThermal
    <3> QED
      BY <3>1, <3>2, <3>3, <3>4
  <2>4. CASE SaveThermal(p) \/ SaveLoad(p)
    <3>1. /\ phase[p] \in HasBoth /\ phase[p] \in HasThermal
          /\ UNCHANGED <<thermal, load, next>>
      BY <2>4 DEF SaveThermal, SaveLoad, In, HasThermal, HasBoth
    <3> QED
      BY <3>1 DEF FreshInv
  <2>5. CASE StoreStep(p)
    BY <2>5 DEF StoreStep, logger, FreshInv
  <2> HIDE DEF Fresh
  <2> QED
    BY <2>1, <2>2, <2>3, <2>4, <2>5 DEF ProcessStep, LogStep, SaveFailed, Kill
<1>4. \A q \in Process : Fresh(phase'[q], thermal'[q], load'[q], next'[q])
  BY <1>2, <1>3
<1> QED
  BY <1>1, <1>4 DEF FreshInv

LEMMA FreshNext ==
  LoggerTypes /\ DueInv /\ FreshInv /\ [LoggerNext]_loggerVars => FreshInv'
<1> SUFFICES ASSUME LoggerTypes, DueInv, FreshInv, [LoggerNext]_loggerVars
             PROVE  FreshInv'
  OBVIOUS
<1>1. CASE UNCHANGED loggerVars
  BY <1>1 DEF FreshInv, loggerVars, logger
<1>2. CASE Tick
  <2>1. UNCHANGED <<phase, thermal, load, next>> /\ now' = now + 1
    BY <1>2 DEF Tick, logger
  <2>2. ASSUME NEW q \in Process, NEW i \in DOMAIN thermal[q]
        PROVE  thermal[q][i].time \in Nat /\ now \in Nat
    <3>1. thermal[q] \in Seq(Entry)
      BY DEF LoggerTypes
    <3>2. thermal[q][i] \in Entry
      BY <3>1, ElementOfSeq
    <3> QED
      BY <3>2 DEF LoggerTypes, Entry
  <2> QED
    BY <2>1, <2>2 DEF FreshInv
<1>3. CASE \E p \in Process : ProcessStep(p)
  BY <1>3, FreshStep
<1> QED
  BY <1>1, <1>2, <1>3 DEF LoggerNext, ProcessStep

\* What a logger saves was read when the round was due or later, the load not
\* before the temperatures.
THEOREM FreshReadings == LoggerSpec => []ReadingsAreFresh
<1>1. LoggerInit => DueInv /\ FreshInv
  BY DEF LoggerInit, DueInv, FreshInv, HasThermal, HasBoth
<1>2. FreshInv => ReadingsAreFresh
  BY DEF FreshInv, ReadingsAreFresh, HasThermal, HasBoth
<1> QED
  BY TypesInit, TypesNext, DueNext, FreshNext, <1>1, <1>2, PTL DEF LoggerSpec

-----------------------------------------------------------------------------
\* What the file holds of a round.

\* What the file holds of anything it keeps, whoever takes a step.
LEMMA KeptInLog ==
  ASSUME LoggerTypes, NEW p \in Process, ProcessStep(p), NEW s, NEW k \in Nat,
         StartStored(s, k, log)
  PROVE  StartStored(s, k, log')
<1>1. CASE log' = log
  BY <1>1
<1>2. ASSUME NEW n \in 1 .. Len(todo[p]), Store(p, n)
      PROVE  StartStored(s, k, log')
  <2>1. todo[p] \in Seq(Entry) /\ Len(todo[p]) \in Nat
    BY DEF LoggerTypes
  <2>2. \A i \in 1 .. n : todo[p][i] \in Entry
    BY <2>1, ElementOfSeq
  <2>3. SubSeq(todo[p], 1, n) \in Seq(Entry)
    BY <2>1, <2>2, SubSeqProperties
  <2> QED
    BY <1>2, <2>3, StillStored DEF Store, LoggerTypes
<1> QED
  BY <1>1, <1>2, LogStored

\* The round is a sequence: the temperatures, then the load.
LEMMA RoundTyped ==
  ASSUME LoggerTypes, NEW p \in Process
  PROVE  /\ Round(p) \in Seq(Entry)
         /\ Len(Round(p)) = Len(thermal[p]) + Len(load[p])
         /\ Len(thermal[p]) \in Nat /\ Len(load[p]) \in Nat
BY ConcatProperties DEF LoggerTypes, Round

\* rest is the part of s from l on.
PartOf(rest, l, s) ==
  /\ l + Len(rest) <= Len(s)
  /\ \A k \in Nat, n \in Nat \ {0} :
       k + n <= Len(rest) =>
         SubSeq(rest, k + 1, k + n) = SubSeq(s, l + k + 1, l + k + n)

\* The vectors of the two calls of save() are parts of the round.
LEMMA PartsOfRound ==
  ASSUME LoggerTypes, NEW p \in Process
  PROVE  /\ PartOf(thermal[p], 0, Round(p))
         /\ PartOf(load[p], Len(thermal[p]), Round(p))
<1> DEFINE th == thermal[p]
           lo == load[p]
<1>1. th \in Seq(Entry) /\ lo \in Seq(Entry) /\ Len(th) \in Nat /\ Len(lo) \in Nat
  BY DEF LoggerTypes
<1>2. Len(th \o lo) = Len(th) + Len(lo)
  BY <1>1, ConcatProperties
<1> HIDE DEF th, lo
<1>3. ASSUME NEW k \in Nat, NEW n \in Nat \ {0}, k + n <= Len(th)
      PROVE  SubSeq(th, k + 1, k + n) = SubSeq(th \o lo, 0 + k + 1, 0 + k + n)
  <2>1. /\ k + 1 \in 1 .. Len(th) /\ k + n \in 1 .. Len(th)
        /\ 0 + k + 1 = k + 1 /\ 0 + k + n = k + n
    BY <1>1, <1>3
  <2>2. SubSeq(th \o lo, k + 1, k + n) = SubSeq(th, k + 1, k + n)
    BY <1>1, <2>1, SubSeqOfConcat1
  <2> QED
    BY <2>1, <2>2
<1>4. ASSUME NEW k \in Nat, NEW n \in Nat \ {0}, k + n <= Len(lo)
      PROVE  SubSeq(lo, k + 1, k + n) = SubSeq(th \o lo, Len(th) + k + 1, Len(th) + k + n)
  <2> DEFINE a == Len(th) + k + 1
             b == Len(th) + k + n
  <2>1. /\ a \in Len(th) + 1 .. Len(th) + Len(lo)
        /\ b \in Len(th) + 1 .. Len(th) + Len(lo)
        /\ a - Len(th) = k + 1 /\ b - Len(th) = k + n
    BY <1>1, <1>4
  <2> HIDE DEF a, b
  <2>2. SubSeq(th \o lo, a, b) = SubSeq(lo, a - Len(th), b - Len(th))
    BY <1>1, <2>1, SubSeqOfConcat2
  <2>3. SubSeq(th \o lo, a, b) = SubSeq(lo, k + 1, k + n)
    BY <2>1, <2>2
  <2> QED
    BY <2>3 DEF a, b
<1>5. PartOf(th, 0, th \o lo) /\ PartOf(lo, Len(th), th \o lo)
  BY <1>1, <1>2, <1>3, <1>4 DEF PartOf
<1> QED
  BY <1>5 DEF th, lo, Round

\* What the store does for a call of save() brings it on by some readings, or
\* to its end.
LEMMA CallStep ==
  ASSUME LoggerTypes, NEW p \in Process, StoreStep(p),
         NEW rest \in Seq(Entry), NEW l \in Nat, NEW s \in Seq(Entry),
         PartOf(rest, l, s), s = Round(p), CallInv(p, rest, l)
  PROVE  /\ status'[p] # "idle"
         /\ status'[p] = "saving" =>
              \E k \in 0 .. Len(rest) :
                /\ todo'[p] = SubSeq(rest, k + 1, Len(rest))
                /\ StartStored(s, l + k, log')
         /\ status'[p] = "ok" => StartStored(s, l + Len(rest), log')
<1>1. PICK k \in 0 .. Len(rest) :
        /\ todo[p] = SubSeq(rest, k + 1, Len(rest))
        /\ StartStored(s, l + k, log)
  BY DEF CallInv, StoreStep, Store, Succeed, Fail
<1>2. /\ Len(rest) \in Nat /\ k \in Nat /\ l + k \in Nat
      /\ todo[p] \in Seq(Entry) /\ Len(todo[p]) = Len(rest) - k
  <2>1. Len(rest) \in Nat /\ \A i \in k + 1 .. Len(rest) : rest[i] \in Entry
    BY ElementOfSeq, LenProperties
  <2>2. /\ todo[p] \in Seq(Entry)
        /\ Len(todo[p]) = IF k + 1 <= Len(rest) THEN Len(rest) - (k + 1) + 1 ELSE 0
    BY <1>1, <2>1, SubSeqProperties
  <2> QED
    BY <2>1, <2>2
<1>3. ASSUME NEW n \in 1 .. Len(todo[p]), Store(p, n)
      PROVE  /\ status'[p] = "saving"
             /\ k + n \in 0 .. Len(rest)
             /\ todo'[p] = SubSeq(rest, k + n + 1, Len(rest))
             /\ StartStored(s, l + (k + n), log')
  <2>1. status' = status /\ status[p] = "saving"
    BY <1>3 DEF Store
  <2>2. n \in 1 .. Len(rest) - k /\ n \in Nat \ {0} /\ k + n <= Len(rest)
    BY <1>2
  <2>3. /\ SubSeq(todo[p], 1, n) = SubSeq(rest, k + 1, k + n)
        /\ SubSeq(todo[p], n + 1, Len(todo[p])) = SubSeq(rest, k + n + 1, Len(rest))
    BY <1>1, <1>2, <2>2, StretchOfRest
  <2>4. /\ log' = log \o SubSeq(todo[p], 1, n)
        /\ todo'[p] = SubSeq(todo[p], n + 1, Len(todo[p]))
    BY <1>3 DEF Store, LoggerTypes
  <2>5. log' = log \o SubSeq(s, l + k + 1, l + k + n)
    BY <1>2, <2>2, <2>3, <2>4 DEF PartOf
  <2>6. Len(s) \in Nat /\ (l + k) + n <= Len(s) /\ (l + k) + n = l + (k + n)
    BY <1>2, <2>2, LenProperties DEF PartOf
  <2>7. StartStored(s, (l + k) + n, log \o SubSeq(s, (l + k) + 1, (l + k) + n))
    BY <1>1, <1>2, <2>2, <2>6, MoreStored DEF LoggerTypes
  <2>8. StartStored(s, l + (k + n), log')
    BY <2>5, <2>6, <2>7
  <2>9. k + n \in 0 .. Len(rest)
    BY <1>2, <2>2
  <2> QED
    BY <2>1, <2>3, <2>4, <2>8, <2>9
<1>4. ASSUME Succeed(p)
      PROVE  status'[p] = "ok" /\ StartStored(s, l + Len(rest), log')
  <2>1. Len(todo[p]) = 0
    BY <1>4 DEF Succeed
  <2>2. k = Len(rest)
    BY <1>2, <2>1
  <2> QED
    BY <1>1, <1>4, <2>2 DEF Succeed, LoggerTypes
<1>5. ASSUME Fail(p)
      PROVE  status'[p] = "error"
  BY <1>5 DEF Fail, LoggerTypes
<1> QED
  BY <1>3, <1>4, <1>5 DEF StoreStep

LEMMA RoundStep ==
  ASSUME LoggerTypes, RoundInv, NEW p \in Process, ProcessStep(p)
  PROVE  RoundInv'
<1> DEFINE Rounds(q) ==
             /\ status[q] = "saving" => phase[q] \in Saving
             /\ phase[q] = "saving_thermal" => CallInv(q, thermal[q], 0)
             /\ phase[q] = "saving_load" => CallInv(q, load[q], Len(thermal[q]))
             /\ phase[q] = "sleep" => StartStored(Round(q), Len(Round(q)), log)
<1>1. ASSUME NEW q \in Process
      PROVE  Rounds(q)
  BY DEF RoundInv
<1>2. ASSUME NEW q \in Process
      PROVE  /\ Len(thermal[q]) \in Nat /\ Len(load[q]) \in Nat
             /\ thermal[q] \in Seq(Entry) /\ load[q] \in Seq(Entry)
             /\ Round(q) \in Seq(Entry)
             /\ Len(Round(q)) = Len(thermal[q]) + Len(load[q])
  BY RoundTyped DEF LoggerTypes
<1>3. ASSUME NEW q \in Process, q # p
      PROVE  Rounds(q)'
  <2>1. /\ phase'[q] = phase[q] /\ thermal'[q] = thermal[q] /\ load'[q] = load[q]
        /\ todo'[q] = todo[q] /\ status'[q] = status[q]
        /\ Round(q)' = Round(q)
    BY <1>3, Frame DEF Round
  <2>2. ASSUME NEW rest \in Seq(Entry), NEW l \in Nat, CallInv(q, rest, l)
        PROVE  /\ status'[q] # "idle"
               /\ status'[q] = "saving" =>
                    \E k \in 0 .. Len(rest) :
                      /\ todo'[q] = SubSeq(rest, k + 1, Len(rest))
                      /\ StartStored(Round(q)', l + k, log')
               /\ status'[q] = "ok" => StartStored(Round(q)', l + Len(rest), log')
    <3>1. Len(rest) \in Nat /\ \A k \in 0 .. Len(rest) : l + k \in Nat
      BY LenProperties
    <3>2. \A k \in 0 .. Len(rest) :
            StartStored(Round(q), l + k, log) => StartStored(Round(q), l + k, log')
      BY <3>1, KeptInLog
    <3>3. Len(rest) \in 0 .. Len(rest)
      BY <3>1
    <3> QED
      BY <2>1, <2>2, <3>2, <3>3, Zenon DEF CallInv
  <2>3. phase'[q] = "saving_thermal" => CallInv(q, thermal[q], 0)'
    BY <1>1, <1>2, <2>1, <2>2 DEF CallInv
  <2>4. phase'[q] = "saving_load" => CallInv(q, load[q], Len(thermal[q]))'
    BY <1>1, <1>2, <2>1, <2>2 DEF CallInv
  <2>5. ASSUME phase'[q] = "sleep"
        PROVE  StartStored(Round(q), Len(Round(q)), log)'
    <3>1. Len(Round(q)) \in Nat /\ StartStored(Round(q), Len(Round(q)), log)
      <4>1. phase[q] = "sleep"
        BY <2>1, <2>5
      <4>2. Round(q) \in Seq(Entry)
        BY <1>2
      <4> QED
        BY <1>1, <4>1, <4>2, LenProperties
    <3>2. StartStored(Round(q), Len(Round(q)), log')
      BY <3>1, KeptInLog
    <3> QED
      BY <2>1, <3>2
  <2> QED
    BY <1>1, <2>1, <2>3, <2>4, <2>5
<1>4. Rounds(p)'
  <2>1. CASE Start(p) \/ ReadThermal(p) \/ ReadLoad(p) \/ Wake(p) \/ SaveFailed(p)
    <3>1. /\ phase'[p] \notin Saving /\ phase'[p] # "sleep"
          /\ status' = status
      BY <2>1 DEF Start, ReadThermal, ReadLoad, Wake, SaveFailed, Quit, Enter, Saving,
                  LoggerTypes, logVars
    <3>2. status[p] # "saving"
      BY <1>1, <2>1 DEF Start, ReadThermal, ReadLoad, Wake, SaveFailed, In, Saving
    <3> QED
      BY <3>1, <3>2 DEF Saving
  <2>2. CASE Kill(p)
    <3>1. phase'[p] = "off" /\ status'[p] = "idle"
      BY <2>2 DEF Kill, Abandon, Quit, Enter, LoggerTypes
    <3> QED
      BY <3>1
  <2>3. CASE SaveThermal(p)
    <3>1. /\ phase'[p] = "saving_thermal" /\ status'[p] = "saving"
          /\ todo'[p] = thermal[p] /\ thermal' = thermal
      BY <2>3 DEF SaveThermal, Begin, Enter, LoggerTypes
    <3>2. thermal[p] = SubSeq(thermal[p], 0 + 1, Len(thermal[p])) /\ 0 + 0 = 0
      <4>1. thermal[p] = SubSeq(thermal[p], 1, Len(thermal[p]))
        BY <1>2, SubSeqFull
      <4>2. 0 + 1 = 1 /\ 0 + 0 = 0
        OBVIOUS
      <4> QED
        BY <4>1, <4>2, Zenon
    <3>3. StartStored(Round(p)', 0, log')
      BY NothingStored
    <3>4. 0 \in 0 .. Len(thermal[p])
      BY <1>2
    <3>5. CallInv(p, thermal[p], 0)'
      BY <3>1, <3>2, <3>3, <3>4 DEF CallInv
    <3> QED
      BY <3>1, <3>5 DEF Saving
  <2>4. CASE SaveLoad(p)
    <3>1. /\ phase[p] = "saving_thermal" /\ status[p] = "ok"
          /\ phase'[p] = "saving_load" /\ status'[p] = "saving"
          /\ todo'[p] = load[p] /\ UNCHANGED <<thermal, load, log>>
      BY <2>4 DEF SaveLoad, In, Begin, Enter, LoggerTypes
    <3>2. load[p] = SubSeq(load[p], 0 + 1, Len(load[p]))
      <4>1. load[p] = SubSeq(load[p], 1, Len(load[p]))
        BY <1>2, SubSeqFull
      <4>2. 0 + 1 = 1
        OBVIOUS
      <4> QED
        BY <4>1, <4>2, Zenon
    <3>3. StartStored(Round(p)', Len(thermal[p]) + 0, log')
      <4>1. StartStored(Round(p), 0 + Len(thermal[p]), log)
        BY <1>1, <3>1 DEF CallInv
      <4>2. 0 + Len(thermal[p]) = Len(thermal[p]) + 0
        BY <1>2
      <4> QED
        BY <3>1, <4>1, <4>2 DEF Round
    <3>4. 0 \in 0 .. Len(load[p])
      BY <1>2
    <3>5. CallInv(p, load[p], Len(thermal[p]))'
      BY <3>1, <3>2, <3>3, <3>4 DEF CallInv
    <3> QED
      BY <3>1, <3>5 DEF Saving
  <2>5. CASE Sleep(p)
    <3>1. /\ phase[p] = "saving_load" /\ status[p] = "ok"
          /\ phase'[p] = "sleep" /\ UNCHANGED <<thermal, load, log, status>>
      BY <2>5 DEF Sleep, In, Enter, LoggerTypes, logVars
    <3>2. StartStored(Round(p), Len(thermal[p]) + Len(load[p]), log)
      BY <1>1, <3>1 DEF CallInv
    <3>3. StartStored(Round(p), Len(Round(p)), log)'
      BY <1>2, <3>1, <3>2 DEF Round
    <3> QED
      BY <3>1, <3>3
  <2>6. CASE StoreStep(p)
    <3>1. UNCHANGED <<phase, thermal, load>> /\ Round(p)' = Round(p)
      BY <2>6 DEF StoreStep, logger, Round
    <3>2. status[p] = "saving"
      BY <2>6 DEF StoreStep, Store, Succeed, Fail
    <3>3. CASE phase[p] = "saving_thermal"
      <4>1. CallInv(p, thermal[p], 0)'
        <5>1. PartOf(thermal[p], 0, Round(p)) /\ CallInv(p, thermal[p], 0)
          BY <1>1, <3>3, PartsOfRound
        <5>2. 0 \in Nat /\ thermal[p] \in Seq(Entry) /\ Round(p) \in Seq(Entry)
          BY <1>2
        <5>3. /\ status'[p] # "idle"
              /\ status'[p] = "saving" =>
                   \E k \in 0 .. Len(thermal[p]) :
                     /\ todo'[p] = SubSeq(thermal[p], k + 1, Len(thermal[p]))
                     /\ StartStored(Round(p), 0 + k, log')
              /\ status'[p] = "ok" => StartStored(Round(p), 0 + Len(thermal[p]), log')
          BY <2>6, <5>1, <5>2, CallStep
        <5> QED
          BY <3>1, <5>3 DEF CallInv
      <4> QED
        BY <3>1, <3>3, <4>1 DEF Saving
    <3>4. CASE phase[p] = "saving_load"
      <4>1. CallInv(p, load[p], Len(thermal[p]))'
        <5>1. PartOf(load[p], Len(thermal[p]), Round(p)) /\ CallInv(p, load[p], Len(thermal[p]))
          BY <1>1, <3>4, PartsOfRound
        <5>2. Len(thermal[p]) \in Nat /\ load[p] \in Seq(Entry) /\ Round(p) \in Seq(Entry)
          BY <1>2
        <5>3. /\ status'[p] # "idle"
              /\ status'[p] = "saving" =>
                   \E k \in 0 .. Len(load[p]) :
                     /\ todo'[p] = SubSeq(load[p], k + 1, Len(load[p]))
                     /\ StartStored(Round(p), Len(thermal[p]) + k, log')
              /\ status'[p] = "ok" => StartStored(Round(p), Len(thermal[p]) + Len(load[p]), log')
          BY <2>6, <5>1, <5>2, CallStep
        <5> QED
          BY <3>1, <5>3 DEF CallInv
      <4> QED
        BY <3>1, <3>4, <4>1 DEF Saving
    <3> QED
      BY <1>1, <3>2, <3>3, <3>4 DEF Saving
  <2> QED
    BY <2>1, <2>2, <2>3, <2>4, <2>5, <2>6 DEF ProcessStep, LogStep
<1>5. \A q \in Process : Rounds(q)'
  BY <1>3, <1>4
<1> QED
  BY <1>5 DEF RoundInv

LEMMA RoundNext == LoggerTypes /\ RoundInv /\ [LoggerNext]_loggerVars => RoundInv'
<1> SUFFICES ASSUME LoggerTypes, RoundInv, [LoggerNext]_loggerVars PROVE RoundInv'
  OBVIOUS
<1>1. CASE UNCHANGED loggerVars \/ Tick
  <2>1. UNCHANGED <<log, todo, status, phase, thermal, load>>
    BY <1>1 DEF Tick, loggerVars, logVars, logger
  <2> QED
    BY <2>1 DEF RoundInv, CallInv, Round
<1>2. CASE \E p \in Process : ProcessStep(p)
  BY <1>2, RoundStep
<1> QED
  BY <1>1, <1>2 DEF LoggerNext, ProcessStep

\* A logger that sleeps has the readings of its round in the file, all of them
\* and in order, the temperatures before the load, whatever the other loggers
\* store between them and whichever of its earlier rounds failed half-way.
THEOREM SleepingHasStored == LoggerSpec => []RoundStored
<1>1. LoggerInit => RoundInv
  BY DEF LoggerInit, Init, RoundInv
<1>2. LoggerTypes /\ RoundInv => RoundStored
  BY RoundTyped, AllStored DEF RoundInv, RoundStored, In, Round
<1> QED
  BY TypesInit, TypesNext, RoundNext, <1>1, <1>2, PTL DEF LoggerSpec

-----------------------------------------------------------------------------
\* The order of the file, as long as it has one logger only.

\* Every date is a number.
LEMMA DatesTyped ==
  ASSUME LoggerTypes
  PROVE  /\ now \in Nat
         /\ \A i \in DOMAIN log : log[i].time \in Nat
         /\ \A p \in Process : /\ \A i \in DOMAIN thermal[p] : thermal[p][i].time \in Nat
                               /\ \A i \in DOMAIN load[p] : load[p][i].time \in Nat
<1>1. ASSUME NEW s \in Seq(Entry), NEW i \in DOMAIN s
      PROVE  s[i].time \in Nat
  <2>1. s[i] \in Entry
    BY <1>1, ElementOfSeq, LenProperties
  <2> QED
    BY <2>1 DEF Entry
<1> QED
  BY <1>1 DEF LoggerTypes

\* What the store adds to the file is among what the logger passed to save().
LEMMA AddedToLog ==
  ASSUME LoggerTypes, RoundInv, NEW p \in Process, NEW n \in 1 .. Len(todo[p]), Store(p, n),
         NEW i \in DOMAIN log'
  PROVE  \/ i \in DOMAIN log /\ log'[i] = log[i]
         \/ /\ \A j \in DOMAIN log : j < i
            /\ \/ /\ phase[p] = "saving_thermal"
                  /\ \E j \in DOMAIN thermal[p] : log'[i] = thermal[p][j]
               \/ /\ phase[p] = "saving_load"
                  /\ \E j \in DOMAIN load[p] : log'[i] = load[p][j]
<1> DEFINE u == SubSeq(todo[p], 1, n)
<1>1. todo[p] \in Seq(Entry) /\ Len(todo[p]) \in Nat /\ log \in Seq(Entry)
  BY DEF LoggerTypes
<1>2. /\ u \in Seq(Entry) /\ Len(u) = n
      /\ \A j \in 1 .. n : u[j] = todo[p][j]
  <2>1. \A j \in 1 .. n : todo[p][j] \in Entry
    BY <1>1, ElementOfSeq
  <2> QED
    BY <1>1, <2>1, SubSeqProperties
<1>3. log' = log \o u /\ status[p] = "saving"
  BY DEF Store
<1> HIDE DEF u
<1>4. /\ DOMAIN log = 1 .. Len(log) /\ Len(log) \in Nat
      /\ DOMAIN log' = 1 .. Len(log) + n
      /\ \A j \in 1 .. Len(log) + n :
           log'[j] = IF j <= Len(log) THEN log[j] ELSE u[j - Len(log)]
  <2>1. /\ log \o u \in Seq(Entry) /\ Len(log \o u) = Len(log) + n
        /\ \A j \in 1 .. Len(log) + n :
             (log \o u)[j] = IF j <= Len(log) THEN log[j] ELSE u[j - Len(log)]
    BY <1>1, <1>2, ConcatProperties
  <2>2. DOMAIN (log \o u) = 1 .. Len(log) + n
    BY <2>1, LenProperties
  <2> QED
    BY <1>1, <1>3, <2>1, <2>2, LenProperties
<1>5. CASE i <= Len(log)
  BY <1>4, <1>5
<1>6. CASE i > Len(log)
  <2> DEFINE j == i - Len(log)
  <2>1. j \in 1 .. n /\ j \in 1 .. Len(todo[p]) /\ \A m \in DOMAIN log : m < i
    BY <1>1, <1>4, <1>6
  <2>2. log'[i] = todo[p][j]
    BY <1>2, <1>4, <1>6, <2>1
  <2> HIDE DEF j
  <2>3. ASSUME NEW rest \in Seq(Entry), NEW k \in 0 .. Len(rest),
               todo[p] = SubSeq(rest, k + 1, Len(rest))
        PROVE  \E m \in DOMAIN rest : log'[i] = rest[m]
    <3>1. /\ Len(rest) \in Nat /\ DOMAIN rest = 1 .. Len(rest)
          /\ \A m \in k + 1 .. Len(rest) : rest[m] \in Entry
      BY ElementOfSeq, LenProperties
    <3>2. /\ Len(todo[p]) = IF k + 1 <= Len(rest) THEN Len(rest) - (k + 1) + 1 ELSE 0
          /\ \A m \in 1 .. Len(rest) - (k + 1) + 1 : todo[p][m] = rest[(k + 1) + m - 1]
      BY <2>3, <3>1, SubSeqProperties
    <3>3. j \in 1 .. Len(rest) - (k + 1) + 1 /\ (k + 1) + j - 1 \in DOMAIN rest
      BY <2>1, <3>1, <3>2
    <3> QED
      BY <2>2, <3>2, <3>3
  <2>4. phase[p] = "saving_thermal" \/ phase[p] = "saving_load"
    BY <1>3 DEF RoundInv, Saving
  <2>5. CASE phase[p] = "saving_thermal"
    <3>1. \E k \in 0 .. Len(thermal[p]) :
            todo[p] = SubSeq(thermal[p], k + 1, Len(thermal[p]))
      BY <1>3, <2>5 DEF RoundInv, CallInv
    <3> QED
      BY <2>1, <2>3, <2>5, <3>1 DEF LoggerTypes
  <2>6. CASE phase[p] = "saving_load"
    <3>1. \E k \in 0 .. Len(load[p]) : todo[p] = SubSeq(load[p], k + 1, Len(load[p]))
      BY <1>3, <2>6 DEF RoundInv, CallInv
    <3> QED
      BY <2>1, <2>3, <2>6, <3>1 DEF LoggerTypes
  <2> QED
    BY <2>4, <2>5, <2>6
<1> QED
  BY <1>4, <1>5, <1>6

\* A step of the logger that leaves the file as it is.
LEMMA OrderSameLog ==
  ASSUME LoggerTypes, FileOrdered, NEW p \in Process, Ordered(p), ProcessStep(p),
         log' = log
  PROVE  FileOrdered' /\ Ordered(p)'
<1> USE DEF Ordered
<1>1. now' = now
  BY LogStored
<1>2. FileOrdered'
  BY <1>1 DEF FileOrdered
<1>3. Ordered(p) /\ \A i \in DOMAIN log : log[i].time <= now
  BY DEF FileOrdered
<1>4. Ordered(p)'
  <2>1. CASE Quit(p)
    <3>1. phase'[p] = "off" /\ thermal'[p] = <<>> /\ load'[p] = <<>>
      BY <2>1 DEF Quit, Enter, LoggerTypes
    <3>2. DOMAIN <<>> = {}
      OBVIOUS
    <3> QED
      BY <3>1, <3>2 DEF HasBoth
  <2>2. CASE ReadThermal(p) /\ ~Quit(p)
    <3>1. PICK devs \in ThermalDevices :
            /\ thermal' = [thermal EXCEPT ![p] = Readings(devs, "thermal")]
            /\ Enter(p, "read_load")
            /\ UNCHANGED <<load, next, started, rounds>>
      BY <2>2 DEF ReadThermal
    <3>2. /\ thermal'[p] = Readings(devs, "thermal") /\ phase'[p] = "read_load"
          /\ UNCHANGED load
      BY <3>1 DEF Enter, LoggerTypes
    <3>3. (\A i \in DOMAIN thermal'[p] : thermal'[p][i].time = now) /\ now \in Nat
      BY <3>2, ReadingsTyped DEF LoggerTypes
    <3> QED
      BY <1>1, <1>3, <3>2, <3>3 DEF HasBoth
  <2>3. CASE ReadLoad(p) /\ ~Quit(p)
    <3>1. PICK devs \in LoadDevices :
            /\ load' = [load EXCEPT ![p] = Readings(devs, "load")]
            /\ Enter(p, "save_thermal")
            /\ UNCHANGED <<thermal, next, started, rounds>>
      BY <2>3 DEF ReadLoad
    <3>2. /\ load'[p] = Readings(devs, "load") /\ phase'[p] = "save_thermal"
          /\ UNCHANGED thermal /\ phase[p] = "read_load"
      BY <2>3, <3>1 DEF ReadLoad, In, Enter, LoggerTypes
    <3>3. (\A i \in DOMAIN load'[p] : load'[p][i].time = now) /\ now \in Nat
      BY <3>2, ReadingsTyped DEF LoggerTypes
    <3> QED
      BY <1>1, <1>3, <3>2, <3>3
  <2>4. CASE SaveThermal(p) \/ SaveLoad(p)
    <3>1. /\ UNCHANGED <<thermal, load>>
          /\ \/ phase[p] = "save_thermal" /\ phase'[p] = "saving_thermal"
             \/ phase[p] = "saving_thermal" /\ phase'[p] = "saving_load"
      BY <2>4 DEF SaveThermal, SaveLoad, In, Enter, LoggerTypes
    <3> QED
      BY <1>1, <1>3, <3>1 DEF HasBoth
  <2>5. CASE Start(p) \/ Sleep(p) \/ Wake(p)
    <3>1. /\ UNCHANGED <<thermal, load>>
          /\ phase'[p] \in {"read_thermal", "sleep"}
      BY <2>5 DEF Start, Sleep, Wake, Enter, LoggerTypes
    <3> QED
      BY <1>1, <1>3, <3>1 DEF HasBoth
  <2>6. CASE StoreStep(p)
    BY <1>1, <1>3, <2>6 DEF StoreStep, logger
  <2> HIDE DEF Ordered
  <2> QED
    BY <2>1, <2>2, <2>3, <2>4, <2>5, <2>6 DEF ProcessStep, LogStep, SaveFailed, Kill
<1> HIDE DEF Ordered
<1> QED
  BY <1>2, <1>4

\* And when the store adds readings to it.
LEMMA OrderStore ==
  ASSUME LoggerTypes, FreshInv, RoundInv, FileOrdered, NEW p \in Process, Ordered(p),
         NEW n \in 1 .. Len(todo[p]), Store(p, n), UNCHANGED <<logger, now>>
  PROVE  FileOrdered' /\ Ordered(p)'
<1>1. /\ now \in Nat
      /\ \A i \in DOMAIN log : log[i].time \in Nat
      /\ \A i \in DOMAIN thermal[p] : thermal[p][i].time \in Nat
      /\ \A i \in DOMAIN load[p] : load[p][i].time \in Nat
  BY DatesTyped
<1>2. UNCHANGED <<phase, thermal, load, now>>
  BY DEF logger
<1>3. CASE phase[p] = "saving_thermal"
  <2>1. ASSUME NEW i \in DOMAIN log'
        PROVE  \/ i \in DOMAIN log /\ log'[i] = log[i]
               \/ /\ \A j \in DOMAIN log : j < i
                  /\ \E j \in DOMAIN thermal[p] : log'[i] = thermal[p][j]
    BY <1>3, AddedToLog
  <2>2. ASSUME NEW i \in DOMAIN log'
        PROVE  /\ log'[i].time \in Nat /\ log'[i].time <= now
               /\ \A j \in DOMAIN thermal[p] : log'[i].time <= thermal[p][j].time
               /\ \A j \in DOMAIN load[p] : log'[i].time <= load[p][j].time
    BY <1>1, <1>3, <2>1 DEF FileOrdered, Ordered, FreshInv, HasBoth
  <2>3. ASSUME NEW i \in DOMAIN log', NEW j \in DOMAIN log', i < j
        PROVE  log'[i].time <= log'[j].time
    <3>0. i \in Nat /\ j \in Nat
      <4>1. log' \in Seq(Entry)
        BY TypesStore
      <4> QED
        BY <4>1, LenProperties
    <3>1. CASE j \in DOMAIN log /\ log'[j] = log[j]
      <4>1. i \in DOMAIN log /\ log'[i] = log[i]
        BY <2>1, <2>3, <3>0, <3>1
      <4> QED
        BY <2>3, <3>1, <4>1 DEF FileOrdered
    <3>2. CASE \E m \in DOMAIN thermal[p] : log'[j] = thermal[p][m]
      BY <2>2, <3>2
    <3> QED
      BY <2>1, <3>1, <3>2
  <2> QED
    BY <1>2, <1>3, <2>2, <2>3 DEF FileOrdered, Ordered, HasBoth
<1>4. CASE phase[p] = "saving_load"
  <2>1. ASSUME NEW i \in DOMAIN log'
        PROVE  \/ i \in DOMAIN log /\ log'[i] = log[i]
               \/ /\ \A j \in DOMAIN log : j < i
                  /\ \E j \in DOMAIN load[p] : log'[i] = load[p][j]
    BY <1>4, AddedToLog
  <2>2. ASSUME NEW i \in DOMAIN log'
        PROVE  /\ log'[i].time \in Nat /\ log'[i].time <= now
               /\ \A j \in DOMAIN load[p] : log'[i].time <= load[p][j].time
    BY <1>1, <1>4, <2>1 DEF FileOrdered, Ordered, HasBoth
  <2>3. ASSUME NEW i \in DOMAIN log', NEW j \in DOMAIN log', i < j
        PROVE  log'[i].time <= log'[j].time
    <3>0. i \in Nat /\ j \in Nat
      <4>1. log' \in Seq(Entry)
        BY TypesStore
      <4> QED
        BY <4>1, LenProperties
    <3>1. CASE j \in DOMAIN log /\ log'[j] = log[j]
      <4>1. i \in DOMAIN log /\ log'[i] = log[i]
        BY <2>1, <2>3, <3>0, <3>1
      <4> QED
        BY <2>3, <3>1, <4>1 DEF FileOrdered
    <3>2. CASE \E m \in DOMAIN load[p] : log'[j] = load[p][m]
      BY <2>2, <3>2
    <3> QED
      BY <2>1, <3>1, <3>2
  <2> QED
    BY <1>2, <1>4, <2>2, <2>3 DEF FileOrdered, Ordered, HasBoth
<1> QED
  BY <1>3, <1>4 DEF RoundInv, Saving, Store

\* Whoever takes a step is a user of the file afterwards, and a user stays one.
LEMMA UsersStep ==
  ASSUME LoggerTypes, RoundInv, UsersInv, NEW p \in Process, ProcessStep(p)
  PROVE  UsersInv' /\ p \in users' /\ users \subseteq users'
<1>1. users \subseteq users'
  BY DEF ProcessStep, LogStep, Start, ReadThermal, ReadLoad, SaveThermal, SaveLoad, Sleep,
         Wake, SaveFailed, Kill, StoreStep
<1>2. p \in users'
  <2>1. CASE Start(p)
    BY <2>1 DEF Start
  <2>2. CASE StoreStep(p)
    BY <1>1, <2>2 DEF StoreStep, Store, Succeed, Fail, RoundInv, Saving, UsersInv
  <2>3. CASE LogStep(p) \/ Kill(p)
    <3>1. phase[p] # "off"
      BY <2>3 DEF LogStep, ReadThermal, ReadLoad, SaveThermal, SaveLoad, Sleep, Wake,
                  SaveFailed, Kill, In
    <3> QED
      BY <1>1, <3>1 DEF UsersInv
  <2> QED
    BY <2>1, <2>2, <2>3 DEF ProcessStep
<1>3. UsersInv'
  <2>1. ASSUME NEW q \in Process, q \notin users'
        PROVE  phase'[q] = "off" /\ thermal'[q] = <<>> /\ load'[q] = <<>>
    <3>1. q # p /\ q \notin users
      BY <1>1, <1>2, <2>1
    <3> QED
      BY <3>1, Frame DEF UsersInv
  <2> QED
    BY <2>1 DEF UsersInv
<1> QED
  BY <1>1, <1>2, <1>3

LEMMA OrderNext ==
  LoggerTypes /\ FreshInv /\ RoundInv /\ OrderInv /\ [LoggerNext]_loggerVars => OrderInv'
<1> SUFFICES ASSUME LoggerTypes, FreshInv, RoundInv, OrderInv, [LoggerNext]_loggerVars
             PROVE  OrderInv'
  OBVIOUS
<1>1. CASE UNCHANGED loggerVars
  BY <1>1 DEF OrderInv, UsersInv, Shared, FileOrdered, Ordered, loggerVars, logVars, logger
<1>2. CASE Tick
  <2>1. UNCHANGED <<log, phase, thermal, load, users>> /\ now' = now + 1
    BY <1>2 DEF Tick, logVars, logger
  <2>2. /\ now \in Nat
        /\ \A i \in DOMAIN log : log[i].time \in Nat
        /\ \A q \in Process : /\ \A i \in DOMAIN thermal[q] : thermal[q][i].time \in Nat
                              /\ \A i \in DOMAIN load[q] : load[q][i].time \in Nat
    BY DatesTyped
  <2>3. FileOrdered => FileOrdered'
    BY <2>1, <2>2 DEF FileOrdered
  <2>4. ASSUME NEW q \in Process, Ordered(q)
        PROVE  Ordered(q)'
    BY <2>1, <2>2, <2>4 DEF Ordered
  <2> QED
    BY <2>1, <2>3, <2>4 DEF OrderInv, UsersInv, Shared
<1>3. ASSUME NEW p \in Process, ProcessStep(p)
      PROVE  OrderInv'
  <2>1. UsersInv' /\ p \in users' /\ users \subseteq users'
    BY <1>3, UsersStep DEF OrderInv
  <2>2. ASSUME ~Shared'
        PROVE  FileOrdered' /\ \A q \in (users \intersect Process)' : Ordered(q)'
    <3>1. ~Shared /\ users' = {p}
      BY <2>1, <2>2 DEF Shared
    <3>2. FileOrdered
      BY <3>1 DEF OrderInv
    <3>3. Ordered(p)
      <4>1. CASE p \in users
        BY <3>1, <4>1 DEF OrderInv
      <4>2. CASE p \notin users
        <5>1. phase[p] = "off" /\ thermal[p] = <<>> /\ load[p] = <<>>
          BY <4>2 DEF OrderInv, UsersInv
        <5>2. DOMAIN <<>> = {}
          OBVIOUS
        <5> QED
          BY <5>1, <5>2 DEF Ordered, HasBoth
      <4> QED
        BY <4>1, <4>2
    <3>4. FileOrdered' /\ Ordered(p)'
      <4>1. CASE log' = log
        BY <1>3, <3>2, <3>3, <4>1, OrderSameLog
      <4>2. ASSUME NEW n \in 1 .. Len(todo[p]), Store(p, n), UNCHANGED logger
            PROVE  FileOrdered' /\ Ordered(p)'
        BY <1>3, <3>2, <3>3, <4>2, LogStored, OrderStore
      <4> QED
        BY <1>3, <4>1, <4>2, LogStored
    <3> QED
      BY <3>1, <3>4
  <2> QED
    BY <2>1, <2>2 DEF OrderInv
<1> QED
  BY <1>1, <1>2, <1>3 DEF LoggerNext, ProcessStep

\* A file that only one logger was ever started on is in the order of time,
\* across rounds that fail half-way, kills and restarts.
THEOREM FileInOrder == LoggerSpec => []Chronological
<1>1. LoggerInit => FreshInv /\ RoundInv /\ OrderInv
  BY DEF LoggerInit, Init, FreshInv, RoundInv, OrderInv, UsersInv, FileOrdered, HasThermal,
         HasBoth
<1>2. LoggerInit => DueInv
  BY DEF LoggerInit, DueInv
<1>3. OrderInv => Chronological
  BY DEF OrderInv, FileOrdered, Chronological
<1> QED
  BY TypesInit, TypesNext, DueNext, FreshNext, RoundNext, OrderNext, <1>1, <1>2, <1>3, PTL
     DEF LoggerSpec
=============================================================================
