------------------------------- MODULE Logger -------------------------------
(***************************************************************************)
(* The program thermos-logger (src/logger/Logger.cpp): several loggers that *)
(* each read the sensors and save what they read, round after round, over  *)
(* a store that does what ReadingLog promises.                             *)
(*                                                                         *)
(* Time is the steady clock that Logger::log() sleeps by; it may advance   *)
(* at any moment, by any amount of work or sleep of the loggers.           *)
(***************************************************************************)
EXTENDS ReadingLog, Subsequence

CONSTANTS
  ThermalDevices,  \* the lists of devices thermal::read_all() may come up with
  LoadDevices,     \* the lists of devices load::read_all() may come up with
  Interval,        \* the time between two rounds: 300 seconds in the code
  MaxTime,         \* bound: the clock stops here
  MaxRows,         \* bound: no save starts with this many readings in the file
  MaxTimeShared,   \* bounds in the place of these two once a second logger was
  MaxRowsShared    \* started, which is not done with more time gone or more rows

ASSUME IntervalAssumption == Interval \in Nat \ {0}
ASSUME ListsAssumption ==
  \A devs \in ThermalDevices \union LoadDevices : devs \in Seq({devs[i] : i \in DOMAIN devs})

VARIABLES
  phase,    \* for each process: where Logger::log() is
  thermal,  \* for each process: thermal_readings of this round
  load,     \* for each process: load_readings of this round
  next,     \* for each process: when its next round is due
  now,      \* the steady clock
  started,  \* history: when the process was started
  rounds,   \* history: the rounds the process has completed since
  users     \* history: the processes that were ever started on this file

logger == <<phase, thermal, load, next, started, rounds>>
loggerVars == <<logVars, logger, now, users>>

\* The file is not, or not any more, the file of one logger only.
Shared == \E p, q \in users : p # q

LastTime == IF Shared THEN MaxTimeShared ELSE MaxTime

Full == Len(log) >= (IF Shared THEN MaxRowsShared ELSE MaxRows)

Readings(devs, t) ==
  [i \in DOMAIN devs |-> [dev |-> devs[i], type |-> t, time |-> now]]

LoggerInit ==
  /\ Init
  /\ phase = [p \in Process |-> "off"]
  /\ thermal = [p \in Process |-> <<>>]
  /\ load = [p \in Process |-> <<>>]
  /\ next = [p \in Process |-> 0]
  /\ now = 0
  /\ started = [p \in Process |-> 0]
  /\ rounds = [p \in Process |-> 0]
  /\ users = {}

-----------------------------------------------------------------------------

In(p, here) == phase[p] = here

Enter(p, there) == phase' = [phase EXCEPT ![p] = there]

\* The program ends, and its variables with it.
Quit(p) ==
  /\ Enter(p, "off")
  /\ thermal' = [thermal EXCEPT ![p] = <<>>]
  /\ load' = [load EXCEPT ![p] = <<>>]
  /\ next' = [next EXCEPT ![p] = 0]
  /\ started' = [started EXCEPT ![p] = 0]
  /\ rounds' = [rounds EXCEPT ![p] = 0]

\* The program is started, for the first time or again.
Start(p) ==
  /\ In(p, "off")
  /\ \/ users \in {{}, {p}} \/ Shared
     \/ now <= MaxTimeShared /\ Len(log) <= MaxRowsShared
  /\ Enter(p, "read_thermal")
  /\ next' = [next EXCEPT ![p] = now]
  /\ started' = [started EXCEPT ![p] = now]
  /\ users' = users \union {p}
  /\ UNCHANGED <<logVars, thermal, load, rounds, now>>

\* thermal::read_all() returns readings; or it returns an error or nothing.
ReadThermal(p) ==
  /\ In(p, "read_thermal")
  /\ \/ \E devs \in ThermalDevices :
          /\ thermal' = [thermal EXCEPT ![p] = Readings(devs, "thermal")]
          /\ Enter(p, "read_load")
          /\ UNCHANGED <<load, next, started, rounds>>
     \/ Quit(p)
  /\ UNCHANGED <<logVars, now, users>>

ReadLoad(p) ==
  /\ In(p, "read_load")
  /\ \/ \E devs \in LoadDevices :
          /\ load' = [load EXCEPT ![p] = Readings(devs, "load")]
          /\ Enter(p, "save_thermal")
          /\ UNCHANGED <<thermal, next, started, rounds>>
     \/ Quit(p)
  /\ UNCHANGED <<logVars, now, users>>

\* storage->save(thermal_readings_v, file_name) is called.
SaveThermal(p) ==
  /\ In(p, "save_thermal")
  /\ ~Full
  /\ Begin(p, thermal[p])
  /\ Enter(p, "saving_thermal")
  /\ UNCHANGED <<thermal, load, next, started, rounds, now, users>>

\* Mutant: the result of the first save is not looked at.
SaveLoadAfterError(p) ==
  /\ In(p, "saving_thermal")
  /\ status[p] \in {"ok", "error"}
  /\ Begin(p, load[p])
  /\ Enter(p, "saving_load")
  /\ UNCHANGED <<thermal, load, next, started, rounds, now, users>>

\* It has returned; storage->save(load_readings_v, file_name) is called.
SaveLoad(p) ==
  /\ In(p, "saving_thermal")
  /\ status[p] = "ok"
  /\ Begin(p, load[p])
  /\ Enter(p, "saving_load")
  /\ UNCHANGED <<thermal, load, next, started, rounds, now, users>>

\* Mutant: the next round is due one interval after the end of this one.
SleepDrifts(p) ==
  /\ In(p, "saving_load")
  /\ status[p] = "ok"
  /\ Enter(p, "sleep")
  /\ next' = [next EXCEPT ![p] = now + Interval]
  /\ rounds' = [rounds EXCEPT ![p] = @ + 1]
  /\ UNCHANGED <<logVars, thermal, load, started, now, users>>

\* Both are saved: next += interval, then sleep_until(next).
Sleep(p) ==
  /\ In(p, "saving_load")
  /\ status[p] = "ok"
  /\ Enter(p, "sleep")
  /\ next' = [next EXCEPT ![p] = @ + Interval]
  /\ rounds' = [rounds EXCEPT ![p] = @ + 1]
  /\ UNCHANGED <<logVars, thermal, load, started, now, users>>

\* Mutant: the sensors are read before the loop, so every round saves the same.
WakeKeepsReadings(p) ==
  /\ In(p, "sleep")
  /\ now >= next[p]
  /\ Enter(p, "save_thermal")
  /\ UNCHANGED <<logVars, thermal, load, next, started, rounds, now, users>>

\* Mutant: it does not sleep.
WakeAtOnce(p) ==
  /\ In(p, "sleep")
  /\ Enter(p, "read_thermal")
  /\ UNCHANGED <<logVars, thermal, load, next, started, rounds, now, users>>

Wake(p) ==
  /\ In(p, "sleep")
  /\ now >= next[p]
  /\ Enter(p, "read_thermal")
  /\ UNCHANGED <<logVars, thermal, load, next, started, rounds, now, users>>

\* One of the two calls of save() has returned an error, which log() returns:
\* the program ends.
SaveFailed(p) ==
  /\ phase[p] \in {"saving_thermal", "saving_load"}
  /\ status[p] = "error"
  /\ Quit(p)
  /\ UNCHANGED <<logVars, now, users>>

\* The process is killed, wherever it is.
Kill(p) ==
  /\ ~In(p, "off")
  /\ Abandon(p)
  /\ Quit(p)
  /\ UNCHANGED <<now, users>>

\* The store at work on the call of p.
StoreStep(p) ==
  /\ \/ \E n \in 1 .. Len(todo[p]) : Store(p, n)
     \/ Succeed(p)
     \/ Fail(p)
  /\ UNCHANGED <<logger, now, users>>

LogStep(p) ==
  \/ ReadThermal(p)
  \/ ReadLoad(p)
  \/ SaveThermal(p)
  \/ SaveLoad(p)
  \/ Sleep(p)
  \/ Wake(p)
  \/ SaveFailed(p)

Tick ==
  /\ now < LastTime
  /\ now' = now + 1
  /\ UNCHANGED <<logVars, logger, users>>

LoggerNext ==
  \/ \E p \in Process :
       \/ Start(p)
       \/ LogStep(p)
       \/ StoreStep(p)
       \/ Kill(p)
  \/ Tick

LoggerSpec == LoggerInit /\ [][LoggerNext]_loggerVars

\* A running program goes on, and a call of save() comes to its end.
LoggerFairSpec ==
  /\ LoggerSpec
  /\ \A p \in Process :
       /\ WF_loggerVars(LogStep(p))
       /\ WF_loggerVars(StoreStep(p))

-----------------------------------------------------------------------------
\* Properties.

Running(p) == ~In(p, "off")

\* A logger that sleeps has stored everything it read in the round before: the
\* temperatures, then the load, although other loggers write to the same file
\* and although each of the two saves may fail half-way.
RoundStored ==
  \A p \in Process :
    In(p, "sleep") => IsSubsequence(thermal[p] \o load[p], log)

\* A file that only one logger was ever started on is in the order of time, also
\* across errors, kills and restarts.  (The steady clock stands for the wall
\* clock here, which must not be set back.)
Chronological ==
  ~Shared => \A i, j \in DOMAIN log : i < j => log[i].time <= log[j].time

\* The load readings are never older than the temperatures of their round, and
\* neither is older than the time the round was due.
ReadingsAreFresh ==
  \A p \in Process :
    phase[p] \in {"save_thermal", "saving_thermal", "saving_load"} =>
      \A i \in DOMAIN thermal[p], j \in DOMAIN load[p] :
        next[p] <= thermal[p][i].time /\ thermal[p][i].time <= load[p][j].time

\* "logs new data every five minutes" (src/logger/readme.md): no round begins
\* before its time, however late the rounds before it were.
NoEarlyRound ==
  \A p \in Process :
    Running(p) /\ ~In(p, "sleep") => now >= started[p] + rounds[p] * Interval

\* And no round is left out: once the time of round k has come, the logger gets
\* to complete it, one round after the other without a pause when it is late,
\* unless it stops with an error or is killed.
KeepsUp ==
  \A p \in Process, k \in 0 .. MaxTime \div Interval :
    (Running(p) /\ now >= started[p] + k * Interval)
      ~> (rounds[p] > k \/ ~Running(p) \/ Full)
=============================================================================
