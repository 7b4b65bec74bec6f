---------------------------- MODULE ThermalLinux ----------------------------
(***************************************************************************)
(* linux_like::thermal::read_all() (lib/thermal/read_linux.cpp): a walk    *)
(* over the thermal zones and then over the hwmon devices of sysfs, whose  *)
(* files and directories may come, go and break while the walk goes on.    *)
(*                                                                         *)
(* A zone is a directory thermal_zoneN with its files type and temp.  A    *)
(* sensor is a pair of files tempN_label and tempN_input in one of the two *)
(* places of a hwmon device: in the directory device, or beside it.        *)
(*                                                                         *)
(* A directory iterator is live: it delivers what was there when it was    *)
(* created and has not gone, each entry once, in any order, and may or may *)
(* not deliver what comes later.  Any of its steps may fail.               *)
(***************************************************************************)
EXTENDS Naturals, Sequences, FiniteSets

CONSTANTS
  Zone,        \* the entries of /sys/devices/virtual/thermal
  Hwmon,       \* the entries of /sys/class/hwmon
  Sensor,      \* the sensors of the hwmon devices
  HwmonOf,     \* HwmonOf[s]: the hwmon device of sensor s
  PlaceOf,     \* PlaceOf[s]: "device" or "self", where its files are
  MaxFaults,   \* bound: this many of its files and directories are broken when
               \* a walk begins
  MaxChanges   \* bound: this many things of sysfs change during a walk

Root == {"thermal", "hwmon"}
Place == {"device", "self"}

ASSUME HwmonOfAssumption == HwmonOf \in [Sensor -> Hwmon]
ASSUME PlaceOfAssumption == PlaceOf \in [Sensor -> Place]
ASSUME DisjointAssumption == Zone \intersect Sensor = {} /\ Hwmon \intersect Sensor = {}
ASSUME BoundsAssumption == MaxFaults \in Nat /\ MaxChanges \in Nat

VARIABLES
  state,      \* "good", "bad" (cannot be read) or "absent", of zones and sensors
  present,    \* the hwmon entries that are directories
  listable,   \* the root directories that can be listed
  places,     \* places[h]: which of its two directories can be listed
  walk,       \* where the walk is
  todo,       \* the entries of the current root directory that its iterator has
              \* to deliver yet: they were there when it was created
  visited,    \* those that it has delivered
  hwmon,      \* the hwmon device that is being visited
  sensors,    \* as todo, of the iterator over its sensors
  seen,       \* as visited
  sensor,     \* the sensor whose files were found to exist
  readings,   \* the readings collected so far, as what they were read from
  outcome,    \* what read_all() returned, or that it threw an exception
  changed     \* history: what changed in sysfs since the walk began

sysfs == <<state, present, listable, places>>
walkVars == <<walk, todo, visited, hwmon, sensors, seen, sensor, readings, outcome>>
linuxVars == <<sysfs, walkVars, changed>>

None == "none"

ASSUME NoneAssumption == None \notin Hwmon \union Sensor

SensorsOf(h) == {s \in Sensor : HwmonOf[s] = h}

\* The states that sysfs may be in.  It is of interest only during a walk.
Sysfs ==
  /\ state' \in [Zone \union Sensor -> {"good", "bad", "absent"}]
  /\ present' \in SUBSET Hwmon
  /\ listable' \in SUBSET Root
  /\ places' \in [Hwmon -> SUBSET Place]
  /\ \A h \in Hwmon \ present' :
       places'[h] = {} /\ \A s \in SensorsOf(h) : state'[s] = "absent"
  /\ Cardinality({x \in Zone \union Sensor : state'[x] = "bad"})
       + Cardinality(Root \ listable')
       + Cardinality({hp \in present' \X Place : hp[2] \notin places'[hp[1]]}) <= MaxFaults

Init ==
  /\ walk = "idle"
  /\ todo = {}
  /\ visited = {}
  /\ hwmon = None
  /\ sensors = {}
  /\ seen = {}
  /\ sensor = None
  /\ readings = <<>>
  /\ outcome = None
  /\ changed = {}
  /\ state = [x \in Zone \union Sensor |-> "absent"]
  /\ present = {}
  /\ listable = {}
  /\ places = [h \in Hwmon |-> {}]

-----------------------------------------------------------------------------

\* read_all() is called, whatever state sysfs is in by now.
ReadAll ==
  /\ walk = "idle"
  /\ Sysfs
  /\ walk' = "list_thermal"
  /\ UNCHANGED <<todo, visited, hwmon, sensors, seen, sensor, readings, outcome, changed>>

\* The caller is done with the result.
Forget ==
  /\ walk = "end"
  /\ outcome # "exception"
  /\ walk' = "idle"
  /\ todo' = {}
  /\ visited' = {}
  /\ hwmon' = None
  /\ sensors' = {}
  /\ seen' = {}
  /\ sensor' = None
  /\ readings' = <<>>
  /\ outcome' = None
  /\ changed' = {}
  /\ state' = [x \in Zone \union Sensor |-> "absent"]
  /\ present' = {}
  /\ listable' = {}
  /\ places' = [h \in Hwmon |-> {}]

\* read_all() returns an error; the readings collected so far are given up.
Error ==
  /\ walk' = "end"
  /\ outcome' = "error"
  /\ UNCHANGED <<todo, visited, hwmon, sensors, seen, sensor, readings>>

\* What a new iterator over a root directory will deliver, if it does not go.
ZonesThere == {z \in Zone : state[z] # "absent"}

Open(there, entries) ==
  /\ walk' = there
  /\ todo' = entries
  /\ visited' = {}
  /\ UNCHANGED <<hwmon, sensors, seen, sensor, readings, outcome>>

\* read_thermal() begins: the directory iterator is created.
ListThermal ==
  /\ walk = "list_thermal"
  /\ IF "thermal" \in listable THEN Open("zones", ZonesThere) ELSE Error

\* Mutant: the iterator does not advance over a zone that cannot be read.
VisitZoneStays ==
  /\ walk = "zones"
  /\ \E z \in ZonesThere \ visited :
       /\ state[z] = "good"
       /\ todo' = todo \ {z}
       /\ visited' = visited \union {z}
       /\ readings' = Append(readings, z)
  /\ UNCHANGED <<walk, hwmon, sensors, seen, sensor, outcome>>

\* The iterator delivers a zone; one that cannot be read is passed over.
VisitZone ==
  /\ walk = "zones"
  /\ \E z \in ZonesThere \ visited :
       /\ todo' = todo \ {z}
       /\ visited' = visited \union {z}
       /\ readings' = IF state[z] = "good" THEN Append(readings, z) ELSE readings
  /\ UNCHANGED <<walk, hwmon, sensors, seen, sensor, outcome>>

\* Mutant: it iterates over the wrong directory.
ListHwmonParent ==
  /\ walk = "zones"
  /\ todo = {}
  /\ IF "hwmon" \in listable THEN Open("hwmons", Root) ELSE Error

\* read_hwmon() begins.
ListHwmon ==
  /\ walk = "zones"
  /\ todo = {}
  /\ IF "hwmon" \in listable THEN Open("hwmons", present) ELSE Error

\* The iterator delivers a hwmon device.  An entry that is no directory, or no
\* longer one, is passed over.
VisitHwmon ==
  /\ walk = "hwmons"
  /\ \E h \in present \ visited :
       /\ walk' = "list_device"
       /\ todo' = todo \ {h}
       /\ visited' = visited \union {h}
       /\ hwmon' = h
  /\ UNCHANGED <<sensors, seen, sensor, readings, outcome>>

\* The sensors that are in one of the directories of a device.
SensorsIn(h, place) ==
  {s \in SensorsOf(h) : PlaceOf[s] = place /\ state[s] # "absent"}

\* read_hwmon_devices() begins for one of them: when the directory is missing,
\* or cannot be listed, everything fails.
ListPlace(place) ==
  IF place \in places[hwmon]
  THEN /\ walk' = place
       /\ sensors' = SensorsIn(hwmon, place)
       /\ seen' = {}
       /\ UNCHANGED <<todo, visited, hwmon, sensor, readings, outcome>>
  ELSE Error

\* read_hwmon_devices(hwmonN/device)
ListDevice ==
  /\ walk = "list_device"
  /\ ListPlace("device")

\* Mutant: only the sub directory is looked at.
ListSelfSkipped ==
  /\ walk = "device"
  /\ sensors = {}
  /\ sensor = None
  /\ walk' = "self"
  /\ UNCHANGED <<todo, visited, hwmon, sensors, seen, sensor, readings, outcome>>

\* Mutant: the result of the first call is taken for that of the second.
ListSelfAgain ==
  /\ walk = "device"
  /\ sensors = {}
  /\ sensor = None
  /\ walk' = "self"
  /\ readings' = readings \o SelectSeq(readings, LAMBDA x : x \in SensorsOf(hwmon))
  /\ UNCHANGED <<todo, visited, hwmon, sensors, seen, sensor, outcome>>

\* read_hwmon_devices(hwmonN), for the kernels that have the files there.
ListSelf ==
  /\ walk = "device"
  /\ sensors = {}
  /\ sensor = None
  /\ ListPlace("self")

\* The iterator delivers a label file, whose input file is found to exist.
VisitSensor ==
  /\ walk \in Place
  /\ sensor = None
  /\ \E s \in SensorsIn(hwmon, walk) \ seen :
       /\ sensors' = sensors \ {s}
       /\ seen' = seen \union {s}
       /\ sensor' = s
  /\ UNCHANGED <<walk, todo, visited, hwmon, readings, outcome>>

\* Mutant: a sensor that cannot be read is passed over, as a zone is.
ReadSensorLenient ==
  /\ sensor # None
  /\ outcome = None
  /\ readings' = IF state[sensor] = "good" THEN Append(readings, sensor) ELSE readings
  /\ sensor' = None
  /\ UNCHANGED <<walk, todo, visited, hwmon, sensors, seen, outcome>>

\* Both files existed and are read now; when that fails, everything fails.
ReadSensor ==
  /\ sensor # None
  /\ outcome = None
  /\ IF state[sensor] = "good"
     THEN /\ readings' = Append(readings, sensor)
          /\ sensor' = None
          /\ UNCHANGED <<walk, todo, visited, hwmon, sensors, seen, outcome>>
     ELSE Error

NextHwmon ==
  /\ walk = "self"
  /\ sensors = {}
  /\ sensor = None
  /\ walk' = "hwmons"
  /\ hwmon' = None
  /\ UNCHANGED <<todo, visited, sensors, seen, sensor, readings, outcome>>

\* read_all() returns the readings of both, possibly none at all.
Return ==
  /\ walk = "hwmons"
  /\ todo = {}
  /\ walk' = "end"
  /\ outcome' = "value"
  /\ UNCHANGED <<todo, visited, hwmon, sensors, seen, sensor, readings>>

WalkStep ==
  /\ \/ ListThermal
     \/ VisitZone
     \/ ListHwmon
     \/ VisitHwmon
     \/ ListDevice
     \/ ListSelf
     \/ VisitSensor
     \/ ReadSensor
     \/ NextHwmon
     \/ Return
  /\ UNCHANGED <<sysfs, changed>>

\* The increment of an iterator fails: operator++ throws an exception then, and
\* nobody catches it.
IncrementFails ==
  /\ \/ walk \in {"zones", "hwmons"}
     \/ walk \in Place /\ sensor = None
  /\ walk' = "end"
  /\ outcome' = "exception"
  /\ UNCHANGED <<sysfs, changed>>
  /\ UNCHANGED <<todo, visited, hwmon, sensors, seen, sensor, readings>>

Changes(x) ==
  /\ changed' = changed \union {x}
  /\ Cardinality(changed') <= MaxChanges

\* Iterators do not have to deliver what has gone.
Gone(X) ==
  /\ todo' = todo \ X
  /\ sensors' = sensors \ X
  /\ UNCHANGED <<walk, visited, hwmon, seen, sensor, readings, outcome>>

\* The files of X, which is a zone or sensors, become st[x].
FilesBecome(X, st) ==
  state' = [x \in Zone \union Sensor |-> IF x \in X THEN st[x] ELSE state[x]]

\* A zone, or a sensor of a device that is there, comes, goes or breaks.
FileChanges ==
  \E x \in Zone \union UNION {SensorsOf(h) : h \in present} :
    \E st \in [{x} -> {"good", "bad", "absent"}] :
      /\ Changes(x)
      /\ FilesBecome({x}, st)
      /\ Gone(IF st[x] = "absent" THEN {x} ELSE {})
      /\ UNCHANGED <<present, listable, places>>

\* A directory can be listed no longer, or again.
RootChanges ==
  \E d \in Root :
    /\ Changes(d)
    /\ listable' = IF d \in listable THEN listable \ {d} ELSE listable \union {d}
    /\ UNCHANGED <<state, present, places, walkVars>>

PlacesChange ==
  \E h \in present :
    /\ Changes(h)
    /\ \E P \in SUBSET Place : places' = [places EXCEPT ![h] = P]
    /\ UNCHANGED <<state, present, listable, walkVars>>

\* A device comes with its sensors, or goes with them.
HwmonComes ==
  \E h \in Hwmon \ present :
    /\ Changes(h)
    /\ present' = present \union {h}
    /\ \E P \in SUBSET Place : places' = [places EXCEPT ![h] = P]
    /\ \E st \in [SensorsOf(h) -> {"good", "bad", "absent"}] : FilesBecome(SensorsOf(h), st)
    /\ UNCHANGED <<listable, walkVars>>

HwmonGoes ==
  \E h \in present :
    /\ Changes(h)
    /\ present' = present \ {h}
    /\ places' = [places EXCEPT ![h] = {}]
    /\ FilesBecome(SensorsOf(h), [s \in SensorsOf(h) |-> "absent"])
    /\ Gone({h} \union SensorsOf(h))
    /\ UNCHANGED listable

\* A driver is loaded or unloaded, a device is suspended or resumed.
SysfsChanges ==
  /\ walk \notin {"idle", "end"}
  /\ FileChanges \/ RootChanges \/ PlacesChange \/ HwmonComes \/ HwmonGoes

LinuxNext == ReadAll \/ WalkStep \/ Forget \/ IncrementFails \/ SysfsChanges

\* read_all(), called again and again.
LinuxSpec == Init /\ [][LinuxNext]_linuxVars

-----------------------------------------------------------------------------
\* Properties.

TypeOK ==
  /\ state \in [Zone \union Sensor -> {"good", "bad", "absent"}]
  /\ present \subseteq Hwmon
  /\ listable \subseteq Root
  /\ places \in [Hwmon -> SUBSET Place]
  /\ walk \in {"idle", "list_thermal", "zones", "hwmons", "list_device", "device",
               "self", "end"}
  /\ todo \subseteq Zone \union Hwmon
  /\ visited \subseteq Zone \union Hwmon
  /\ hwmon \in Hwmon \union {None}
  /\ sensors \subseteq Sensor
  /\ seen \subseteq Sensor
  /\ sensor \in Sensor \union {None}
  /\ readings \in Seq(Zone \union Sensor)
  /\ outcome \in {None, "value", "error", "exception"}
  /\ changed \subseteq Zone \union Sensor \union Hwmon \union Root

\* What happens to be the same all the time, whatever else changes: a zone, or a
\* sensor whose device stays too.
Undisturbed(x) == x \notin changed /\ (x \in Sensor => HwmonOf[x] \notin changed)

\* Whatever comes, goes or breaks during a walk, a result that is no error has
\* everything that could be read all the time, in either of the two places, and
\* nothing that could not: no change makes an iterator lose its way.
EverythingRead ==
  outcome = "value" =>
    \A x \in Zone \union Sensor : Undisturbed(x) =>
      (state[x] = "good" <=> \E i \in DOMAIN readings : readings[i] = x)

\* Nothing is read twice, even while sysfs changes: the logger relies on it
\* (db.hpp:187-190, "the code does not use multiple readings for the same
\* device in one call to the save() method").
ReadOnce ==
  \A i, j \in DOMAIN readings : readings[i] = readings[j] => i = j

\* Something that read_all() cannot do without is, and has always been, broken:
\* a directory that cannot be listed, or a sensor that cannot be read.
Broken ==
  \/ ~(Root \subseteq listable \union changed)
  \/ \E h \in present \ changed : places[h] # Place
  \/ \E s \in Sensor : Undisturbed(s) /\ state[s] = "bad"

\* That makes the whole call fail; and a call that fails has such a reason, or
\* something other than a zone changed under it.  So no zone makes it fail.
\* That nothing is there to be read is another matter: see NothingIsAnError.
ErrorIffBroken ==
  walk = "end" =>
    /\ Broken => outcome # "value"
    /\ outcome = "error" =>
         \/ Broken
         \/ changed \intersect (Sensor \union Hwmon \union Root) # {}
         \/ \A x \in Zone \union Sensor : state[x] # "good"

\* What the comment on read_all() says: "Returns an error message, if no
\* readings were available." (lib/thermal/read_linux.hpp:36).
NothingIsAnError == outcome = "value" => readings # <<>>
=============================================================================
