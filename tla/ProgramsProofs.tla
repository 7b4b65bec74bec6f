--------------------------- MODULE ProgramsProofs ---------------------------
(***************************************************************************)
(* Proofs about the programs and what they read with: the walk over sysfs  *)
(* reads everything once, for any sensors and devices; read_wmi() leaves   *)
(* nothing behind, whichever of its calls fails and however often it is    *)
(* called; the load calculator, for any modulus of its counters.  What is  *)
(* proved of the readers by themselves is carried over to the programs     *)
(* that call them.                                                         *)
(***************************************************************************)
EXTENDS Programs, TLAPS

-----------------------------------------------------------------------------
\* read_wmi()

\* One reference of each resource in R.
Holding(R) == [r \in Resource |-> IF r \in R THEN 1 ELSE 0]

\* What is held before each of the calls.
Needed == <<{}, {"com"}, {"com"}, {"com", "locator"}, {"com", "locator", "service"},
            {"com", "locator", "service"}>>

\* What is held depends on the call that comes next, and on nothing else.
WmiInv ==
  /\ wmi \in {"idle", "end"} /\ wmiOutcome # "exception" => held = Holding({})
  /\ \A i \in 1 .. 6 : wmi = Calls[i] => held = Holding(Needed[i])
  /\ wmi = "Next" => held = Holding(Resource \ {"object"})
  /\ wmi \in {"InstanceName", "CurrentTemperature"} => held = Holding(Resource)
  /\ wmiOutcome = "exception" => wmi = "end"

LEMMA CallNames ==
  /\ DOMAIN Calls = 1 .. 6
  /\ \A i \in 1 .. 6 :
       Calls[i] \notin {"idle", "end", "Next", "InstanceName", "CurrentTemperature"}
  /\ \A i, j \in 1 .. 6 : Calls[i] = Calls[j] => i = j
  BY DEF Calls

\* Acquiring and releasing, in terms of what is held before and afterwards.
LEMMA Acquiring ==
  ASSUME NEW R, NEW S, R \cap S = {}, held = Holding(R), Acquire(S)
  PROVE  held' = Holding(R \union S)
  BY DEF Acquire, Holding

LEMMA Releasing ==
  ASSUME NEW R, NEW S, S \subseteq R, held = Holding(R), Release(S)
  PROVE  held' = Holding(R \ S)
  BY DEF Release, Holding

\* The tables of the calls fit together: each call acquires what the next one
\* finds, and releases all that there is when it fails.
LEMMA TablesFit ==
  ASSUME NEW i \in 1 .. 6
  PROVE  /\ Needed[i] \cap Acquired[i] = {}
         /\ i < 6 => Needed[i] \union Acquired[i] = Needed[i + 1]
         /\ i = 6 => Needed[i] \union Acquired[i] = Resource \ {"object"}
         /\ ReleasedAfter[i] \subseteq Needed[i]
         /\ Needed[i] \ ReleasedAfter[i] = {}
<1>1. i = 1 \/ i = 2 \/ i = 3 \/ i = 4 \/ i = 5 \/ i = 6
  OBVIOUS
<1>2. CASE i = 1
  BY <1>2 DEF Needed, Acquired, ReleasedAfter
<1>3. CASE i = 2
  BY <1>3 DEF Needed, Acquired, ReleasedAfter
<1>4. CASE i = 3
  BY <1>4 DEF Needed, Acquired, ReleasedAfter
<1>5. CASE i = 4
  BY <1>5 DEF Needed, Acquired, ReleasedAfter
<1>6. CASE i = 5
  BY <1>6 DEF Needed, Acquired, ReleasedAfter
<1>7. CASE i = 6
  BY <1>7 DEF Needed, Acquired, ReleasedAfter, Resource
<1> QED
  BY <1>1, <1>2, <1>3, <1>4, <1>5, <1>6, <1>7

LEMMA WmiInit_Inv == WmiInit => WmiInv
  BY CallNames DEF WmiInit, WmiInv, Holding

LEMMA WmiStep_Inv == WmiInv /\ [WmiStep \/ ForgetWmi]_wmiVars => WmiInv'
<1> SUFFICES ASSUME WmiInv, [WmiStep \/ ForgetWmi]_wmiVars PROVE WmiInv'
  OBVIOUS
<1>1. CASE StartWmi
  <2>1. wmi' = Calls[1] /\ held' = Holding({}) /\ wmiOutcome' # "exception"
    BY <1>1 DEF StartWmi, WmiInv
  <2>2. Needed[1] = {}
    BY DEF Needed
  <2> QED
    BY <2>1, <2>2, CallNames DEF WmiInv
<1>2. CASE WmiCall
  <2>1. PICK i \in 1 .. 6 :
          /\ wmi = Calls[i]
          /\ \/ /\ Acquire(Acquired[i])
                /\ wmi' = IF i < Len(Calls) THEN Calls[i + 1] ELSE "Next"
                /\ UNCHANGED <<instances, wmiOutcome>>
             \/ /\ Release(ReleasedAfter[i])
                /\ WmiError
    BY <1>2, CallNames DEF WmiCall
  <2>2. held = Holding(Needed[i]) /\ wmiOutcome # "exception"
    BY <2>1, CallNames DEF WmiInv
  <2>3. Len(Calls) = 6
    BY DEF Calls
  <2>4. CASE Acquire(Acquired[i]) /\ i < 6 /\ wmi' = Calls[i + 1] /\ UNCHANGED wmiOutcome
    <3>1. held' = Holding(Needed[i + 1])
      BY <2>2, <2>4, TablesFit, Acquiring
    <3>2. i + 1 \in 1 .. 6
      BY <2>4
    <3> QED
      BY <2>2, <2>4, <3>1, <3>2, CallNames DEF WmiInv
  <2>5. CASE Acquire(Acquired[i]) /\ i = 6 /\ wmi' = "Next" /\ UNCHANGED wmiOutcome
    <3>1. held' = Holding(Resource \ {"object"})
      BY <2>2, <2>5, TablesFit, Acquiring
    <3> QED
      BY <2>2, <2>5, <3>1, CallNames DEF WmiInv
  <2>6. CASE Release(ReleasedAfter[i]) /\ WmiError
    <3>1. held' = Holding({})
      BY <2>2, <2>6, TablesFit, Releasing
    <3> QED
      BY <2>6, <3>1, CallNames DEF WmiInv, WmiError
  <2> QED
    BY <2>1, <2>3, <2>4, <2>5, <2>6
<1>3. CASE NextObject
  <2>1. held = Holding(Resource \ {"object"}) /\ wmiOutcome # "exception"
    BY <1>3 DEF NextObject, WmiInv
  <2>2. (Resource \ {"object"}) \union {"object"} = Resource
    BY DEF Resource
  <2>3. held' = Holding(Resource)
    BY <1>3, <2>1, <2>2, Acquiring DEF NextObject
  <2> QED
    BY <1>3, <2>1, <2>3, CallNames DEF NextObject, WmiInv
<1>4. CASE NoMoreObjects
  <2> DEFINE R == Resource \ {"object"}
  <2>1. held = Holding(R)
    BY <1>4 DEF NoMoreObjects, WmiInv
  <2>2. R = {"enumerator", "service", "locator", "com"}
    BY DEF Resource
  <2>3. held' = Holding({})
    BY <1>4, <2>1, <2>2, Releasing DEF NoMoreObjects
  <2> QED
    BY <1>4, <2>3, CallNames DEF NoMoreObjects, WmiInv
<1>5. Resource = {"object", "enumerator", "service", "locator", "com"}
  BY DEF Resource
<1>6. CASE GetInstanceName
  <2>1. held = Holding(Resource) /\ wmiOutcome # "exception"
    BY <1>6 DEF GetInstanceName, WmiInv
  <2>2. CASE wmi' = "CurrentTemperature" /\ UNCHANGED <<held, instances, wmiOutcome>>
    BY <2>1, <2>2, CallNames DEF WmiInv
  <2>3. CASE Release(Resource) /\ WmiError
    <3>1. held' = Holding({})
      BY <2>1, <2>3, Releasing
    <3> QED
      BY <2>3, <3>1, CallNames DEF WmiInv, WmiError
  <2>4. CASE wmi' = "end" /\ wmiOutcome' = "exception"
    BY <2>4, CallNames DEF WmiInv
  <2> QED
    BY <1>5, <1>6, <2>2, <2>3, <2>4 DEF GetInstanceName
<1>7. CASE GetCurrentTemperature
  <2>1. held = Holding(Resource) /\ wmiOutcome # "exception"
    BY <1>7 DEF GetCurrentTemperature, WmiInv
  <2>2. CASE Release({"object"}) /\ wmi' = "Next" /\ UNCHANGED wmiOutcome
    <3>1. held' = Holding(Resource \ {"object"})
      BY <1>5, <2>1, <2>2, Releasing
    <3> QED
      BY <2>1, <2>2, <3>1, CallNames DEF WmiInv
  <2>3. CASE Release(Resource) /\ WmiError
    <3>1. held' = Holding({})
      BY <2>1, <2>3, Releasing
    <3> QED
      BY <2>3, <3>1, CallNames DEF WmiInv, WmiError
  <2> QED
    BY <1>5, <1>7, <2>2, <2>3 DEF GetCurrentTemperature
<1>8. CASE ForgetWmi
  BY <1>8, CallNames DEF ForgetWmi, WmiInv
<1>9. CASE UNCHANGED wmiVars
  BY <1>9 DEF wmiVars, WmiInv
<1> QED
  BY <1>1, <1>2, <1>3, <1>4, <1>6, <1>7, <1>8, <1>9 DEF WmiStep

\* Every resource is released, each once, on all ways out of read_wmi(), and is
\* held as long as the loop needs it, for any number of objects.
THEOREM AllReleased == WmiSpec => []NothingLeaks
<1>1. WmiInv => NothingLeaks
  BY DEF WmiInv, NothingLeaks, Holding
<1> QED
  BY <1>1, WmiInit_Inv, WmiStep_Inv, PTL DEF WmiSpec

-----------------------------------------------------------------------------
\* The walk over sysfs.

Read(x) == \E i \in DOMAIN readings : readings[i] = x

OnDevice == walk \in {"list_device", "device", "self"}

OnHwmon == walk = "hwmons" \/ OnDevice

\* The walk over the hwmon devices has come past sensor s.
Passed(s) ==
  /\ HwmonOf[s] \in visited
  /\ HwmonOf[s] = hwmon =>
       /\ walk # "list_device"
       /\ walk = "device" => PlaceOf[s] = "device"
       /\ walk = PlaceOf[s] => s \in seen
  /\ s # sensor

\* It will come to s, unless s goes before.
Pending(s) ==
  \/ HwmonOf[s] \in todo
  \/ /\ HwmonOf[s] = hwmon
     /\ walk = "list_device" \/ (walk = "device" /\ PlaceOf[s] = "self")
  \/ s \in sensors
  \/ s = sensor

\* The variables of the walk, by where it is.
PlaceInv ==
  /\ outcome = None <=> walk # "end"
  /\ walk \in {"idle", "list_thermal"} => readings = <<>>
  /\ walk = "zones" => todo \subseteq Zone
  /\ OnHwmon => todo \subseteq Hwmon
  /\ OnDevice => hwmon \in Hwmon \intersect visited
  /\ ~OnDevice /\ walk # "end" => hwmon = None
  /\ walk \in Place /\ sensor # None =>
       sensor \in seen /\ HwmonOf[sensor] = hwmon /\ PlaceOf[sensor] = walk
  /\ walk \notin Place \union {"end"} => sensors = {} /\ sensor = None

\* Nothing was read that an iterator can still deliver.
OnceInv ==
  /\ ReadOnce
  /\ walk = "zones" => \A x : Read(x) => x \in Zone \intersect visited
  /\ OnHwmon => \A s \in Sensor : Read(s) => Passed(s)

\* Of what kept still, the walk has read what is good of what it passed.
KeptInv ==
  /\ \A s \in Sensor : state[s] # "absent" => HwmonOf[s] \in present
  /\ \A x \in Zone \union Sensor : Undisturbed(x) /\ Read(x) => state[x] = "good"
  /\ walk = "zones" =>
       \A z \in Zone : Undisturbed(z) /\ state[z] = "good" => z \in todo \/ Read(z)
  /\ OnHwmon \/ outcome = "value" =>
       \A z \in Zone : Undisturbed(z) /\ state[z] = "good" => Read(z)
  /\ OnHwmon =>
       \A s \in Sensor : Undisturbed(s) /\ state[s] # "absent" =>
         Pending(s) \/ (state[s] = "good" /\ Read(s))
  /\ OnHwmon /\ sensor # None /\ Undisturbed(sensor) => state[sensor] # "absent"
  /\ outcome = "value" =>
       \A s \in Sensor : Undisturbed(s) /\ state[s] # "absent" =>
         state[s] = "good" /\ Read(s)

\* And has met no directory that it could not list.
ListedInv ==
  /\ walk = "zones" \/ OnHwmon \/ outcome = "value" => "thermal" \in listable \union changed
  /\ OnHwmon \/ outcome = "value" => "hwmon" \in listable \union changed
  /\ OnHwmon =>
       \A h \in present \ changed : h \in todo \/ h = hwmon \/ places[h] = Place
  /\ OnDevice => hwmon \in present \union changed
  /\ walk \in Place => hwmon \in changed \/ "device" \in places[hwmon]
  /\ walk = "self" => hwmon \in changed \/ places[hwmon] = Place
  /\ outcome = "value" => \A h \in present \ changed : places[h] = Place

\* What an error means.
ReasonInv ==
  outcome = "error" =>
    Broken \/ changed \intersect (Sensor \union Hwmon \union Root) # {}

LinuxInv == TypeOK /\ PlaceInv /\ OnceInv /\ KeptInv /\ ListedInv /\ ReasonInv

\* What reading one thing more means.
LEMMA ReadMore ==
  ASSUME TypeOK, NEW x \in Zone \union Sensor, readings' = Append(readings, x)
  PROVE  /\ readings' \in Seq(Zone \union Sensor)
         /\ \A y : Read(y)' <=> Read(y) \/ y = x
         /\ ReadOnce /\ ~Read(x) => ReadOnce'
<1>1. readings \in Seq(Zone \union Sensor) /\ Len(readings) \in Nat
  BY DEF TypeOK
<1>2. /\ DOMAIN readings = 1 .. Len(readings)
      /\ DOMAIN readings' = 1 .. Len(readings) + 1
      /\ \A i \in 1 .. Len(readings) : readings'[i] = readings[i]
      /\ readings'[Len(readings) + 1] = x
      /\ readings' \in Seq(Zone \union Sensor)
  BY <1>1
<1>3. \A i \in DOMAIN readings' : i \in DOMAIN readings \/ i = Len(readings) + 1
  BY <1>1, <1>2
<1>4. Len(readings) + 1 \in DOMAIN readings' /\ DOMAIN readings \subseteq DOMAIN readings'
  BY <1>1, <1>2
<1> QED
  BY <1>2, <1>3, <1>4 DEF Read, ReadOnce

\* What a step of the kernel means for the walk: iterators lose what has gone, and
\* whatever is not noted as changed is as it was.
LEMMA ChangeIsNoted ==
  ASSUME TypeOK, SysfsChanges
  PROVE  /\ UNCHANGED <<walk, visited, hwmon, seen, sensor, readings, outcome>>
         /\ todo' \subseteq todo /\ sensors' \subseteq sensors
         /\ \A x \in Zone \union Sensor : Undisturbed(x)' =>
              /\ Undisturbed(x) /\ state'[x] = state[x]
              /\ x \in todo => x \in todo'
              /\ x \in sensors => x \in sensors'
         /\ \A h \in Hwmon : h \notin changed' =>
              /\ h \notin changed
              /\ h \in present' <=> h \in present
              /\ places'[h] = places[h]
              /\ h \in todo => h \in todo'
         /\ \A d \in Root : d \notin changed' =>
              d \notin changed /\ (d \in listable' <=> d \in listable)
         /\ changed \subseteq changed'
<1>1. CASE FileChanges
  <2>1. PICK x \in Zone \union UNION {SensorsOf(h) : h \in present} :
          \E st \in [{x} -> {"good", "bad", "absent"}] :
            /\ Changes(x)
            /\ FilesBecome({x}, st)
            /\ Gone(IF st[x] = "absent" THEN {x} ELSE {})
            /\ UNCHANGED <<present, listable, places>>
    BY <1>1 DEF FileChanges
  <2> QED
    BY <2>1 DEF Changes, FilesBecome, Gone, Undisturbed
<1>2. CASE RootChanges
  BY <1>2 DEF RootChanges, Changes, Undisturbed, walkVars
<1>3. CASE PlacesChange
  <2>1. PICK h \in present, P \in SUBSET Place :
          /\ Changes(h)
          /\ places' = [places EXCEPT ![h] = P]
          /\ UNCHANGED <<state, present, listable, walkVars>>
    BY <1>3 DEF PlacesChange
  <2> QED
    BY <2>1 DEF Changes, Undisturbed, walkVars, TypeOK
<1>4. CASE HwmonComes
  <2>1. PICK h \in Hwmon \ present :
          /\ Changes(h)
          /\ present' = present \union {h}
          /\ \E P \in SUBSET Place : places' = [places EXCEPT ![h] = P]
          /\ \E st \in [SensorsOf(h) -> {"good", "bad", "absent"}] : FilesBecome(SensorsOf(h), st)
          /\ UNCHANGED <<listable, walkVars>>
    BY <1>4 DEF HwmonComes
  <2> QED
    BY <2>1 DEF Changes, FilesBecome, SensorsOf, Undisturbed, walkVars, TypeOK
<1>5. CASE HwmonGoes
  <2>1. PICK h \in present :
          /\ Changes(h)
          /\ present' = present \ {h}
          /\ places' = [places EXCEPT ![h] = {}]
          /\ FilesBecome(SensorsOf(h), [s \in SensorsOf(h) |-> "absent"])
          /\ Gone({h} \union SensorsOf(h))
          /\ UNCHANGED listable
    BY <1>5 DEF HwmonGoes
  <2>2. \A x \in Zone \union Sensor : Undisturbed(x)' =>
          Undisturbed(x) /\ x # h /\ x \notin SensorsOf(h)
    BY <2>1 DEF Changes, SensorsOf, Undisturbed
  <2>3. \A g \in Hwmon : g \notin SensorsOf(h)
    BY DisjointAssumption DEF SensorsOf
  <2> QED
    BY <2>1, <2>2, <2>3 DEF Changes, FilesBecome, Gone, TypeOK
<1> QED
  BY <1>1, <1>2, <1>3, <1>4, <1>5 DEF SysfsChanges

\* Zones are read before hwmon devices, which is what the types depend on.
LEMMA LinuxTypes == TypeOK /\ PlaceInv /\ [LinuxNext]_linuxVars => TypeOK'
<1> SUFFICES ASSUME TypeOK, PlaceInv, [LinuxNext]_linuxVars PROVE TypeOK'
  OBVIOUS
<1>1. CASE UNCHANGED linuxVars
  BY <1>1 DEF TypeOK, linuxVars, sysfs, walkVars
<1>2. CASE ReadAll
  BY <1>2 DEF TypeOK, ReadAll, Sysfs
<1>3. CASE Forget
  BY <1>3 DEF TypeOK, Forget
<1>4. CASE SysfsChanges
  <2>1. /\ UNCHANGED <<walk, visited, hwmon, seen, sensor, readings, outcome>>
        /\ todo' \subseteq todo /\ sensors' \subseteq sensors
    BY <1>4, ChangeIsNoted
  <2>2. state' \in [Zone \union Sensor -> {"good", "bad", "absent"}]
    <3>1. ASSUME NEW X, NEW st \in [X -> {"good", "bad", "absent"}], FilesBecome(X, st)
          PROVE  state' \in [Zone \union Sensor -> {"good", "bad", "absent"}]
      BY <3>1 DEF FilesBecome, TypeOK
    <3>2. CASE FileChanges
      BY <3>1, <3>2 DEF FileChanges
    <3>3. CASE HwmonComes
      BY <3>1, <3>3 DEF HwmonComes
    <3>4. CASE HwmonGoes
      <4>1. PICK h \in present : FilesBecome(SensorsOf(h), [s \in SensorsOf(h) |-> "absent"])
        BY <3>4 DEF HwmonGoes
      <4>2. [s \in SensorsOf(h) |-> "absent"] \in [SensorsOf(h) -> {"good", "bad", "absent"}]
        OBVIOUS
      <4> QED
        BY <3>1, <4>1, <4>2
    <3>5. CASE RootChanges \/ PlacesChange
      BY <3>5 DEF RootChanges, PlacesChange, TypeOK
    <3> QED
      BY <1>4, <3>2, <3>3, <3>4, <3>5 DEF SysfsChanges
  <2>3. /\ present' \subseteq Hwmon
        /\ listable' \subseteq Root
        /\ places' \in [Hwmon -> SUBSET Place]
    BY <1>4 DEF SysfsChanges, FileChanges, RootChanges, PlacesChange, HwmonComes,
                HwmonGoes, TypeOK
  <2>4. changed' \subseteq Zone \union Sensor \union Hwmon \union Root
    <3> DEFINE Things == Zone \union Sensor \union Hwmon \union Root
    <3>1. ASSUME NEW x \in Things, Changes(x)
          PROVE  changed' \subseteq Things
      BY <3>1 DEF Changes, TypeOK
    <3>2. CASE FileChanges
      BY <3>1, <3>2 DEF FileChanges, SensorsOf
    <3>3. CASE RootChanges
      BY <3>1, <3>3 DEF RootChanges
    <3>4. CASE PlacesChange \/ HwmonGoes
      <4>1. PICK h \in present : Changes(h)
        BY <3>4 DEF PlacesChange, HwmonGoes
      <4>2. h \in Hwmon
        BY DEF TypeOK
      <4> QED
        BY <3>1, <4>1, <4>2
    <3>5. CASE HwmonComes
      BY <3>1, <3>5 DEF HwmonComes
    <3> QED
      BY <1>4, <3>2, <3>3, <3>4, <3>5 DEF SysfsChanges
  <2> QED
    BY <2>1, <2>2, <2>3, <2>4 DEF TypeOK
<1>5. CASE IncrementFails
  BY <1>5 DEF TypeOK, IncrementFails, sysfs
<1>6. CASE WalkStep
  <2> UNCHANGED <<sysfs, changed>>
    BY <1>6 DEF WalkStep
  <2> USE DEF TypeOK
  <2>0. CASE Error
    BY <2>0 DEF Error, sysfs
  <2>1. CASE ListThermal /\ ~Error
    BY <2>1 DEF ListThermal, Open, ZonesThere, sysfs
  <2>2. CASE VisitZone
    <3>1. PICK z \in ZonesThere :
            /\ todo' = todo \ {z}
            /\ visited' = visited \union {z}
            /\ readings' = IF state[z] = "good" THEN Append(readings, z) ELSE readings
      BY <2>2 DEF VisitZone
    <3>2. z \in Zone
      BY DEF ZonesThere
    <3>3. readings' \in Seq(Zone \union Sensor)
      BY <3>1, <3>2, ReadMore
    <3> QED
      BY <2>2, <3>1, <3>2, <3>3 DEF VisitZone, sysfs
  <2>3. CASE ListHwmon /\ ~Error
    BY <2>3 DEF ListHwmon, Open, sysfs
  <2>4. CASE VisitHwmon
    BY <2>4 DEF VisitHwmon, sysfs
  <2>5. CASE (ListDevice \/ ListSelf) /\ ~Error
    <3>1. PICK place \in Place :
            /\ walk' = place
            /\ sensors' = SensorsIn(hwmon, place)
            /\ seen' = {}
            /\ UNCHANGED <<todo, visited, hwmon, sensor, readings, outcome>>
      BY <2>5 DEF ListDevice, ListSelf, ListPlace, Place
    <3> QED
      BY <3>1 DEF SensorsIn, SensorsOf, Place, sysfs
  <2>6. CASE VisitSensor
    BY <2>6 DEF VisitSensor, SensorsIn, SensorsOf, sysfs
  <2>7. CASE ReadSensor /\ ~Error
    <3>1. readings' \in Seq(Zone \union Sensor)
      BY <2>7, ReadMore DEF ReadSensor
    <3> QED
      BY <2>7, <3>1 DEF ReadSensor, sysfs
  <2>8. CASE NextHwmon \/ Return
    BY <2>8 DEF NextHwmon, Return, sysfs
  <2> QED
    BY <1>6, <2>0, <2>1, <2>2, <2>3, <2>4, <2>5, <2>6, <2>7, <2>8 DEF WalkStep
<1> QED
  BY <1>1, <1>2, <1>3, <1>4, <1>5, <1>6 DEF LinuxNext

\* What makes a call return an error.
LEMMA ErrorsComeFrom ==
  ASSUME WalkStep, Error
  PROVE  \/ walk = "list_thermal" /\ "thermal" \notin listable
         \/ walk = "zones" /\ "hwmon" \notin listable
         \/ walk = "list_device" /\ "device" \notin places[hwmon]
         \/ walk = "device" /\ "self" \notin places[hwmon]
         \/ sensor # None /\ outcome = None /\ state[sensor] # "good"
<1> USE DEF Error
<1>1. CASE ListThermal
  BY <1>1 DEF ListThermal, Open
<1>2. CASE ListHwmon
  BY <1>2 DEF ListHwmon, Open
<1>3. CASE ListDevice
  BY <1>3 DEF ListDevice, ListPlace
<1>4. CASE ListSelf
  BY <1>4 DEF ListSelf, ListPlace
<1>5. CASE ReadSensor
  <2>1. state[sensor] = "good" => readings' = Append(readings, sensor) /\ outcome' = None
    BY <1>5 DEF ReadSensor
  <2> QED
    BY <1>5, <2>1 DEF ReadSensor, None
<1>6. CASE VisitZone \/ VisitHwmon \/ VisitSensor \/ NextHwmon \/ Return
  BY <1>6 DEF VisitZone, VisitHwmon, VisitSensor, NextHwmon, Return, Place
<1> QED
  BY <1>1, <1>2, <1>3, <1>4, <1>5, <1>6 DEF WalkStep

LEMMA PlaceStep == TypeOK /\ PlaceInv /\ [LinuxNext]_linuxVars => PlaceInv'
<1> SUFFICES ASSUME TypeOK, PlaceInv, [LinuxNext]_linuxVars PROVE PlaceInv'
  OBVIOUS
<1> USE NoneAssumption DEF PlaceInv, OnHwmon, OnDevice, Place
<1>1. CASE UNCHANGED linuxVars
  BY <1>1 DEF linuxVars, walkVars
<1>2. CASE SysfsChanges
  <2>1. /\ UNCHANGED <<walk, visited, hwmon, seen, sensor, readings, outcome>>
        /\ todo' \subseteq todo /\ sensors' \subseteq sensors
    BY <1>2, ChangeIsNoted
  <2> QED
    BY <2>1
<1>3. CASE ReadAll \/ Forget
  BY <1>3 DEF ReadAll, Forget
<1>4. CASE IncrementFails
  BY <1>4 DEF IncrementFails, None
<1>5. CASE WalkStep
  <2>1. CASE Error
    BY <2>1 DEF Error, None
  <2>2. CASE ListThermal /\ ~Error
    BY <2>2 DEF ListThermal, Open, ZonesThere
  <2>3. CASE VisitZone
    BY <2>3 DEF VisitZone
  <2>4. CASE ListHwmon /\ ~Error
    BY <2>4 DEF ListHwmon, Open, TypeOK
  <2>5. CASE VisitHwmon
    BY <2>5 DEF VisitHwmon, TypeOK
  <2>6. CASE ListDevice /\ ~Error
    BY <2>6 DEF ListDevice, ListPlace
  <2>7. CASE ListSelf /\ ~Error
    BY <2>7 DEF ListSelf, ListPlace
  <2>8. CASE VisitSensor
    BY <2>8 DEF VisitSensor, SensorsIn, SensorsOf
  <2>9. CASE ReadSensor /\ ~Error
    BY <2>9 DEF ReadSensor
  <2>10. CASE NextHwmon
    BY <2>10 DEF NextHwmon
  <2>11. CASE Return
    BY <2>11 DEF Return, None
  <2> QED
    BY <1>5, <2>1, <2>2, <2>3, <2>4, <2>5, <2>6, <2>7, <2>8, <2>9, <2>10, <2>11 DEF WalkStep
<1> QED
  BY <1>1, <1>2, <1>3, <1>4, <1>5 DEF LinuxNext

LEMMA OnceStep ==
  TypeOK /\ PlaceInv /\ OnceInv /\ [LinuxNext]_linuxVars => OnceInv'
<1> SUFFICES ASSUME TypeOK, PlaceInv, OnceInv, [LinuxNext]_linuxVars PROVE OnceInv'
  OBVIOUS
<1>1. CASE UNCHANGED linuxVars \/ SysfsChanges
  <2>1. UNCHANGED <<walk, visited, hwmon, seen, sensor, readings>>
    BY <1>1, ChangeIsNoted DEF linuxVars, walkVars
  <2> QED
    BY <2>1 DEF OnceInv, ReadOnce, Read, OnHwmon, OnDevice, Passed
<1>2. CASE ReadAll \/ Forget
  BY <1>2 DEF ReadAll, Forget, OnceInv, PlaceInv, ReadOnce, Read, OnHwmon, OnDevice
<1>3. CASE IncrementFails \/ Error
  BY <1>3 DEF IncrementFails, Error, OnceInv, ReadOnce, OnHwmon, OnDevice
<1>4. CASE WalkStep /\ ~Error
  <2>1. CASE ListThermal
    <3>1. walk' = "zones" /\ readings' = <<>>
      BY <1>4, <2>1 DEF ListThermal, Open, PlaceInv
    <3> QED
      BY <3>1 DEF OnceInv, ReadOnce, Read, OnHwmon, OnDevice
  <2>2. CASE VisitZone
    <3>1. PICK z \in ZonesThere \ visited :
            /\ visited' = visited \union {z}
            /\ readings' = IF state[z] = "good" THEN Append(readings, z) ELSE readings
      BY <2>2 DEF VisitZone
    <3>2. walk = "zones" /\ walk' = "zones" /\ z \in Zone
      BY <2>2 DEF VisitZone, ZonesThere
    <3>3. ~Read(z)
      BY <3>1, <3>2 DEF OnceInv
    <3>4. CASE state[z] = "good"
      <4>1. ReadOnce' /\ \A y : Read(y)' <=> Read(y) \/ y = z
        BY <3>1, <3>2, <3>3, <3>4, ReadMore DEF OnceInv
      <4> QED
        BY <3>1, <3>2, <4>1 DEF OnceInv, OnHwmon, OnDevice
    <3>5. CASE state[z] # "good"
      BY <3>1, <3>2, <3>5 DEF OnceInv, ReadOnce, Read, OnHwmon, OnDevice
    <3> QED
      BY <3>4, <3>5
  <2>3. CASE ListHwmon
    <3>1. walk = "zones" /\ walk' = "hwmons" /\ readings' = readings
      BY <1>4, <2>3 DEF ListHwmon, Open
    <3>2. \A s \in Sensor : ~Read(s)
      BY <3>1, DisjointAssumption DEF OnceInv
    <3> QED
      BY <3>1, <3>2 DEF OnceInv, ReadOnce, Read
  <2>4. CASE VisitHwmon
    <3>1. PICK h \in present \ visited : visited' = visited \union {h} /\ hwmon' = h
      BY <2>4 DEF VisitHwmon
    <3>2. /\ walk = "hwmons" /\ walk' = "list_device"
          /\ UNCHANGED <<sensor, readings>>
      BY <2>4 DEF VisitHwmon
    <3>3. \A s \in Sensor : Passed(s) => Passed(s)'
      BY <3>1, <3>2 DEF Passed
    <3> QED
      BY <3>2, <3>3 DEF OnceInv, ReadOnce, Read, OnHwmon
  <2>5. CASE ListDevice
    <3>1. /\ walk = "list_device" /\ walk' = "device"
          /\ UNCHANGED <<visited, hwmon, sensor, readings>>
      BY <1>4, <2>5 DEF ListDevice, ListPlace
    <3>2. \A s \in Sensor : Passed(s) => Passed(s)'
      BY <3>1 DEF Passed
    <3> QED
      BY <3>1, <3>2 DEF OnceInv, ReadOnce, Read, OnHwmon, OnDevice
  <2>6. CASE ListSelf
    <3>1. /\ walk = "device" /\ walk' = "self"
          /\ UNCHANGED <<visited, hwmon, sensor, readings>>
      BY <1>4, <2>6 DEF ListSelf, ListPlace
    <3>2. \A s \in Sensor : Passed(s) => Passed(s)'
      BY <3>1 DEF Passed
    <3> QED
      BY <3>1, <3>2 DEF OnceInv, ReadOnce, Read, OnHwmon, OnDevice
  <2>7. CASE VisitSensor
    <3>1. PICK s \in SensorsIn(hwmon, walk) \ seen :
            seen' = seen \union {s} /\ sensor' = s
      BY <2>7 DEF VisitSensor
    <3>2. /\ walk \in {"device", "self"} /\ UNCHANGED <<walk, visited, hwmon, readings>>
      BY <2>7 DEF VisitSensor, Place
    <3>3. s \in Sensor /\ ~Read(s)
      BY <3>1, <3>2 DEF OnceInv, OnHwmon, OnDevice, Passed, SensorsIn, SensorsOf
    <3>4. \A r \in Sensor : r # s /\ Passed(r) => Passed(r)'
      BY <3>1, <3>2 DEF Passed
    <3> QED
      BY <3>2, <3>3, <3>4 DEF OnceInv, ReadOnce, Read, OnHwmon, OnDevice
  <2>8. CASE ReadSensor
    <3>1. /\ readings' = Append(readings, sensor)
          /\ sensor \in Sensor /\ sensor # None /\ sensor' = None
          /\ UNCHANGED <<walk, visited, hwmon, seen>>
      BY <1>4, <2>8 DEF ReadSensor, TypeOK
    <3>2. /\ walk \in {"device", "self"}
          /\ sensor \in seen /\ HwmonOf[sensor] = hwmon /\ PlaceOf[sensor] = walk
          /\ hwmon \in visited
      BY <2>8, <3>1 DEF ReadSensor, PlaceInv, OnDevice, Place
    <3>3. ~Read(sensor)
      BY <3>1, <3>2 DEF OnceInv, OnHwmon, OnDevice, Passed
    <3>4. ReadOnce' /\ \A s : Read(s)' <=> Read(s) \/ s = sensor
      BY <3>1, <3>3, ReadMore DEF OnceInv
    <3>5. \A s \in Sensor : s # None
      BY NoneAssumption
    <3>6. \A s \in Sensor : Passed(s) \/ s = sensor => Passed(s)'
      BY <3>1, <3>2, <3>5 DEF Passed
    <3> QED
      BY <3>1, <3>2, <3>4, <3>6 DEF OnceInv, OnHwmon, OnDevice
  <2>9. CASE NextHwmon
    <3>1. walk' = "hwmons" /\ UNCHANGED <<visited, sensor, readings>>
      BY <2>9 DEF NextHwmon
    <3>2. walk = "self"
      BY <2>9 DEF NextHwmon
    <3>3. \A s \in Sensor : Passed(s) => Passed(s)'
      BY <3>1, PlaceOfAssumption DEF Passed, Place
    <3> QED
      BY <3>1, <3>2, <3>3 DEF OnceInv, ReadOnce, Read, OnHwmon, OnDevice
  <2>10. CASE Return
    BY <2>10 DEF Return, OnceInv, ReadOnce, OnHwmon, OnDevice
  <2> QED
    BY <1>4, <2>1, <2>2, <2>3, <2>4, <2>5, <2>6, <2>7, <2>8, <2>9, <2>10 DEF WalkStep
<1> QED
  BY <1>1, <1>2, <1>3, <1>4 DEF LinuxNext

LEMMA KeptStep ==
  TypeOK /\ PlaceInv /\ OnceInv /\ KeptInv /\ [LinuxNext]_linuxVars => KeptInv'
<1> SUFFICES ASSUME TypeOK, PlaceInv, OnceInv, KeptInv, [LinuxNext]_linuxVars
             PROVE  KeptInv'
  OBVIOUS
<1>1. CASE UNCHANGED linuxVars
  BY <1>1 DEF linuxVars, sysfs, walkVars, KeptInv, OnHwmon, OnDevice, Read, Pending,
              Undisturbed
<1>2. CASE ReadAll \/ Forget
  <2>1. /\ walk' \in {"idle", "list_thermal"} /\ outcome' = None /\ readings' = <<>>
        /\ \A s \in Sensor : state'[s] # "absent" => HwmonOf[s] \in present'
    <3>1. CASE ReadAll
      <4>1. walk = "idle" /\ walk' = "list_thermal" /\ UNCHANGED <<readings, outcome>>
        BY <3>1 DEF ReadAll
      <4>2. \A s \in Sensor : state'[s] # "absent" => HwmonOf[s] \in present'
        BY <3>1, HwmonOfAssumption DEF ReadAll, Sysfs, SensorsOf
      <4> QED
        BY <4>1, <4>2 DEF PlaceInv
    <3>2. CASE Forget
      BY <3>2 DEF Forget
    <3> QED
      BY <1>2, <3>1, <3>2
  <2>2. \A x : ~Read(x)'
    BY <2>1 DEF Read
  <2> QED
    BY <2>1, <2>2 DEF KeptInv, OnHwmon, OnDevice, None
<1>3. CASE SysfsChanges
  <2>1. /\ UNCHANGED <<walk, hwmon, sensor, readings, outcome>>
        /\ \A x \in Zone \union Sensor : Undisturbed(x)' =>
             /\ Undisturbed(x) /\ state'[x] = state[x]
             /\ x \in todo => x \in todo'
             /\ x \in sensors => x \in sensors'
        /\ \A s \in Sensor : HwmonOf[s] \notin changed' /\ HwmonOf[s] \in todo =>
             HwmonOf[s] \in todo'
    BY <1>3, HwmonOfAssumption, ChangeIsNoted
  <2>2. \A x : Read(x)' <=> Read(x)
    BY <2>1 DEF Read
  <2>3. \A s \in Sensor : Undisturbed(s)' /\ Pending(s) => Pending(s)'
    BY <2>1 DEF Pending, Undisturbed
  <2>4. \A s \in Sensor : state'[s] # "absent" => HwmonOf[s] \in present'
    <3> USE DEF KeptInv, TypeOK
    <3>1. CASE FileChanges
      <4>1. PICK x \in Zone \union UNION {SensorsOf(h) : h \in present} :
              \E st \in [{x} -> {"good", "bad", "absent"}] :
                FilesBecome({x}, st) /\ UNCHANGED present
        BY <3>1 DEF FileChanges
      <4> QED
        BY <4>1, DisjointAssumption DEF FilesBecome, SensorsOf
    <3>2. CASE RootChanges \/ PlacesChange
      BY <3>2 DEF RootChanges, PlacesChange
    <3>3. CASE HwmonComes
      <4>1. PICK h \in Hwmon : present' = present \union {h} /\
              \E st : FilesBecome(SensorsOf(h), st)
        BY <3>3 DEF HwmonComes
      <4> QED
        BY <4>1 DEF FilesBecome, SensorsOf
    <3>4. CASE HwmonGoes
      <4>1. PICK h \in Hwmon : present' = present \ {h} /\
              FilesBecome(SensorsOf(h), [s \in SensorsOf(h) |-> "absent"])
        BY <3>4 DEF HwmonGoes
      <4> QED
        BY <4>1 DEF FilesBecome, SensorsOf
    <3> QED
      BY <1>3, <3>1, <3>2, <3>3, <3>4 DEF SysfsChanges
  <2> QED
    BY <2>1, <2>2, <2>3, <2>4 DEF KeptInv, OnHwmon, OnDevice, TypeOK
<1>4. CASE IncrementFails \/ (WalkStep /\ Error)
  <2>1. /\ walk' = "end" /\ outcome' # "value"
        /\ UNCHANGED <<state, present, changed, readings>>
    BY <1>4 DEF IncrementFails, WalkStep, Error, sysfs
  <2> QED
    BY <2>1 DEF KeptInv, OnHwmon, OnDevice, Read, Undisturbed
<1>5. CASE WalkStep /\ ~Error
  <2>1. UNCHANGED <<state, present, changed>>
    BY <1>5 DEF WalkStep, sysfs
  <2>2. \A x : Undisturbed(x)' <=> Undisturbed(x)
    BY <2>1 DEF Undisturbed
  <2>3. \A s \in Sensor : HwmonOf[s] \in Hwmon /\ s # None /\ HwmonOf[s] # None
    BY HwmonOfAssumption, NoneAssumption
  <2>4. CASE ListThermal
    <3>1. /\ walk' = "zones" /\ readings' = <<>> /\ outcome' = None
          /\ todo' = ZonesThere
      BY <1>5, <2>4 DEF ListThermal, Open, PlaceInv
    <3>2. \A x : ~Read(x)'
      BY <3>1 DEF Read
    <3> QED
      BY <2>1, <2>2, <3>1, <3>2 DEF KeptInv, OnHwmon, OnDevice, ZonesThere, None
  <2>5. CASE VisitZone
    <3>1. PICK z \in ZonesThere \ visited :
            /\ todo' = todo \ {z}
            /\ readings' = IF state[z] = "good" THEN Append(readings, z) ELSE readings
      BY <2>5 DEF VisitZone
    <3>2. walk = "zones" /\ walk' = "zones" /\ outcome' = outcome /\ outcome = None /\ z \in Zone
      BY <2>5 DEF VisitZone, ZonesThere, PlaceInv
    <3>3. \A y : Read(y)' <=> Read(y) \/ (y = z /\ state[z] = "good")
      <4>1. CASE state[z] = "good"
        BY <3>1, <3>2, <4>1, ReadMore
      <4>2. CASE state[z] # "good"
        BY <3>1, <4>2 DEF Read
      <4> QED
        BY <4>1, <4>2
    <3> QED
      BY <2>1, <2>2, <3>1, <3>2, <3>3 DEF KeptInv, OnHwmon, OnDevice, None
  <2>6. CASE ListHwmon
    <3>1. /\ walk = "zones" /\ todo = {} /\ walk' = "hwmons" /\ todo' = present
          /\ UNCHANGED <<hwmon, sensors, sensor, readings, outcome>>
      BY <1>5, <2>6 DEF ListHwmon, Open
    <3>2. \A x : Read(x)' <=> Read(x)
      BY <3>1 DEF Read
    <3>3. \A s \in Sensor : state[s] # "absent" => Pending(s)'
      BY <3>1 DEF KeptInv, Pending
    <3>4. outcome = None /\ sensor = None
      BY <3>1 DEF PlaceInv, Place
    <3> QED
      BY <2>1, <2>2, <3>1, <3>2, <3>3, <3>4 DEF KeptInv, OnHwmon, OnDevice, None
  <2>7. CASE VisitHwmon
    <3>1. PICK h \in present : todo' = todo \ {h} /\ hwmon' = h
      BY <2>7 DEF VisitHwmon
    <3>2. /\ walk = "hwmons" /\ walk' = "list_device" /\ outcome = None
          /\ UNCHANGED <<sensors, sensor, readings, outcome>>
      BY <2>7 DEF VisitHwmon, PlaceInv
    <3>3. \A x : Read(x)' <=> Read(x)
      BY <3>2 DEF Read
    <3>4. \A s \in Sensor : Pending(s) => Pending(s)'
      BY <2>3, <3>1, <3>2 DEF Pending, PlaceInv, Place
    <3> QED
      BY <2>1, <2>2, <3>2, <3>3, <3>4 DEF KeptInv, OnHwmon, OnDevice, None
  <2>8. CASE ListDevice
    <3>1. /\ walk = "list_device" /\ walk' = "device" /\ outcome = None
          /\ sensors' = SensorsIn(hwmon, "device")
          /\ sensors = {} /\ sensor = None
          /\ UNCHANGED <<todo, hwmon, sensor, readings, outcome>>
      BY <1>5, <2>8 DEF ListDevice, ListPlace, PlaceInv, Place
    <3>2. \A x : Read(x)' <=> Read(x)
      BY <3>1 DEF Read
    <3>3. \A s \in Sensor : state[s] # "absent" /\ Pending(s) => Pending(s)'
      BY <2>3, <3>1, PlaceOfAssumption DEF Pending, SensorsIn, SensorsOf, Place
    <3> QED
      BY <2>1, <2>2, <3>1, <3>2, <3>3 DEF KeptInv, OnHwmon, OnDevice, None
  <2>9. CASE ListSelf
    <3>1. /\ walk = "device" /\ walk' = "self" /\ outcome = None
          /\ sensors' = SensorsIn(hwmon, "self")
          /\ sensors = {} /\ sensor = None
          /\ UNCHANGED <<todo, hwmon, sensor, readings, outcome>>
      BY <1>5, <2>9 DEF ListSelf, ListPlace, PlaceInv
    <3>2. \A x : Read(x)' <=> Read(x)
      BY <3>1 DEF Read
    <3>3. \A s \in Sensor : state[s] # "absent" /\ Pending(s) => Pending(s)'
      BY <2>3, <3>1 DEF Pending, SensorsIn, SensorsOf
    <3> QED
      BY <2>1, <2>2, <3>1, <3>2, <3>3 DEF KeptInv, OnHwmon, OnDevice, None
  <2>10. CASE VisitSensor
    <3>1. PICK s \in SensorsIn(hwmon, walk) :
            sensors' = sensors \ {s} /\ sensor' = s
      BY <2>10 DEF VisitSensor
    <3>2. /\ walk \in {"device", "self"} /\ outcome = None /\ sensor = None
          /\ UNCHANGED <<walk, todo, hwmon, readings, outcome>>
      BY <2>10 DEF VisitSensor, Place, PlaceInv
    <3>3. \A x : Read(x)' <=> Read(x)
      BY <3>2 DEF Read
    <3>4. \A r \in Sensor : Pending(r) => Pending(r)'
      BY <2>3, <3>1, <3>2 DEF Pending
    <3>5. state[s] # "absent"
      BY <3>1 DEF SensorsIn
    <3> QED
      BY <2>1, <2>2, <3>1, <3>2, <3>3, <3>4, <3>5 DEF KeptInv, OnHwmon, OnDevice, None
  <2>11. CASE ReadSensor
    <3>1. /\ sensor \in Sensor /\ outcome = None /\ state[sensor] = "good"
          /\ readings' = Append(readings, sensor) /\ sensor' = None
          /\ UNCHANGED <<walk, todo, hwmon, sensors, outcome>>
      BY <1>5, <2>11 DEF ReadSensor, TypeOK
    <3>2. walk \in {"device", "self"}
      BY <2>11, <3>1 DEF ReadSensor, PlaceInv, Place
    <3>3. \A x : Read(x)' <=> Read(x) \/ x = sensor
      BY <3>1, ReadMore
    <3>4. \A s \in Sensor : Pending(s) => Pending(s)' \/ s = sensor
      BY <3>1 DEF Pending
    <3> QED
      BY <2>1, <2>2, <3>1, <3>2, <3>3, <3>4 DEF KeptInv, OnHwmon, OnDevice, None
  <2>12. CASE NextHwmon
    <3>1. /\ walk = "self" /\ sensors = {} /\ sensor = None
          /\ walk' = "hwmons" /\ outcome = None
          /\ UNCHANGED <<todo, sensors, sensor, readings, outcome>>
      BY <2>12 DEF NextHwmon, PlaceInv
    <3>2. \A x : Read(x)' <=> Read(x)
      BY <3>1 DEF Read
    <3>3. \A s \in Sensor : Pending(s) => Pending(s)'
      BY <2>3, <3>1 DEF Pending
    <3> QED
      BY <2>1, <2>2, <3>1, <3>2, <3>3 DEF KeptInv, OnHwmon, OnDevice, None
  <2>13. CASE Return
    <3>1. /\ walk = "hwmons" /\ todo = {} /\ walk' = "end" /\ outcome' = "value"
          /\ sensors = {} /\ sensor = None /\ hwmon = None
          /\ UNCHANGED readings
      BY <2>13 DEF Return, PlaceInv, OnDevice, Place
    <3>2. \A x : Read(x)' <=> Read(x)
      BY <3>1 DEF Read
    <3>3. \A s \in Sensor : ~Pending(s)
      BY <2>3, <3>1 DEF Pending
    <3> QED
      BY <2>1, <2>2, <3>1, <3>2, <3>3 DEF KeptInv, OnHwmon, OnDevice
  <2> QED
    BY <1>5, <2>4, <2>5, <2>6, <2>7, <2>8, <2>9, <2>10, <2>11, <2>12, <2>13 DEF WalkStep
<1> QED
  BY <1>1, <1>2, <1>3, <1>4, <1>5 DEF LinuxNext

LEMMA ListedStep ==
  TypeOK /\ PlaceInv /\ ListedInv /\ [LinuxNext]_linuxVars => ListedInv'
<1> SUFFICES ASSUME TypeOK, PlaceInv, ListedInv, [LinuxNext]_linuxVars PROVE ListedInv'
  OBVIOUS
<1> USE DEF OnHwmon, OnDevice
<1>1. CASE UNCHANGED linuxVars
  BY <1>1 DEF linuxVars, sysfs, walkVars, ListedInv
<1>2. CASE ReadAll \/ Forget
  <2>1. walk' \in {"idle", "list_thermal"} /\ outcome' = None
    BY <1>2 DEF ReadAll, Forget, PlaceInv
  <2> QED
    BY <2>1 DEF ListedInv, Place, None
<1>3. CASE SysfsChanges
  <2>1. /\ UNCHANGED <<walk, hwmon, outcome>>
        /\ \A h \in Hwmon : h \notin changed' =>
             /\ h \notin changed
             /\ h \in present' <=> h \in present
             /\ places'[h] = places[h]
             /\ h \in todo => h \in todo'
        /\ \A d \in Root : d \notin changed' =>
             d \notin changed /\ (d \in listable' <=> d \in listable)
        /\ changed \subseteq changed'
    BY <1>3, ChangeIsNoted
  <2>2. present' \subseteq Hwmon
    BY <1>3, LinuxTypes DEF LinuxNext, TypeOK
  <2>3. {"thermal", "hwmon"} \subseteq listable' \union changed' \/
          (\E d \in Root : d \notin listable \union changed)
    BY <2>1 DEF Root
  <2>4. \A d \in Root : d \in listable \union changed => d \in listable' \union changed'
    BY <2>1
  <2>5. OnDevice => hwmon \in Hwmon
    BY DEF PlaceInv
  <2> QED
    BY <2>1, <2>2, <2>4, <2>5 DEF ListedInv, Root, Place
<1>4. CASE IncrementFails \/ (WalkStep /\ Error)
  <2>1. walk' = "end" /\ outcome' # "value"
    BY <1>4 DEF IncrementFails, Error
  <2> QED
    BY <2>1 DEF ListedInv, Place
<1>5. CASE WalkStep /\ ~Error
  <2>1. UNCHANGED <<present, listable, places, changed>>
    BY <1>5 DEF WalkStep, sysfs
  <2> USE DEF ListedInv, Place
  <2>2. CASE ListThermal
    <3>1. /\ walk' = "zones" /\ outcome' = None /\ "thermal" \in listable
      BY <1>5, <2>2 DEF ListThermal, Open, PlaceInv
    <3> QED
      BY <2>1, <3>1 DEF None
  <2>3. CASE VisitZone
    BY <2>1, <2>3 DEF VisitZone
  <2>4. CASE ListHwmon
    <3>1. /\ walk = "zones" /\ walk' = "hwmons" /\ "hwmon" \in listable /\ todo' = present
          /\ outcome' = outcome /\ outcome = None
      BY <1>5, <2>4 DEF ListHwmon, Open, PlaceInv
    <3> QED
      BY <2>1, <3>1 DEF None
  <2>5. CASE VisitHwmon
    <3>1. PICK h \in present : todo' = todo \ {h} /\ hwmon' = h
      BY <2>5 DEF VisitHwmon
    <3>2. /\ walk = "hwmons" /\ walk' = "list_device" /\ hwmon = None
          /\ outcome' = outcome
      BY <2>5 DEF VisitHwmon, PlaceInv
    <3>3. \A g \in present : g # None
      BY NoneAssumption DEF TypeOK
    <3> QED
      BY <2>1, <3>1, <3>2, <3>3
  <2>6. CASE ListDevice
    <3>1. /\ walk = "list_device" /\ walk' = "device" /\ "device" \in places[hwmon]
          /\ UNCHANGED <<todo, hwmon, outcome>>
      BY <1>5, <2>6 DEF ListDevice, ListPlace
    <3> QED
      BY <2>1, <3>1
  <2>7. CASE ListSelf
    <3>1. /\ walk = "device" /\ walk' = "self" /\ "self" \in places[hwmon]
          /\ UNCHANGED <<todo, hwmon, outcome>>
      BY <1>5, <2>7 DEF ListSelf, ListPlace
    <3>2. places[hwmon] \subseteq Place
      BY <3>1 DEF PlaceInv, TypeOK
    <3>3. hwmon \in changed \/ places[hwmon] = Place
      BY <3>1, <3>2
    <3> QED
      BY <2>1, <3>1, <3>3
  <2>8. CASE VisitSensor
    BY <2>1, <2>8 DEF VisitSensor
  <2>9. CASE ReadSensor
    BY <1>5, <2>1, <2>9 DEF ReadSensor
  <2>10. CASE NextHwmon
    <3>1. walk = "self" /\ walk' = "hwmons" /\ UNCHANGED <<todo, outcome>>
      BY <2>10 DEF NextHwmon
    <3> QED
      BY <2>1, <3>1
  <2>11. CASE Return
    <3>1. /\ walk = "hwmons" /\ todo = {} /\ walk' = "end" /\ hwmon = None
      BY <2>11 DEF Return, PlaceInv
    <3>2. \A g \in present : g # None
      BY NoneAssumption DEF TypeOK
    <3> QED
      BY <2>1, <3>1, <3>2
  <2> QED
    BY <1>5, <2>2, <2>3, <2>4, <2>5, <2>6, <2>7, <2>8, <2>9, <2>10, <2>11 DEF WalkStep
<1> QED
  BY <1>1, <1>2, <1>3, <1>4, <1>5 DEF LinuxNext

LEMMA ReasonStep ==
  TypeOK /\ PlaceInv /\ KeptInv /\ ListedInv /\ ReasonInv /\ [LinuxNext]_linuxVars
    => ReasonInv'
<1> SUFFICES ASSUME TypeOK, PlaceInv, KeptInv, ListedInv, ReasonInv,
                    [LinuxNext]_linuxVars, outcome' = "error"
             PROVE  ReasonInv'
  BY DEF ReasonInv
<1>1. CASE UNCHANGED linuxVars
  BY <1>1 DEF linuxVars, sysfs, walkVars, ReasonInv, Broken, Undisturbed
<1>2. ~(ReadAll \/ Forget \/ IncrementFails)
  BY DEF ReadAll, Forget, IncrementFails, PlaceInv, None
<1>3. ~SysfsChanges
  <2>1. SysfsChanges => outcome' = outcome /\ walk # "end"
    BY ChangeIsNoted DEF SysfsChanges
  <2> QED
    BY <2>1 DEF PlaceInv, None
<1>4. CASE WalkStep /\ Error
  <2>1. UNCHANGED <<state, present, listable, places, changed>>
    BY <1>4 DEF WalkStep, sysfs
  <2> DEFINE OtherChange == changed \intersect (Sensor \union Hwmon \union Root) # {}
  <2> SUFFICES Broken \/ OtherChange
    BY <2>1 DEF ReasonInv, Broken, Undisturbed
  <2>2. CASE walk = "list_thermal" /\ "thermal" \notin listable
    BY <2>2 DEF Broken, Root
  <2>3. CASE walk = "zones" /\ "hwmon" \notin listable
    BY <2>3 DEF Broken, Root
  <2>4. CASE walk \in {"list_device", "device"} /\ places[hwmon] # Place
    <3>1. hwmon \in Hwmon /\ hwmon \in present \union changed
      BY <2>4 DEF PlaceInv, ListedInv, OnDevice
    <3> QED
      BY <2>4, <3>1 DEF Broken
  <2>5. CASE sensor # None /\ outcome = None /\ state[sensor] # "good"
    <3>1. sensor \in Sensor /\ HwmonOf[sensor] \in Hwmon
      BY <2>5, HwmonOfAssumption DEF TypeOK
    <3>2. walk \in Place
      BY <2>5 DEF PlaceInv
    <3>3. Undisturbed(sensor) => state[sensor] # "absent"
      BY <2>5, <3>2 DEF KeptInv, OnHwmon, OnDevice, Place
    <3>4. CASE Undisturbed(sensor)
      BY <2>5, <3>1, <3>3, <3>4 DEF Broken, TypeOK
    <3>5. CASE ~Undisturbed(sensor)
      BY <3>1, <3>5 DEF Undisturbed
    <3> QED
      BY <3>4, <3>5
  <2> QED
    BY <1>4, <2>2, <2>3, <2>4, <2>5, ErrorsComeFrom DEF Place
<1>5. CASE WalkStep /\ ~Error
  <2>1. walk # "end"
    BY <1>5 DEF WalkStep, ListThermal, VisitZone, ListHwmon, VisitHwmon, ListDevice,
                ListSelf, VisitSensor, ReadSensor, NextHwmon, Return, Place, PlaceInv
  <2>2. outcome' \in {None, "value"}
    BY <1>5, <2>1 DEF WalkStep, ListThermal, VisitZone, ListHwmon, VisitHwmon, ListDevice,
                ListSelf, ListPlace, Open, VisitSensor, ReadSensor, NextHwmon, Return, PlaceInv
  <2> QED
    BY <2>2 DEF None
<1> QED
  BY <1>1, <1>2, <1>3, <1>4, <1>5 DEF LinuxNext

LEMMA LinuxInit == Init => LinuxInv
<1> SUFFICES ASSUME Init PROVE LinuxInv
  OBVIOUS
<1>1. TypeOK
  BY DEF Init, TypeOK
<1>2. PlaceInv /\ OnceInv
  BY DEF Init, PlaceInv, OnceInv, ReadOnce, OnHwmon, OnDevice
<1>3. KeptInv
  BY DEF Init, KeptInv, Read, OnHwmon, OnDevice, None
<1>4. ListedInv /\ ReasonInv
  BY DEF Init, ListedInv, ReasonInv, OnHwmon, OnDevice, None, Place
<1> QED
  BY <1>1, <1>2, <1>3, <1>4 DEF LinuxInv

LEMMA LinuxStep == LinuxInv /\ [LinuxNext]_linuxVars => LinuxInv'
  BY LinuxTypes, PlaceStep, OnceStep, KeptStep, ListedStep, ReasonStep DEF LinuxInv

\* The invariant gives what is said of a walk that has come to its end.
LEMMA LinuxSafe ==
  LinuxInv => TypeOK /\ ReadOnce /\ EverythingRead /\ ErrorIffBroken
<1> SUFFICES ASSUME LinuxInv PROVE EverythingRead /\ ErrorIffBroken
  BY DEF LinuxInv, OnceInv
<1>1. ASSUME outcome = "value", NEW x \in Zone \union Sensor, Undisturbed(x)
      PROVE  state[x] = "good" <=> Read(x)
  BY <1>1 DEF LinuxInv, KeptInv
<1>2. EverythingRead
  BY <1>1 DEF EverythingRead, Read
<1>3. outcome = "value" => ~Broken
  <2>1. ASSUME outcome = "value", NEW s \in Sensor, Undisturbed(s)
        PROVE  state[s] # "bad"
    BY <2>1 DEF LinuxInv, KeptInv
  <2> QED
    BY <2>1 DEF LinuxInv, ListedInv, Broken, Root
<1>4. ErrorIffBroken
  BY <1>3 DEF LinuxInv, ReasonInv, ErrorIffBroken
<1> QED
  BY <1>2, <1>4

\* No file of sysfs is read twice in a call, although files come and go while
\* the walk goes on.
THEOREM NothingReadTwice == LinuxSpec => []ReadOnce
  BY LinuxInit, LinuxStep, LinuxSafe, PTL DEF LinuxSpec

\* Whatever changes in sysfs during a call that succeeds, of the rest it reads
\* exactly what can be read, in both places of every hwmon device.
THEOREM NothingLeftOut == LinuxSpec => []EverythingRead
  BY LinuxInit, LinuxStep, LinuxSafe, PTL DEF LinuxSpec

\* And a sensor that cannot be read all the time, or a directory that cannot be
\* listed, makes the call fail, for which there is no other reason than a change.
THEOREM FailsWhenBroken == LinuxSpec => []ErrorIffBroken
  BY LinuxInit, LinuxStep, LinuxSafe, PTL DEF LinuxSpec

-----------------------------------------------------------------------------
\* The arithmetic of unsigned counters.

\* A counter that has advanced by less than the modulus, wrapped around or not,
\* differs from what it was by just that.
LEMMA DeltaAfterWrap ==
  ASSUME NEW c \in Counter, NEW i \in 0 .. Modulus - 1
  PROVE  /\ (c + i) % Modulus \in Counter
         /\ Delta((c + i) % Modulus, c) = i
<1>1. Modulus \in Nat /\ Modulus > 0 /\ c \in Nat /\ c < Modulus /\ i \in Nat /\ i < Modulus
  BY ModulusAssumption DEF Counter
<1>2. CASE c + i < Modulus
  <2>1. (c + i) % Modulus = c + i
    BY <1>1, <1>2
  <2>2. i % Modulus = i
    BY <1>1
  <2> QED
    BY <1>1, <1>2, <2>1, <2>2 DEF Counter, Delta
<1>3. CASE c + i >= Modulus
  <2>1. (c + i) % Modulus = c + i - Modulus
    BY <1>1, <1>3
  <2>2. (i - Modulus) % Modulus = i
    BY <1>1
  <2>3. (c + i - Modulus) - c = i - Modulus
    BY <1>1
  <2> QED
    BY <1>1, <1>3, <2>1, <2>2, <2>3 DEF Counter, Delta
<1> QED
  BY <1>1, <1>2, <1>3

\* What is computed for a part of a whole is a percentage, and close to it.
LEMMA PercentsOfPart ==
  ASSUME NEW i \in Nat, NEW b \in Nat, NEW p \in Percents(i, i + b)
  PROVE  /\ p \in 0 .. 100
         /\ p \in Percent(i, i + b) - 1 .. Percent(i, i + b) + 1
         /\ Percent(i, i + b) # -1
<1>1. Percent(i, i + b) \in 0 .. 100
  <2>1. CASE i + b = 0
    BY <2>1 DEF Percent
  <2>2. CASE i + b > 0
    <3>1. (b * 100) \div (i + b) \in 0 .. 100
      BY <2>2
    <3>2. (i + b) - i = b
      OBVIOUS
    <3> QED
      BY <2>2, <3>1, <3>2 DEF Percent
  <2> QED
    BY <2>1, <2>2
<1>2. CASE p = Percent(i, i + b)
  BY <1>1, <1>2
<1>3. CASE p # Percent(i, i + b)
  <2>1. /\ i + b # 0 /\ i # i + b
        /\ p \in Percent(i, i + b) - 1 .. Percent(i, i + b) + 1
        /\ i < i + b => p \in 0 .. 100
    BY <1>3 DEF Percents
  <2> QED
    BY <1>1, <2>1
<1> QED
  BY <1>2, <1>3

-----------------------------------------------------------------------------
\* The load calculator.

\* Once GetSystemTimes() has succeeded, the members are what the counters were
\* then, which do not advance between the calls; before, they are zero.  A
\* calculator that is waiting has been asked already.
CalcInv ==
  /\ clockIdle \in Counter /\ clockTotal \in Counter
  /\ polled \in BOOLEAN
  /\ IF polled THEN previousIdle = clockIdle /\ previousTotal = clockTotal ELSE Fresh
  /\ calc = "wait" => polled
  /\ calc # "end" => sample = NoSample
  /\ LoadOfInterval

\* A call of current() whose result is used comes after another one.
LEMMA CalcPoll ==
  ASSUME CalcInv, NEW last \in BOOLEAN, Poll(last), last => polled,
         last <=> calc' = "end", calc # "end"
  PROVE  CalcInv'
<1>1. PICK i \in 0 .. MaxStep, b \in 0 .. MaxStep :
        /\ Elapse(i, b)
        /\ \E p \in Percents(Delta(clockIdle', previousIdle),
                           Delta(clockTotal', previousTotal)) :
             sample' = IF last
                       THEN [value |-> p, exact |-> IF polled THEN Percent(i, i + b) ELSE -1]
                       ELSE sample
  BY DEF Poll
<1>2. previousIdle' = clockIdle' /\ previousTotal' = clockTotal' /\ polled' = TRUE
  BY DEF Poll
<1>3. /\ i \in Nat /\ b \in Nat /\ i \in 0 .. Modulus - 1
      /\ i + b \in 0 .. Modulus - 1
  BY StepAssumption, ModulusAssumption
<1>4. /\ clockIdle' = (clockIdle + i) % Modulus
      /\ clockTotal' = (clockTotal + (i + b)) % Modulus
  <2>1. clockTotal + i + b = clockTotal + (i + b)
    BY <1>3, ModulusAssumption DEF CalcInv, Counter
  <2> QED
    BY <1>1, <2>1 DEF Elapse
<1>5. clockIdle \in Counter /\ clockTotal \in Counter
  BY DEF CalcInv
<1>6. /\ clockIdle' \in Counter /\ Delta(clockIdle', clockIdle) = i
      /\ clockTotal' \in Counter /\ Delta(clockTotal', clockTotal) = i + b
  BY <1>3, <1>4, <1>5, DeltaAfterWrap
<1>7. CASE last
  <2>1. polled /\ previousIdle = clockIdle /\ previousTotal = clockTotal
    BY <1>7 DEF CalcInv
  <2>2. PICK p \in Percents(i, i + b) : sample' = [value |-> p, exact |-> Percent(i, i + b)]
    BY <1>1, <1>6, <1>7, <2>1
  <2>3. /\ sample'.exact # -1
        /\ sample'.value \in sample'.exact - 1 .. sample'.exact + 1
        /\ sample'.value \in 0 .. 100
    BY <1>3, <2>2, PercentsOfPart
  <2> QED
    BY <1>2, <1>6, <1>7, <2>3 DEF CalcInv, LoadOfInterval
<1>8. CASE ~last
  <2>1. sample' = NoSample /\ calc' # "end"
    BY <1>1, <1>8 DEF CalcInv
  <2> QED
    BY <1>2, <1>6, <2>1 DEF CalcInv, LoadOfInterval, NoSample
<1> QED
  BY <1>7, <1>8

LEMMA CalcInit_Inv == CalcInit => CalcInv
<1> SUFFICES ASSUME CalcInit PROVE CalcInv
  OBVIOUS
<1>1. clockIdle \in Counter /\ clockTotal \in Counter
  BY ModulusAssumption DEF CalcInit, Counter
<1> QED
  BY <1>1 DEF CalcInit, CalcInv, Fresh, LoadOfInterval

LEMMA CalcStep == CalcInv /\ [CalcNext]_calcVars => CalcInv'
<1> SUFFICES ASSUME CalcInv, [CalcNext]_calcVars PROVE CalcInv'
  OBVIOUS
<1>1. CASE UNCHANGED calcVars
  BY <1>1 DEF calcVars, CalcInv, Fresh, LoadOfInterval
<1>2. CASE PollFails \/ ForgetSample
  BY <1>2 DEF PollFails, ForgetSample, CalcInv, Fresh, LoadOfInterval
<1>3. CASE StartCalc /\ ~PollFails
  <2>1. /\ calc = "idle" /\ Poll(~Fresh)
        /\ calc' = IF Fresh THEN "wait" ELSE "end"
    BY <1>3 DEF StartCalc
  <2>2. ~Fresh => polled
    BY DEF CalcInv
  <2>3. CASE Fresh
    <3>1. Poll(FALSE) /\ calc' = "wait"
      BY <2>1, <2>3
    <3> QED
      BY <2>1, <3>1, CalcPoll
  <2>4. CASE ~Fresh
    <3>1. Poll(TRUE) /\ calc' = "end"
      BY <2>1, <2>4
    <3> QED
      BY <2>1, <2>2, <2>4, <3>1, CalcPoll
  <2> QED
    BY <2>3, <2>4
<1>4. CASE AskAgain /\ ~PollFails
  BY <1>4, CalcPoll DEF AskAgain, CalcInv
<1> QED
  BY <1>1, <1>2, <1>3, <1>4 DEF CalcNext

-----------------------------------------------------------------------------
\* The programs use the readers as the specifications of those say.

LEMMA ReadersStep ==
  [ProgramsNext]_allVars
    => /\ [LinuxNext]_linuxVars
       /\ [WmiStep \/ ForgetWmi]_wmiVars
       /\ [CalcNext]_calcVars
<1> SUFFICES ASSUME [ProgramsNext]_allVars
             PROVE  /\ [LinuxNext]_linuxVars
                    /\ [WmiStep \/ ForgetWmi]_wmiVars
                    /\ [CalcNext]_calcVars
  OBVIOUS
<1>1. CASE UNCHANGED readers
  BY <1>1 DEF readers, linuxVars, wmiVars, calcVars
<1>2. CASE UNCHANGED allVars
  BY <1>2 DEF allVars
<1>3. CASE ThermalStep \/ ThermalDone \/ Environment
  BY <1>1, <1>3 DEF ThermalStep, ThermalDone, Environment, LinuxNext
<1>4. CASE LoadStep \/ LoadDone
  BY <1>4 DEF LoadStep, LoadDone, CalcNext
<1>5. CASE Aborted \/ ReadProcLoadavg \/ Save
  BY <1>1, <1>5 DEF Aborted, ReadProcLoadavg, Save
<1> QED
  BY <1>1, <1>2, <1>3, <1>4, <1>5 DEF ProgramsNext, Run

\* Whatever a program does, its walk over sysfs is one of ThermalLinux: it reads
\* nothing twice, leaves out nothing that keeps still, and fails when something
\* is broken.
THEOREM ProgramsWalk ==
  ProgramsSpec => [](TypeOK /\ ReadOnce /\ EverythingRead /\ ErrorIffBroken)
<1>1. ProgramsInit => Init
  BY DEF ProgramsInit
<1> QED
  BY <1>1, ReadersStep, LinuxInit, LinuxStep, LinuxSafe, PTL DEF ProgramsSpec

\* And its use of WMI leaves nothing behind.
THEOREM ProgramsRelease == ProgramsSpec => []NothingLeaks
<1>1. ProgramsInit => WmiInit
  BY DEF ProgramsInit
<1>2. WmiInit /\ [][WmiStep \/ ForgetWmi]_wmiVars => []NothingLeaks
  BY AllReleased DEF WmiSpec
<1> QED
  BY <1>1, <1>2, ReadersStep, PTL DEF ProgramsSpec

\* The load that a program gets on Windows is that of the time since the counters
\* were read before, but for the rounding, for counters of any width.
THEOREM ProgramsLoad == ProgramsSpec => []LoadOfInterval
<1>1. ProgramsInit => CalcInit
  BY DEF ProgramsInit
<1>2. CalcInv => LoadOfInterval
  BY DEF CalcInv
<1> QED
  BY <1>1, <1>2, ReadersStep, CalcInit_Inv, CalcStep, PTL DEF ProgramsSpec

-----------------------------------------------------------------------------
\* main().

\* From log() on, the logger has a type that the build supports; before, it has
\* that or none.
SettingInv ==
  prog = "logger" =>
    /\ setting \in [LoggerOptions -> {"", "path"} \union Supported]
    /\ setting["type"] \in Supported \union {""}
    /\ phase \in {"log", "thermal", "load", "save"} => setting["type"] \in Supported

MainInv == SettingInv /\ OutputIsDirectory

LEMMA OptionsOfLogger == Options["logger"] = LoggerOptions
  BY DEF Options, Program

LEMMA MainInit == ProgramsInit => MainInv
<1> SUFFICES ASSUME ProgramsInit PROVE MainInv
  OBVIOUS
<1>1. phase = "args" /\ setting = [o \in Options[prog] |-> ""]
  BY DEF ProgramsInit
<1> QED
  BY <1>1, OptionsOfLogger DEF MainInv, SettingInv, OutputIsDirectory, LoggerOptions

\* The ways in which main() goes on.
LEMMA Exits ==
  ASSUME MainInv, NEW c, Exit(c)
  PROVE  MainInv'
  BY DEF MainInv, SettingInv, OutputIsDirectory, Supported, Exit

LEMMA GoesOn ==
  ASSUME MainInv, NEW there, Goto(there),
         prog = "logger" /\ there \in {"log", "thermal", "load", "save"}
           => phase \in {"log", "thermal", "load", "save"},
         there = "generate" => dest = "dir"
  PROVE  MainInv'
<1>1. /\ phase' = there
      /\ sqlite' = sqlite /\ prog' = prog /\ setting' = setting /\ dest' = dest
  BY DEF Goto
<1>2. SettingInv'
  BY <1>1 DEF MainInv, SettingInv, Supported
<1>3. OutputIsDirectory'
  BY <1>1 DEF OutputIsDirectory
<1> QED
  BY <1>2, <1>3 DEF MainInv

LEMMA OptionIsSet ==
  ASSUME MainInv, NEW o, NEW v \in Values(o), SetOption(o, v)
  PROVE  MainInv'
<1>1. CASE Exit("1")
  BY <1>1, Exits
<1>2. CASE ~Exit("1")
  <2>1. /\ phase = "args" /\ phase' = "args"
        /\ o \in Options[prog]
        /\ o = "type" => v \in Supported
        /\ setting' = [setting EXCEPT ![o] = v]
        /\ sqlite' = sqlite /\ prog' = prog
    BY <1>2 DEF SetOption
  <2>2. ASSUME prog = "logger"
        PROVE  /\ setting' \in [LoggerOptions -> {"", "path"} \union Supported]
               /\ setting'["type"] \in Supported \union {""}
    <3>1. o \in LoggerOptions /\ "type" \in LoggerOptions
      BY <2>1, <2>2, OptionsOfLogger DEF LoggerOptions
    <3>2. v \in {"", "path"} \union Supported
      BY <2>1 DEF Values
    <3>3. /\ setting \in [LoggerOptions -> {"", "path"} \union Supported]
          /\ setting["type"] \in Supported \union {""}
      BY <2>2 DEF MainInv, SettingInv
    <3> QED
      BY <2>1, <3>1, <3>2, <3>3
  <2>3. Supported' = Supported
    BY <2>1 DEF Supported
  <2> QED
    BY <2>1, <2>2, <2>3 DEF MainInv, SettingInv, OutputIsDirectory
<1> QED
  BY <1>1, <1>2

LEMMA LoggerIsStarted == ASSUME MainInv, StartLogger PROVE MainInv'
<1>1. CASE setting["file"] = ""
  BY <1>1, Exits DEF StartLogger
<1>2. CASE setting["file"] # ""
  <2>1. /\ prog = "logger" /\ phase' = "log" /\ prog' = prog /\ sqlite' = sqlite
        /\ setting' = [setting EXCEPT !["type"] =
                         IF setting["type"] = "" THEN DefaultFileType ELSE setting["type"]]
    BY <1>2 DEF StartLogger
  <2>2. DefaultFileType \in Supported
    BY DEF DefaultFileType, Supported
  <2>3. /\ setting \in [LoggerOptions -> {"", "path"} \union Supported]
        /\ setting["type"] \in Supported \union {""}
        /\ "type" \in LoggerOptions
    BY <2>1 DEF MainInv, SettingInv, LoggerOptions
  <2>4. /\ setting' \in [LoggerOptions -> {"", "path"} \union Supported]
        /\ setting'["type"] \in Supported
    BY <2>1, <2>2, <2>3
  <2>5. Supported' = Supported
    BY <2>1 DEF Supported
  <2> QED
    BY <2>1, <2>4, <2>5 DEF MainInv, SettingInv, OutputIsDirectory
<1> QED
  BY <1>1, <1>2

LEMMA MainStep == MainInv /\ [ProgramsNext]_allVars => MainInv'
<1> SUFFICES ASSUME MainInv, [ProgramsNext]_allVars PROVE MainInv'
  OBVIOUS
<1>1. CASE UNCHANGED progVars
  BY <1>1 DEF progVars, MainInv, SettingInv, OutputIsDirectory, Supported
<1>2. CASE UNCHANGED allVars
  BY <1>1, <1>2 DEF allVars
<1>3. CASE OtherArgument \/ Work \/ Aborted
  BY <1>3, Exits DEF OtherArgument, Work, Aborted
<1>4. CASE StartGenerator \/ StartDb2Csv
  BY <1>4, Exits, GoesOn DEF StartGenerator, StartDb2Csv
<1>5. CASE StartInfo
  BY <1>5, GoesOn DEF StartInfo
<1>6. CASE LoadTemplate \/ IsDirectory
  BY <1>6, Exits, GoesOn DEF LoadTemplate, IsDirectory
<1>7. CASE Exists
  BY <1>7, Exits, GoesOn DEF Exists
<1>8. CASE CreateDirectories
  <2>1. CASE Exit("3")
    BY <2>1, Exits
  <2>2. CASE ~Exit("3")
    <3>1. /\ phase' = "generate" /\ dest' = "dir"
          /\ sqlite' = sqlite /\ prog' = prog /\ setting' = setting
      BY <1>8, <2>2 DEF CreateDirectories
    <3> QED
      BY <3>1 DEF MainInv, SettingInv, OutputIsDirectory, Supported
  <2> QED
    BY <2>1, <2>2
<1>9. CASE Log
  BY <1>9, Exits, GoesOn DEF Log
<1>10. CASE ThermalDone
  <2>1. phase = "thermal" /\ (Exit("2") \/ Goto("load"))
    BY <1>10 DEF ThermalDone
  <2> QED
    BY <2>1, Exits, GoesOn
<1>11. CASE LoadDone \/ ReadProcLoadavg
  <2>1. phase = "load" /\ (Exit("0") \/ Exit("2") \/ Goto("save"))
    BY <1>11 DEF LoadDone, ReadProcLoadavg, UseLoad
  <2> QED
    BY <2>1, Exits, GoesOn
<1>12. CASE Save
  <2>1. CASE Exit("2")
    BY <2>1, Exits
  <2>2. CASE ~Exit("2")
    <3>1. phase = "save" /\ Goto("thermal")
      BY <1>12, <2>2 DEF Save
    <3> QED
      BY <3>1, GoesOn
  <2> QED
    BY <2>1, <2>2
<1>13. CASE OthersCreate
  BY <1>13 DEF OthersCreate, MainInv, SettingInv, OutputIsDirectory, Supported
<1>14. CASE ThermalStep \/ LoadStep
  BY <1>1, <1>14 DEF ThermalStep, LoadStep
<1>15. CASE ParseArguments
  BY <1>3, <1>4, <1>5, <1>15, OptionIsSet, LoggerIsStarted DEF ParseArguments
<1>16. CASE Run
  BY <1>3, <1>6, <1>7, <1>8, <1>9, <1>10, <1>11, <1>12, <1>14, <1>16 DEF Run
<1>17. CASE Environment
  BY <1>1, <1>13, <1>17 DEF Environment
<1> QED
  BY <1>2, <1>15, <1>16, <1>17 DEF ProgramsNext

\* In either build, the logger gets a store for the type that it was started
\* with, and never a null pointer.
THEOREM StoreForType == ProgramsSpec => []StoreExists
<1>1. MainInv => StoreExists
  BY DEF MainInv, SettingInv, StoreExists, Create, Supported
<1> QED
  BY <1>1, MainInit, MainStep, PTL DEF ProgramsSpec

\* generate() is called with a path that is a directory, whatever others create
\* there before.
THEOREM DirectoryForPages == ProgramsSpec => []OutputIsDirectory
<1>1. MainInv => OutputIsDirectory
  BY DEF MainInv
<1> QED
  BY <1>1, MainInit, MainStep, PTL DEF ProgramsSpec
=============================================================================
