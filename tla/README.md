# TLA+ models of thermos

thermos logs temperatures and CPU load every five minutes and turns the log
into graphs or CSV files. This directory holds TLA+ modules for the parts of it
that keep state or meet other programs, the TLC configurations that check them,
and proofs for the TLA+ proof system. `PROJECT.json` maps every definition to
the lines it models. Paths below are relative to the repository.

## Inventory

| part | state | operations | hard because |
|---|---|---|---|
| `Logger` (`src/logger/Logger.cpp`) | when the next round is due | `log()`: read temperatures, read load, save, save, sleep, for ever | two saves per round, either may fail half-way; rounds that are late; kills and restarts |
| `storage::db`, writing (`lib/storage/db.*`) | the SQLite file: tables `device`, `reading` | `save()` = `prepare_db()`, then `insert_reading()` per reading | no transaction: every statement commits by itself; no busy timeout; no `UNIQUE`, no foreign key; several loggers may share a file |
| `storage::db`, reading | none | `get_devices()`, `get_device_id()`, `get_device_readings()`, `load()` | several statements on several connections, while loggers save |
| `sqlite::database`, `statement` | connection | `open`, `exec`, `prepare`, `table_exists`, `last_insert_id` | a step of another process between any two |
| `storage::csv` (`lib/storage/csv.hpp`) | a file, appended to | `save()` | the buffer is flushed in the middle of rows; errors show up at flush and close only |
| `thermos-db2csv` | name of the destination | load, save, load, save | two loads at two times; the name was free a moment ago |
| thermal readings, Linux (`lib/thermal/read_linux.cpp`) | none (sysfs) | `read_all()` | files come and go between test and use, and under the directory iterators; an error of one sensor fails everything |
| thermal readings, Windows (`lib/thermal/read_windows.cpp`) | COM objects | `read_wmi()` | each failing call has its own list of what to release; one waits for the WMI service without a limit |
| load readings, Linux | none | `read_proc_loadavg()` | – |
| load readings, Windows (`calculator`) | previous system times | `current()` | differences modulo 2^64; a fresh calculator has nothing to compare with |
| `Template` (`lib/templating`) | section, tags, includes | `load_from_str`, `load_section`, `tag`, `integrate`, `generate` | values stay set for later sections; the text is searched while it is replaced, in the order of a hash table |
| graph generator (`src/graph-generator`) | output files | `check_directory()`; `generate()`: a page per time span | the directory may appear in between; old and new pages mix after a failure |
| time conversion (`lib/storage/utilities.cpp`) | none | `time_to_string`, `string_to_time` | local time, which is put forward and back once a year |
| the four `main()`, factory, types | settings | arguments, checks, exit codes | two builds, two systems |
| version | none | – | – |

How they interact: the logger calls the readers, then a `store` (db or csv).
The graph generator and db2csv open the database file on their own, at any
time. The file is the only thing the programs share; there are no threads. So
the interleavings that matter are those of *processes*, statement by statement
in SQLite and buffer by buffer in a CSV file, plus sysfs that changes under
the walk that reads it.

What makes each part correct: the store is an append-only log and says the
truth about success (`ReadingLog`, `DbStore`); a round is stored whole and in
time (`Logger`); a reader gets all of a device's readings and no others
(`DbRetrieve`); an export to a file of its own has everything that was there (`Db2Csv`); a page is
that of its time span and of this run (`Pages`), in a file of its own
(`TimeSpan`), with each place of the template filled once (`TemplateText`);
dates come out as they went in, and time spans and orders are right up to the
change of the clock (`LocalTime`); all readable sensors are read, once
(`ThermalLinux`); nothing that was acquired is kept (`ThermalWmi`); a load is
that of the time since the last one (`LoadCalculator`); what `main()` lets
through, the functions behind it can do (`Programs`).

## Modules

| module | models | extends |
|---|---|---|
| `ReadingLog` | the abstract specification: what `storage::store::save()` promises to several callers | |
| `DbStore` | `db::save()` of several processes, one action per SQL statement | |
| `Subsequence` | readings that are in a file in their order, among others | |
| `SubsequenceProofs` | lemmas about that, for files that grow, and `LeastNumber` | `Subsequence`, TLAPS |
| `DbStoreProofs` | theorems about `DbStore` | `DbStore`, `SubsequenceProofs` |
| `Logger` | `Logger::log()` of several loggers over a store | `ReadingLog`, `Subsequence` |
| `LoggerProofs` | theorems about `Logger` | `Logger`, `SubsequenceProofs` |
| `DbRetrieve` | the graph generator's reading of the database while loggers save | `DbStore` |
| `DbRetrieveProofs` | theorems about `DbRetrieve` | `DbRetrieve`, `DbStoreProofs` |
| `Db2Csv` | db2csv with `db::load()` and `csv::save()` while loggers save | `DbStore` |
| `Db2CsvProofs` | theorems about `Db2Csv` | `Db2Csv`, `DbStoreProofs` |
| `Pages` | `generate()` of the graph generator with its template and output files | |
| `TemplateText` | class `Template` on texts: sections, search, escape, replace | |
| `TemplateProofs` | theorems about `TemplateText` | `TemplateText`, `SubsequenceProofs` |
| `LocalTime` | `time_to_string()`, `string_to_time()` and the queries that compare dates | |
| `TimeSpan` | `get_short_name()`, `get_human_readable_span()` | |
| `GraphProofs` | theorems about `Pages`, `TimeSpan` and `LocalTime` | these three, TLAPS |
| `ThermalLinux` | the walk over sysfs | |
| `ThermalWmi` | `read_wmi()` with the COM objects it holds | |
| `LoadCalculator` | `calculator` and the `read_all()` that keeps one | |
| `Programs` | the four `main()` with their readers, on either system and in either build | `ThermalLinux`, `ThermalWmi`, `LoadCalculator` |
| `ProgramsProofs` | theorems about `Programs` and its readers | `Programs`, TLAPS |
| `MCGraphs` | instances of `Pages`, `LocalTime`, `TemplateText`, `TimeSpan`, one at a time | these four |
| other `MC*` | small instances | their module |

`Logger` is built on the *promise* of the store and `DbStore` is shown to keep
that promise (`Implements`, checked by TLC and proved), so together they cover
a logger that writes to a database, without the product of the two.

### Correspondence with the code

* **DbStore.** `pc[p]` is the statement that process `p` is about to run:
  `table_exists` → (`create_device_table` → `create_reading_table`) → per
  reading `find_device` → (`insert_device`) → `insert_reading` → `return`.
  Every statement has the disjunct `Fails`: with no busy timeout
  (`lib/sqlite/database.cpp:29-42`) it may fail at any time, and then has no
  effect. `Crash` may happen everywhere. The two `CREATE TABLE`s of one
  `exec()` are two steps because SQLite commits each by itself.
  `deviceTable` and `readingTable` are sequences: ids are positions, as rows
  are never deleted. A device is the pair (name, origin).
* **Logger.** `phase[p]` is the place in the loop; `thermal`, `load` and `next`
  are its variables; `started` and `rounds` are history. `Quit` stands for
  every `return` of an error from `log()`, which ends the program. The steady
  clock is `now`. `users` is history: the processes that were ever started on
  the file.
* **DbRetrieve.** One action per statement. `MaxDate` has the case of the
  aggregate without rows. Any statement may fail (`Done`). A trace is a set of
  rows of table `reading`: the last SELECT has no `ORDER BY`.
* **Db2Csv.** `SelectedRows` is the `ORDER BY` of `load_impl()`, `Devices` its
  loop with the device at hand. CSV files are numbered as in `csv_name()`. The
  stream hands its buffer to the file when it is full, wherever that is in a
  row: a CSV file is a sequence of *fragments*, the head or the tail of the row
  of a reading, and each `Write` appends any number of the fragments that the
  exporter has still to write. So two exporters with the same file can put
  their fragments between each other's. `RowsAt` are the lines that are whole.
  `writers` is history: who has opened a file. `csv_name()` stops at `MaxName`,
  where the code goes on counting: a bound, which the instances do not reach,
  since they have fewer exporters and older files than names.
* **Pages.** Texts are records of their section and of what filled its
  placeholders, so that a property can tell where a value came from. `values`
  maps the tags and includes that are set to what they are set to; it persists
  between sections and pages, as the maps of the template do.
  A file is emptied when opened; it is whole when written and closed.
  Content lost in `close()`, which the code does not test, is remembered in
  `lost`.
* **TemplateText.** A text is a sequence of characters from `Char`, which holds
  those that are escaped and the letters of their entities. `{`, `{>` and `}`
  are the braces of `{{`, `{{>` and `}}`, and a section comment is one
  character too; `Char` may have any others. `Files` are the texts that may be
  loaded, `Values` those that a tag or an include may be set to. A round of
  `generate()` is the loop for one tag (`TagRound`) or one include
  (`IncludeRound`); `Rounds` has every order of the tags followed by every
  order of the includes, since both are kept in unordered maps. `Replace` is
  the loop of a round and of `htmlspecialchars()` with its position, cut
  off after as many rounds as the text has characters, which is enough for any
  loop that moves on; `ends` says whether it was over. `LazyEnd` and `Matches`
  are the regular expression with its iterator.
* **LocalTime.** An instant is a number of half hours; `Local` is
  `localtime_r()`, the text of a date is its ASCII codes (day, hour and minute;
  year, month and seconds stay the same). `Mktime` is the set of instants that
  `mktime()` may choose: two in the repeated hour. SQLite's
  `datetime(max, '-N hours')` takes the hours off the text, without a zone.
  `StartAssumption` keeps that within the month. A query is the set of the rows
  it selects; `order` has the pairs of them that `ORDER BY` puts in an order, so
  rows with the same date may come either way round.
* **TimeSpan.** A name is a sequence of pairs of a number and a unit. The
  functions call themselves at most twice, so they are written out.
* **ThermalLinux.** `state` says of each zone and sensor whether it is good,
  unreadable or absent; `present`, `listable` and `places` which directories
  there are and which of them can be listed. `ReadAll` finds them in any state,
  with up to `MaxFaults` things broken, and up to `MaxChanges` things come, go,
  break and mend during the walk, each as often as it likes. A directory
  iterator is live: `todo` and `sensors` are what it has to deliver (there when
  it was created, not gone since), `visited` and `seen` what it has delivered,
  and it *may* deliver anything else that is there by now. `IncrementFails` is
  its `operator++`, which throws an exception that nobody catches.
* **ThermalWmi.** `wmi` is the next call, `held` counts references by resource.
  Any call may fail; `ReleasedAfter` lists, call by call, what the code
  releases then. `Aborted` (in `Programs`) is the exception of
  `better_narrowing()`, which nobody catches.
* **LoadCalculator.** `clockIdle` and `clockTotal` are the counters of
  `GetSystemTimes()`, `previous*` the members; `sample.exact` is history: the
  share of the time since the last successful call. The code divides in
  floating-point numbers and cuts off the fraction, so the value may be on the
  other side of an integer: `Percents` has all values that it may compute.
* **Programs.** `phase` is the place in `main()`, `setting` its variables, an
  empty path being the same as none, as in the code. `check_directory()` is
  two steps. An option without its value, an unknown one, `--help` and
  `--version` are `OtherArgument`. What `generate()`, `db2csv()` and `save()`
  do is in their own modules; here they succeed or fail.

## Runs

| run | instance | shows |
|---|---|---|
| `db_race` | 2 processes, batches of two temperatures and of one load, fewer than 3 rows when a save starts | types, references, success only with everything stored, at most one duplicate per process, refinement of `ReadingLog` |
| `db_schema` (violated) | 1 process | after a kill between the two `CREATE TABLE`s, `ensure_tables_exist()` succeeds without table `reading` |
| `logger` | 2 processes that may run the logger, 2 sensors and a load, interval 1; clock 0..2 and fewer than 4 rows when a save starts, or 0..1 and 2 once both were started | a sleeping logger has stored its round; readings are of their round; no early round, every round is made up for; the file of one logger in order of time |
| `retrieve_one_logger` | 1 logger, 1 reader, 3 devices, 3 dates, time span 1 | traces are complete and of their device; both sides end |
| `retrieve_null` (violated) | 2 loggers, 1 reader | a device stored twice leads to the string of a null pointer |
| `db2csv` | 2 exporters, 1 logger, 1 temperature and the load, the CSV file of an earlier export, names for both exporters | complete exports and nothing invented in a file with one writer, wherever buffers are flushed; older exports stay; both exporters end, although one takes names from the other |
| `db2csv_torn` (violated) | the same | two exporters with the same file tear each other's rows and report success |
| `pages` | 3 time spans, 0 or 2 devices per type, 2 runs, all templates that lack at most one section; dates from 23:30 over midnight and a change of the clock; sections of up to three places of two tags and two includes, or up to two pieces with torn places among them, with two values set that are places, whole or torn, behind an escaped character or not, in every order of the rounds; files of up to five markers and other characters; time spans up to 17600 hours | pages are their own; order of replacement; success means written; dates survive; spans and orders up to the hour of the change; places filled once in any order of the maps, sections found; names tell their hours |
| `pages_script` (violated) | 1 time span | an error message is written in place of the header |
| `programs` | 4 programs, 2 systems, 2 builds, any arguments; 1 zone, 2 hwmon devices, one with a sensor in either place, in every state with at most one thing broken, and one thing that comes, goes and breaks during the walk; COM query with up to 2 objects; counters modulo 5; the logger goes on for ever | what could be read all the time is read, once, whatever changes; which faults make a reading fail; nothing leaks; loads are of their interval; a store exists for the type; the output is a directory; every program but the logger ends, or waits for WMI |
| `thermal_nothing` (violated) | the same | nothing that can be read is an empty vector, not an error |
| `time_span` (violated) | 10 half hours, time span of 1 hour | readings within the time span are left out after the clock was put forward |

Run one with `tlc -config <cfg> <module>`, as named in `PROJECT.json`.

**Why the bounds are enough.** Two processes give every race between a SELECT
and the INSERT that depends on it; the proofs cover any number. A batch of two
is the shortest that can fail in the middle, and after a failed one the rows
left over meet a second save. `MaxRows` only keeps saves from *starting*, so
every save that starts is explored to its end. With interval 1 and clock 2 a
logger can be early, punctual, late by one round and late by two; the tighter
bounds once a second logger was started (`MaxTimeShared`, `MaxRowsShared`) leave
both of them a round that starts at another time than the other's. Two exporters
and an earlier file are a name that is taken from the start, one that is taken
under the eyes of the other, one that is left, and one that both find free; each
has a row per type, and every row can be torn. Three time spans have a first, a
middle and a last page (the code has four). Two sensors are one in each place of
a hwmon device, beside a device without any. One thing of sysfs that changes can
do so between every test and the use that depends on it, several times, and a
hwmon device takes its sensors with it. The logger goes round without a bound, so
that what a round leaves behind meets the next one; two objects of a query are
enough for a failure in the first, in the second and after the last; the counters
start just below the modulus, wrap around in the first interval, and may stand
still. In ten half hours there are dates before,
in and after the repeated hour, on two days. Two values that are set are two tags in either order, a tag and an
include, or two includes in either order, each with a place of the other or of
its own in its value; a character that is escaped in front of it moves the
search. Three places of a section are enough for the same one twice and another
one, in any order. Five characters of a file hold two sections and a stray marker
(the proofs have no bound). 17600
hours are two years and some hours: names of one, two and three parts (the
proof has no bound).

**Where the system may stop.** `pages`, `programs`, `thermal_nothing`,
`pages_script` and `time_span` come to an end (the programs exit, the bounded clock stands still),
so the deadlock check is off there. Elsewhere it is on.

**Fairness.** Only weak fairness, of steps of running programs: the operating
system schedules them, and they do not wait for each other (a busy database is
an error at once). One step waits for another process: `Next()` of WMI, without
a limit (`lib/thermal/read_windows.cpp:184-185`). It is not fair in `programs`
(`WaitsForService`), so `ProgramsEnd` says that a program ends or waits there for
ever. `KeepsUp` takes it that the readers return, which on Windows is up to that
service. A failure is a step like another, so no property assumes
that saves succeed; nobody is obliged to start a program, or to be killed, and
`Tick` is not fair either: `KeepsUp` starts from a time that *has come*.
`KeepsUp` also stops at the bound `MaxRows`. In `programs`, `Run` is fair
for a started program that is not waiting; giving arguments and the changes of others are
not fair, and `ProgramsEnd` is about programs whose arguments were accepted.
The walk over sysfs ends because an iterator delivers an entry once, although
entries come and go without a bound on how often.

## What was found

* A crash or error between the two `CREATE TABLE`s is never repaired
  (`db_schema`; `lib/storage/db.cpp:68-92`).
* Two loggers can store a device twice. Then `get_device_id()` takes any of the
  two rows; if that one has no readings (yet), `MAX(date)` is NULL and a
  `std::string` is assigned a null pointer (`retrieve_null`;
  `lib/storage/db.hpp:289`). If it has some, the readings under the other row
  are missing from the graph: `TraceComplete`, which holds with one logger,
  fails with two. db2csv joins the tables and loses nothing.
* A template without section `script` yields a page with an error message for
  its header, and success (`pages_script`; `src/graph-generator/generator.cpp:72`).
* After the clock was put forward, a graph lacks readings that are within its
  time span, since hours are taken off local-time texts (`time_span`;
  `src/lib/storage/db.hpp:302`, against lines 109-110). What does hold is
  `SpanWithinShift`. In the repeated hour an export mixes readings of the two
  hours (`ExportOrdered` allows exactly that).
* Two exporters that find the same free name append to one file. Their buffers
  are flushed in the middle of rows, so the file has lines made of both, rows
  are lost, and both report success (`db2csv_torn`;
  `lib/storage/csv.hpp:79`, against line 40 and `src/db2csv/db2csv.hpp:32`).
* `read_all()` on Linux returns an empty vector when nothing can be read, where
  `lib/thermal/read_linux.hpp:35-36` says an error message (`thermal_nothing`).
  Both callers test for it.
* The loop of `Template::generate()` goes on behind the length of the *raw*
  value. For a value with both a character that is escaped and its own tag
  behind it, it does not end (`lib/templating/template.cpp:125`). A value that
  holds a place of another tag or include is filled in turn if that one's round
  comes later, which for two tags depends on the order of a hash table; and a
  value can complete a place that the section leaves torn. `GenerateFills` says
  for which values and sections all is well in every order. The values that the
  graph generator sets are names of devices, dates and time spans; none of the
  repository's tests has a name like that.
* The directory iterators of `read_linux.cpp` (lines 106, 130 and 189) throw
  when a step fails; nobody catches the exception (`IncrementFails`).
* `create_directories()` that creates nothing is an error in
  `check_directory()`, also when another run has just created the directory
  (`CreateDirectories`); a file that appears there is refused, as it should be.
* `string_to_time()` lets exceptions of `std::stoi()` out, where its
  documentation promises an error; only text that `time_to_string()` did not
  write leads there.

## Proofs

Every theorem holds for every value of the constants that satisfies the named
assumptions of the modules. The specifications without fairness are used; a
safety property of them is one of the fair specifications too. Each inductive
invariant was checked by TLC on the instances of the runs before it was proved.
Check with `tlapm DbStoreProofs.tla`, and so on.

### `DbStoreProofs`

For any finite set of processes, any devices, dates, batches and bound:

* `TypeCorrect`: `Spec => []TypeOK`. That a row inserted from the batch is
  well-typed depends on where the loop is, so the inductive invariant is
  `TypeInv`, which adds `PosOK`: `pos` is 1 before the loop, a position of
  `batch` inside it and one past the end at the return.
* `ReferencesHold`: `Spec => []ReadingsResolve`. Not inductive by itself: a
  process that is about to insert a reading holds an id in `devId` that was
  looked up before, and it must still point to a row. The inductive invariant
  adds that, for every process at `insert_reading`, `devId` is a row of the
  device of the current reading (`DbInv`); `DevicesKept` says that rows of
  `deviceTable` never change under it.
* `DuplicatesAreBounded`: `Spec => []DuplicatesBounded`. The inductive
  invariant `DupInv` counts the rows of a device together with the processes
  that found none and are about to insert one: the sum never exceeds the
  number of processes, since a process goes that way only while there is no
  row, and each insert trades such a process for a row.
* `PromiseKept`: `Spec => Implements`, the refinement of `ReadingLog`. Initial
  states map to initial states (`PromiseInit`); each step maps to one of the
  log or stutters (`PromiseStep`, one lemma per kind of step): inserting a
  reading is `Store(p, 1)`, because by `DbInv` the row joins to the reading
  of the batch.
* `SavedIsStored`: `Spec => []SavedBatchStored`. In the loop, the first
  `pos - 1` readings of the batch are in the file in their order
  (`StoredInv`); the lemmas of `SubsequenceProofs` say that a file that grows
  keeps them (`StillStored`) and that the row just added makes one more
  (`MoreStored`).

### `LoggerProofs`

For any processes, any lists of devices (`ListsAssumption`: each is a sequence)
and any interval but zero:

* `RoundsOnTime`: by `DueInv`, the due time is the time of the start plus a
  whole interval per finished round, and no round is under way before it.
* `FreshReadings`: `FreshInv` bounds the dates of what was read by the due time
  and the clock, at every place of the loop where they are still to be used.
* `SleepingHasStored`: `RoundInv` follows a round through its two calls of
  `save()`: while the second runs, the temperatures are in the file and then as
  many loads as the call has stored (`CallInv`). It only uses what `ReadingLog`
  promises, so by `PromiseKept` it is true of the database too.
* `FileInOrder`, for a file that only one logger was ever started on (two
  loggers write dates out of order): `OrderInv` says that nothing in the file is
  younger than what is still to be stored, also after a save that failed
  half-way, as long as the file belongs to one logger; `UsersInv` says that the
  other processes have nothing to store.

### `DbRetrieveProofs`

* `TracesAreOwn`, for any loggers and readers: `OwnInv` keeps, from statement
  to statement, that the id is one of the device at hand (or zero), although
  rows are inserted in between.
* `NullNeverMet` and `TracesAreComplete`, with one logger (a hypothesis:
  the run `retrieve_null` refutes the first with two). `CompleteInv` says what
  each statement has found out and that it stays true: the id has a reading
  from the moment that `get_devices()` returned its device, by `DupInv` no
  other row is one of that device (`OneId`), the readings at the start are
  still rows (`StartKept`), and those within the span of the maximum are in the
  trace (`SpanHeld`). `TimeSpanAssumption`: the time span is a natural number.

### `Db2CsvProofs`

For any loggers, any finite set of exporters (`ExporterAssumption`), any files of
earlier exports (`EarlierAssumption`) and any `MaxName` (`MaxNameAssumption`):

* `OlderExportsKept`: the name that an exporter uses is none that existed at
  its start (`OlderOK`), even if it came to exist since it was tested.
* `ExportsAreComplete`, for a file that no other exporter has opened: it is the
  beginning, up to the fragments that are sent, of what the exporter has and had
  in memory, first the thermal readings and then the loads (`OwnOK`, `Behind`).
  What is in memory is, for each reading of the type, not less than at the start
  and not more than in the database (`DataOK`); so after the last flush every
  reading is a whole row, as often as it has to be (`SuccessOK`).
* `NothingMadeUp`: such a file is the beginning of readings that are in the
  database (`FileOK`), also when the exporter has failed or was killed in the
  middle of a row. This and the theorem before need that the
  rows selected are distinct and that `Devices`, the recursive function of the
  loop, gives each row its own device (`DevicesAreTheirs`). That is induction
  over the rows; it is proved without an induction rule, from a least
  counterexample (`LeastNumber` of `SubsequenceProofs`, by the
  well-foundedness of strict inclusion of finite sets).

### `ProgramsProofs`

About the readers, for any zones, hwmon devices and sensors, each sensor in one
place of one device, `NoneAssumption` (the value for "no sensor" is none of
them), `DisjointAssumption` (no sensor is a zone or a device) and any bounds of
faults and changes:

* `NothingReadTwice`, `NothingLeftOut`, `FailsWhenBroken`, whatever changes how
  often: `PlaceInv` says what the variables hold by where the walk is; `OnceInv`,
  that what was read is behind every iterator that could deliver it (`Passed`);
  `KeptInv`, that what keeps still and can be read is still to come (`Pending`) or
  was read; `ListedInv`, that the directories so far could be listed, or have
  changed; `ReasonInv`, what an error means. `LinuxInv` is all of them.
* `AllReleased`: `NothingLeaks` says what is held at the ends and in the loop
  only; `WmiInv` says for each of the calls exactly what is held before it
  (`Needed`), so that each list of releases can be compared with it.

About the programs:

* `ProgramsWalk`, `ProgramsRelease`: a step of a program is one of the walk, of
  the COM calls, of the calculator, or leaves them alone (`ReadersStep`), so
  what was proved of the readers holds in every program.
* `ProgramsLoad`: by `CalcInv` the members are the counters of the last
  successful call; `DeltaAfterWrap` gives the difference of counters that
  wrapped around, for every modulus of more than two steps (in the code 2^64,
  and no step is near that), `PercentOfPart` the bounds of the percentage,
  which the rounding of the code keeps (`Percents`).
* `StoreForType`, `DirectoryForPages`: `SettingInv` keeps the type of the
  logger among those of the build.

### `TemplateProofs`

For any characters (`CharAssumption`: those that the code names are among them),
any files and any values (`FilesAssumption`, `ValuesAssumption`: they are texts
of these characters). The state is simple: `TemplateInv` says that the sections
are those of the file, and that what `generate()` returned was made of the
section and the values. What is left is what the recursive functions and the
loop of `Replace` compute for *every* text, which is induction over texts. It is
done without an induction rule: `Upwards` and `Downwards` take a set of numbers
in place of a predicate and follow from `LeastNumber`.

* `ReplaceIs` is the heart: a text is taken as a sequence of pieces, with all
  its starts and rests (`PartsExist`). If what is searched is at the start of
  the rests of certain pieces (`Fits`) and nowhere else, and what is put in
  has none from the place on where the search resumes, then the loop exchanges
  exactly these pieces, and ends (`RoundsEnd`). `Between` is what holds after
  each round: some first pieces are exchanged, the others are as they were, and
  the position has passed nothing that is searched.
* `EscapedJustOnce`: one round of `htmlspecialchars()` escapes one character
  more (`OneRound`), with the characters as pieces, so the four rounds do it in
  one (`Escapes`). The ampersand of an entity survives since its own round is
  the first one.
* `EachPlaceFilled`, for any number of tags and includes and any order of their
  rounds: `IsAfter` says what the pieces of the section are after the first so
  many rounds, namely the value at each place that one of them fills, nothing at
  the two characters behind it, and the character itself elsewhere. The next round
  finds its places just where the section has them (`PlacesStay`): no value has
  brought one (`Shut`), and none lacks a character that an earlier round has
  taken (`Whole`, `RoundsDisjoint`). So it fills these (`FillRound`,
  `RoundFills`), and the pieces are those after one round more (`OneMoreRound`).
  After the last one every tag and include has had its round (`RoundsAre`), and
  the pieces are those of `EachFilled` (`PiecesAre`).
* `SectionsAreFound`: `MatchesAre` gives what the iterator finds from any
  position on; when every marker belongs to a pair, that is the pairs from
  there on (`MatchesArePairs`), and the last one with a name gives the section
  (`SectionsAre`).

### `GraphProofs`

For any number of time spans and any sets of devices:

* `NoPlaceholderLeft`: each step sets all placeholders of its section before
  it generates it (one lemma per section).
* `NewestFirst`, `SuccessIsTrue`: by `FilesInv` the pages before the current one
  are of this run and whole, or lost in `close()`, and those after it are not
  younger.
* `PagesOfTheirSpan`: `TextsInv` says, step by step, what has been generated
  for the page so far, and of which span, device and type.
* `ShortNamesDiffer` (no two time spans have the same name, hence no two pages
  the same file) and `SpanNamesTellHours`: `NameTellsHours` goes through the
  forms of a name, using that division and rest give back the number.
* `DatesComeThrough`: from any start, with any change of the clock at any
  instant. `TextTellsMinutes` shows that the text of a date holds its minutes,
  so each instant that `mktime()` may choose has the local time of the text.
* `SpansUpToTheShift`, `ExportsInOrder`: `TextsInOrder` shows that texts compare,
  character by character, like the minutes that they tell, and `LocalDiffers` by
  how much two local times and their instants differ; `AnswerInv` says that the
  answer to a query stays true of the rows, which are in the order of time
  (`TimeInv`).

### Only model-checked

Liveness: `SaveReturns`, `KeepsUp`, `ReadingEnds`, `ExportEnds`, `PagesEnd` and
`ProgramsEnd`. It is out of the prover's reach. Every other property of the
passing runs is a theorem.

## Not modelled

* Values of temperatures, formatting, output on the console.
* `Template::load_from_file()` beyond success and failure; the numbers that
  `vectorize()` puts into a graph.
* Years, months and seconds of a date, and zones whose clock changes by
  anything but an hour.
* Dates in the tables of `DbStore` and its extensions are numbers in the order
  of time; `LocalTime` says where texts differ from that.
* How a CSV row is torn: in one place, into a head and a tail, which tells the
  properties apart what more pieces would.
* Version information: constants.
* SQLite itself: a statement is atomic, and a failed one has no effect.

## Plan

What `LoggerProofs` says of the log could be stated of the tables of `DbStore`
through `PromiseKept`, which would take a module that composes the two.
