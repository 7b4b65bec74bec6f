------------------------------ MODULE Programs ------------------------------
(***************************************************************************)
(* The four programs from the command line to the exit code: the main() of *)
(* each (src/logger, src/graph-generator, src/db2csv, src/info), what they *)
(* check before they begin, and the calls they make of the readers of      *)
(* temperatures (ThermalLinux, ThermalWmi) and load (LoadCalculator), on   *)
(* either system and with or without support for SQLite.                   *)
(*                                                                         *)
(* generate() is the module Pages, db2csv() is Db2Csv, and what the logger *)
(* saves is Logger; here they only succeed or fail.                        *)
(***************************************************************************)
EXTENDS ThermalLinux, ThermalWmi, LoadCalculator

Program == {"logger", "graph-generator", "db2csv", "info"}

\* The options that are followed by a value, by program.
LoggerOptions == {"file", "type"}
GeneratorOptions == {"file", "template", "output"}
Db2CsvOptions == {"file"}
InfoOptions == {}

Options ==
  [p \in Program |-> CASE p = "logger" -> LoggerOptions
                       [] p = "graph-generator" -> GeneratorOptions
                       [] p = "db2csv" -> Db2CsvOptions
                       [] p = "info" -> InfoOptions]

VARIABLES
  platform,  \* "linux" or "windows"
  sqlite,    \* whether THERMOS_NO_SQLITE was not defined
  prog,      \* the program
  phase,     \* what main() does next
  setting,   \* the variables that the options set; "" is what they are without
  dest,      \* what is at the path of the output directory of the generator
  code       \* the exit code, or "none"

progVars == <<platform, sqlite, prog, phase, setting, dest, code>>
allVars == <<progVars, linuxVars, wmiVars, calcVars>>

readers == <<linuxVars, wmiVars, calcVars>>

ProgramsInit ==
  /\ Init
  /\ WmiInit
  /\ CalcInit
  /\ platform \in {"linux", "windows"}
  /\ sqlite \in BOOLEAN
  /\ prog \in {p \in Program : sqlite \/ p \in {"logger", "info"}}
  /\ phase = "args"
  /\ setting = [o \in Options[prog] |-> ""]
  /\ dest \in IF prog = "graph-generator" THEN {"absent", "dir", "file"} ELSE {"absent"}
  /\ code = "none"

-----------------------------------------------------------------------------
\* The command line.

Goto(there) ==
  /\ phase' = there
  /\ UNCHANGED <<platform, sqlite, prog, setting, dest, code>>

Exit(with) ==
  /\ phase' = "ended"
  /\ code' = with
  /\ UNCHANGED <<platform, sqlite, prog, setting, dest>>

\* The values of an option; a path may be the empty string.
Values(o) == IF o = "type" THEN {"csv", "db", "other"} ELSE {"", "path"}

Supported == IF sqlite THEN {"csv", "db"} ELSE {"csv"}

DefaultFileType == IF sqlite THEN "db" ELSE "csv"

\* Mutant: the type is not compared with what the program was built with.
SetOptionUnchecked(o, v) ==
  /\ phase = "args"
  /\ o \in Options[prog]
  /\ IF setting[o] = "" /\ (o = "type" => v \in {"csv", "db"})
     THEN /\ setting' = [setting EXCEPT ![o] = v]
          /\ UNCHANGED <<platform, sqlite, prog, phase, dest, code>>
     ELSE Exit("1")

\* An option and its value, which must not be set already.  The empty path is
\* a value that leaves the option as if it had not been there.
SetOption(o, v) ==
  /\ phase = "args"
  /\ o \in Options[prog]
  /\ IF setting[o] = "" /\ (o = "type" => v \in Supported)
     THEN /\ setting' = [setting EXCEPT ![o] = v]
          /\ UNCHANGED <<platform, sqlite, prog, phase, dest, code>>
     ELSE Exit("1")

\* --version and --help end the program, whatever comes after them; so does
\* what is no option, or an option without its value.
OtherArgument ==
  /\ phase = "args"
  /\ Exit("0") \/ Exit("1")

\* The end of the command line.  All options but the type are required.
StartLogger ==
  /\ phase = "args"
  /\ prog = "logger"
  /\ IF setting["file"] = "" THEN Exit("1")
     ELSE /\ setting' = [setting EXCEPT !["type"] = IF @ = "" THEN DefaultFileType ELSE @]
          /\ phase' = "log"
          /\ UNCHANGED <<platform, sqlite, prog, dest, code>>

StartGenerator ==
  /\ phase = "args"
  /\ prog = "graph-generator"
  /\ IF \E o \in GeneratorOptions : setting[o] = "" THEN Exit("1") ELSE Goto("template")

StartDb2Csv ==
  /\ phase = "args"
  /\ prog = "db2csv"
  /\ IF setting["file"] = "" THEN Exit("1") ELSE Goto("db2csv")

StartInfo ==
  /\ phase = "args"
  /\ prog = "info"
  /\ Goto("thermal")

-----------------------------------------------------------------------------
\* thermos-graph-generator and thermos-db2csv.

LoadTemplate ==
  /\ phase = "template"
  /\ Goto("exists") \/ Exit("3")

\* check_directory() in two steps, between which others may create something.
\* Any of its calls may throw an exception, which it catches.
Exists ==
  /\ phase = "exists"
  /\ \/ Goto(IF dest = "absent" THEN "create" ELSE "is_directory")
     \/ Exit("3")

\* Mutant: that create_directories() created nothing is taken for success.
CreateDirectoriesIgnored ==
  /\ phase = "create"
  /\ \/ /\ dest' = IF dest = "absent" THEN "dir" ELSE dest
        /\ phase' = "generate"
        /\ UNCHANGED <<platform, sqlite, prog, setting, code>>
     \/ Exit("3")

\* create_directories() says whether it created something: not when another
\* program was faster, which is an error then.
CreateDirectories ==
  /\ phase = "create"
  /\ \/ /\ dest = "absent"
        /\ dest' = "dir"
        /\ phase' = "generate"
        /\ UNCHANGED <<platform, sqlite, prog, setting, code>>
     \/ Exit("3")

IsDirectory ==
  /\ phase = "is_directory"
  /\ \/ dest = "dir" /\ Goto("generate")
     \/ Exit("3")

\* The rest of the program: generate() or db2csv().
Work ==
  /\ phase \in {"generate", "db2csv"}
  /\ Exit("0") \/ Exit("3")

\* Another program, or the user, creates a directory or a file at the path.
OthersCreate ==
  /\ prog = "graph-generator"
  /\ phase # "ended"
  /\ dest = "absent"
  /\ dest' \in {"dir", "file"}
  /\ UNCHANGED <<platform, sqlite, prog, phase, setting, code>>

-----------------------------------------------------------------------------
\* thermos-info and thermos-logger.

\* Logger::log() has a guard of its own against the type db.
Log ==
  /\ phase = "log"
  /\ IF setting["type"] = "db" /\ ~sqlite THEN Exit("2") ELSE Goto("thermal")

ThermalStep ==
  /\ phase = "thermal"
  /\ \/ platform = "linux" /\ (ReadAll \/ WalkStep) /\ UNCHANGED <<wmiVars, calcVars>>
     \/ platform = "windows" /\ WmiStep /\ UNCHANGED <<linuxVars, calcVars>>
  /\ UNCHANGED progVars

\* The reader of the platform has returned, and its result is looked at: info
\* prints it or that there is none; the logger needs readings.
ThermalDone ==
  /\ phase = "thermal"
  /\ \/ /\ platform = "linux"
        /\ Forget
        /\ IF prog = "logger" /\ (outcome = "error" \/ readings = <<>>)
           THEN Exit("2")
           ELSE Goto("load")
        /\ UNCHANGED <<wmiVars, calcVars>>
     \/ /\ platform = "windows"
        /\ ForgetWmi
        /\ IF prog = "logger" /\ (wmiOutcome = "error" \/ instances = 0)
           THEN Exit("2")
           ELSE Goto("load")
        /\ UNCHANGED <<linuxVars, calcVars>>

\* An exception of either reader, which nobody catches.
Aborted ==
  /\ phase = "thermal"
  /\ "exception" \in {outcome, wmiOutcome}
  /\ Exit("abort")
  /\ UNCHANGED readers

LoadStep ==
  /\ phase = "load"
  /\ platform = "windows"
  /\ StartCalc \/ AskAgain
  /\ UNCHANGED <<progVars, linuxVars, wmiVars>>

\* The result of load::read_all(), which is an error or has readings.
UseLoad(ok) ==
  IF prog = "info" THEN Exit("0")
  ELSE IF ok THEN Goto("save")
  ELSE Exit("2")

LoadDone ==
  /\ phase = "load"
  /\ platform = "windows"
  /\ ForgetSample
  /\ UseLoad(sample # NoSample)
  /\ UNCHANGED <<linuxVars, wmiVars>>

\* read_proc_loadavg(): the file is missing, or lacks one of the three numbers.
ReadProcLoadavg ==
  /\ phase = "load"
  /\ platform = "linux"
  /\ UseLoad(TRUE) \/ UseLoad(FALSE)
  /\ UNCHANGED readers

\* factory::create(type): a null pointer for a type that is not supported.
Create(t) == IF t \in Supported THEN t ELSE "null"

\* The two saves, and the sleep up to the next round.
Save ==
  /\ phase = "save"
  /\ Create(setting["type"]) # "null"
  /\ Goto("thermal") \/ Exit("2")
  /\ UNCHANGED readers

-----------------------------------------------------------------------------

ParseArguments ==
  \/ \E o \in GeneratorOptions \union LoggerOptions : \E v \in Values(o) : SetOption(o, v)
  \/ OtherArgument
  \/ StartLogger
  \/ StartGenerator
  \/ StartDb2Csv
  \/ StartInfo

Run ==
  \/ (LoadTemplate \/ Exists \/ CreateDirectories \/ IsDirectory \/ Work \/ Log)
       /\ UNCHANGED readers
  \/ ThermalStep
  \/ ThermalDone
  \/ Aborted
  \/ LoadStep
  \/ LoadDone
  \/ ReadProcLoadavg
  \/ Save

Environment ==
  \/ OthersCreate /\ UNCHANGED readers
  \/ /\ phase = "thermal"
     /\ SysfsChanges \/ IncrementFails
     /\ UNCHANGED <<progVars, wmiVars, calcVars>>

ProgramsNext ==
  \/ ParseArguments /\ UNCHANGED readers
  \/ Run
  \/ Environment

\* Next() waits for the WMI service, which is another process, without a limit
\* (WBEM_INFINITE).  ConnectServer() gives up after two minutes, and ExecQuery()
\* does not wait.
WaitsForService == phase = "thermal" /\ platform = "windows" /\ wmi = "Next"

\* The operating system lets a program go on, unless it waits for the service.
ProgramsSpec ==
  ProgramsInit /\ [][ProgramsNext]_allVars /\ WF_allVars(~WaitsForService /\ Run)

-----------------------------------------------------------------------------
\* Properties.

\* What main() lets through, the functions behind it can do: a store exists for
\* the type of the log file, in each of the two builds, and Logger::log() never
\* has to refuse it with its own guard.
StoreExists ==
  prog = "logger" /\ phase \in {"log", "save"} => Create(setting["type"]) # "null"

\* generate() gets a directory to write to, when nobody takes it away, although
\* others may create something between the two calls of check_directory().
OutputIsDirectory == phase = "generate" => dest = "dir"

\* A program that was started properly comes to its end, unless it is the
\* logger, also while sysfs changes under its walk without an end; or else it
\* waits for the WMI service for ever.
ProgramsEnd ==
  (phase # "args" /\ prog # "logger") ~> (phase = "ended" \/ []WaitsForService)
=============================================================================
