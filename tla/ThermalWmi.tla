----------------------------- MODULE ThermalWmi -----------------------------
(***************************************************************************)
(* windows::thermal::read_all() (lib/thermal/read_windows.cpp): a chain of *)
(* COM calls, each of which acquires something, and whose failure has to   *)
(* release what the calls before it acquired.  Nothing of it is held by an *)
(* object with a destructor.  The logger runs it once in every round.      *)
(***************************************************************************)
EXTENDS Naturals, Sequences

CONSTANT MaxInstances  \* bound: the query yields at most this many objects

ASSUME InstancesAssumption == MaxInstances \in Nat

\* What the calls acquire: the COM library of the process, and four objects.
Resource == {"com", "locator", "service", "enumerator", "object"}

\* The calls before the loop, in their order.
Calls == <<"CoInitializeEx", "CoInitializeSecurity", "CoCreateInstance",
           "ConnectServer", "CoSetProxyBlanket", "ExecQuery">>

\* What each of them acquires when it succeeds.
Acquired ==
  <<{"com"}, {}, {"locator"}, {"service"}, {}, {"enumerator"}>>

\* What the code releases when one of them fails.
ReleasedAfter ==
  <<{}, {"com"}, {"com"}, {"locator", "com"}, {"service", "locator", "com"},
    {"service", "locator", "com"}>>

VARIABLES
  wmi,        \* the call that comes next, or "idle" or "end"
  held,       \* how many references are held of each resource
  instances,  \* how many readings there are in the result
  wmiOutcome  \* what read_wmi() returned, or that it threw an exception

wmiVars == <<wmi, held, instances, wmiOutcome>>

WmiInit ==
  /\ wmi = "idle"
  /\ held = [r \in Resource |-> 0]
  /\ instances = 0
  /\ wmiOutcome = "none"

-----------------------------------------------------------------------------

Acquire(R) == held' = [r \in Resource |-> IF r \in R THEN held[r] + 1 ELSE held[r]]

Release(R) == held' = [r \in Resource |-> IF r \in R THEN held[r] - 1 ELSE held[r]]

\* An error message is returned; the readings so far are given up.
WmiError ==
  /\ wmi' = "end"
  /\ wmiOutcome' = "error"
  /\ instances' = 0

StartWmi ==
  /\ wmi = "idle"
  /\ wmi' = Calls[1]
  /\ UNCHANGED <<held, instances, wmiOutcome>>

\* One of the calls before the loop.
WmiCall ==
  \E i \in DOMAIN Calls :
    /\ wmi = Calls[i]
    /\ \/ /\ Acquire(Acquired[i])
          /\ wmi' = IF i < Len(Calls) THEN Calls[i + 1] ELSE "Next"
          /\ UNCHANGED <<instances, wmiOutcome>>
       \/ /\ Release(ReleasedAfter[i])
          /\ WmiError

\* pEnumerator->Next() yields an object.
NextObject ==
  /\ wmi = "Next"
  /\ instances < MaxInstances
  /\ Acquire({"object"})
  /\ wmi' = "InstanceName"
  /\ UNCHANGED <<instances, wmiOutcome>>

\* Mutant: the enumerator is not released at the end of the loop.
NoMoreObjectsKeeps ==
  /\ wmi = "Next"
  /\ Release({"service", "locator", "com"})
  /\ wmi' = "end"
  /\ wmiOutcome' = "value"
  /\ UNCHANGED instances

\* It yields none: there are no more, or the query, which runs while its
\* results are fetched, failed.  Both end the loop and return what there is.
NoMoreObjects ==
  /\ wmi = "Next"
  /\ Release({"enumerator", "service", "locator", "com"})
  /\ wmi' = "end"
  /\ wmiOutcome' = "value"
  /\ UNCHANGED instances

\* pObject->Get(L"InstanceName"); better_narrowing() throws an exception when
\* the name cannot be narrowed, which nobody catches: the program ends.
GetInstanceName ==
  /\ wmi = "InstanceName"
  /\ \/ /\ wmi' = "CurrentTemperature"
        /\ UNCHANGED <<held, instances, wmiOutcome>>
     \/ /\ Release({"object", "enumerator", "service", "locator", "com"})
        /\ WmiError
     \/ /\ wmi' = "end"
        /\ wmiOutcome' = "exception"
        /\ UNCHANGED <<held, instances>>

\* pObject->Get(L"CurrentTemperature"), and the reading is complete.
GetCurrentTemperature ==
  /\ wmi = "CurrentTemperature"
  /\ \/ /\ Release({"object"})
        /\ instances' = instances + 1
        /\ wmi' = "Next"
        /\ UNCHANGED wmiOutcome
     \/ /\ Release({"object", "enumerator", "service", "locator", "com"})
        /\ WmiError

WmiStep ==
  \/ StartWmi
  \/ WmiCall
  \/ NextObject
  \/ NoMoreObjects
  \/ GetInstanceName
  \/ GetCurrentTemperature

\* The caller is done with the result.
ForgetWmi ==
  /\ wmi = "end"
  /\ wmiOutcome # "exception"
  /\ wmi' = "idle"
  /\ instances' = 0
  /\ wmiOutcome' = "none"
  /\ UNCHANGED held

\* read_wmi(), called again and again.
WmiSpec == WmiInit /\ [][WmiStep \/ ForgetWmi]_wmiVars

-----------------------------------------------------------------------------
\* Properties.

\* Whichever call fails, in whichever round, and however many objects came
\* before: what read_wmi() acquired is released when it returns, each once, and
\* not while the loop still needs it.
NothingLeaks ==
  /\ wmi \in {"idle", "end"} /\ wmiOutcome # "exception" =>
       \A r \in Resource : held[r] = 0
  /\ wmi \in {"Next", "InstanceName", "CurrentTemperature"} =>
       \A r \in Resource \ {"object"} : held[r] = 1
=============================================================================
