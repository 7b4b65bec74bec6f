--------------------------- MODULE LoadCalculator ---------------------------
(***************************************************************************)
(* windows::load::read_all() (lib/load/read_windows.cpp) and the static    *)
(* calculator behind it (lib/load/calculator.cpp): the load is computed    *)
(* from differences of counters of the system since the call before, which *)
(* are unsigned integers and wrap around.                                  *)
(***************************************************************************)
EXTENDS Integers

CONSTANTS
  Modulus,  \* 2^64 in the code
  MaxStep   \* bound: idle and busy time that passes from one call to the next

ASSUME StepAssumption == MaxStep \in Nat
ASSUME ModulusAssumption == Modulus \in Nat /\ Modulus > 2 * MaxStep /\ Modulus > 2

Counter == 0 .. Modulus - 1

VARIABLES
  calc,           \* "idle", "wait" during the sleep of current(ms), or "end"
  clockIdle,      \* the idle time of the system
  clockTotal,     \* its kernel time, which includes the idle time, and user time
  previousIdle,
  previousTotal,  \* the members of the calculator
  sample,         \* what read_all() returned: NoSample when that is an error
  polled          \* history: GetSystemTimes() has succeeded before

calcVars == <<calc, clockIdle, clockTotal, previousIdle, previousTotal, sample,
              polled>>

NoSample == [value |-> 0, exact |-> -1]

\* The counters are about to wrap around.
CalcInit ==
  /\ calc = "idle"
  /\ clockIdle = Modulus - 2
  /\ clockTotal = Modulus - 1
  /\ previousIdle = 0
  /\ previousTotal = 0
  /\ sample = NoSample
  /\ polled = FALSE

-----------------------------------------------------------------------------

Fresh == previousIdle = 0 /\ previousTotal = 0

\* The share of the time that was not idle, in percent, rounded towards zero.
Percent(idle, total) ==
  IF total = 0 THEN 0
  ELSE IF idle <= total THEN ((total - idle) * 100) \div total
  ELSE -(((idle - total) * 100) \div total)

\* What the code computes of it in floating-point numbers, before it cuts off
\* the fraction: it is exact when all or none of the time was idle, and has the
\* right sign, but may be on the wrong side of the next integer.
Percents(idle, total) ==
  IF total = 0 \/ idle \in {0, total} THEN {Percent(idle, total)}
  ELSE {p \in Percent(idle, total) - 1 .. Percent(idle, total) + 1 :
          IF idle < total THEN p \in 0 .. 100 ELSE p <= 0}

\* Time passes up to the next call.
Elapse(i, b) ==
  /\ clockIdle' = (clockIdle + i) % Modulus
  /\ clockTotal' = (clockTotal + i + b) % Modulus

\* The difference of two unsigned integers.
Delta(now, before) == (now - before) % Modulus

\* calculator::current() succeeds, and its result is returned as last: by
\* read_all(), or as the first of two by current(ms), which drops it.
Poll(last) ==
  \E i, b \in 0 .. MaxStep :
    /\ Elapse(i, b)
    /\ \E p \in Percents(Delta(clockIdle', previousIdle), Delta(clockTotal', previousTotal)) :
         sample' = IF last
                   THEN [value |-> p, exact |-> IF polled THEN Percent(i, i + b) ELSE -1]
                   ELSE sample
    /\ previousIdle' = clockIdle'
    /\ previousTotal' = clockTotal'
    /\ polled' = TRUE

\* GetSystemTimes() fails, and with it read_all(): the members stay.  (Both
\* callers end the program then.)
PollFails ==
  /\ calc' = "end"
  /\ sample' = NoSample
  /\ UNCHANGED <<clockIdle, clockTotal, previousIdle, previousTotal, polled>>

\* Mutant: a fresh calculator is not treated differently.
StartCalcAtOnce ==
  /\ calc = "idle"
  /\ \/ Poll(TRUE) /\ calc' = "end"
     \/ PollFails

\* read_all() is called: a fresh calculator is asked twice, with a pause.
StartCalc ==
  /\ calc = "idle"
  /\ \/ Poll(~Fresh) /\ calc' = IF Fresh THEN "wait" ELSE "end"
     \/ PollFails

\* The second call of current() in current(ms).
AskAgain ==
  /\ calc = "wait"
  /\ \/ Poll(TRUE) /\ calc' = "end"
     \/ PollFails

\* The caller is done with the result.
ForgetSample ==
  /\ calc = "end"
  /\ calc' = "idle"
  /\ sample' = NoSample
  /\ UNCHANGED <<clockIdle, clockTotal, previousIdle, previousTotal, polled>>

CalcNext == StartCalc \/ AskAgain \/ ForgetSample

-----------------------------------------------------------------------------
\* Properties.

\* A load that read_all() returns is that of the time since the calculator last
\* got the counters, but for the rounding, and never an average since the system
\* was started, also when a counter wrapped around in between.  So it is a
\* percentage.
LoadOfInterval ==
  calc = "end" /\ sample # NoSample =>
    /\ sample.exact # -1
    /\ sample.value \in sample.exact - 1 .. sample.exact + 1
    /\ sample.value \in 0 .. 100
=============================================================================
