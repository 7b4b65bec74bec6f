----------------------------- MODULE ReadingLog -----------------------------
(***************************************************************************)
(* What a store promises to the programs that save readings in it, as read *)
(* off the interface storage::store (lib/storage/store.hpp): the file is a *)
(* log of readings; a call of save() appends the readings it was given, in *)
(* their order and each exactly once; it reports success only when all of  *)
(* them are in the log; a call that reports an error, or whose process is  *)
(* killed, has appended some prefix of them; nobody removes, reorders or   *)
(* rewrites what the log holds.                                            *)
(***************************************************************************)
EXTENDS Naturals, Sequences

CONSTANTS
  Process,   \* the programs that save into the same file
  Batches    \* the vectors of readings that they may pass to save()

VARIABLES
  log,       \* the readings in the file, in the order they were stored
  todo,      \* for each process: the readings of its call not stored yet
  status     \* for each process: "idle", "saving", or what save() returned

logVars == <<log, todo, status>>

Init ==
  /\ log = <<>>
  /\ todo = [p \in Process |-> <<>>]
  /\ status = [p \in Process |-> "idle"]

\* save() is called.
Begin(p, b) ==
  /\ status[p] # "saving"
  /\ todo' = [todo EXCEPT ![p] = b]
  /\ status' = [status EXCEPT ![p] = "saving"]
  /\ UNCHANGED log

\* The next n readings of the call reach the file.
Store(p, n) ==
  /\ status[p] = "saving"
  /\ log' = log \o SubSeq(todo[p], 1, n)
  /\ todo' = [todo EXCEPT ![p] = SubSeq(@, n + 1, Len(@))]
  /\ UNCHANGED status

\* save() returns an empty optional: success.
Succeed(p) ==
  /\ status[p] = "saving"
  /\ todo[p] = <<>>
  /\ status' = [status EXCEPT ![p] = "ok"]
  /\ UNCHANGED <<log, todo>>

\* save() returns an error message.
Fail(p) ==
  /\ status[p] = "saving"
  /\ todo' = [todo EXCEPT ![p] = <<>>]
  /\ status' = [status EXCEPT ![p] = "error"]
  /\ UNCHANGED log

\* The process is killed; whatever it had not stored is lost.
Abandon(p) ==
  /\ todo' = [todo EXCEPT ![p] = <<>>]
  /\ status' = [status EXCEPT ![p] = "idle"]
  /\ UNCHANGED log

Next ==
  \E p \in Process :
    \/ \E b \in Batches : Begin(p, b)
    \/ \E n \in 1 .. Len(todo[p]) : Store(p, n)
    \/ Succeed(p)
    \/ Fail(p)
    \/ Abandon(p)

Spec == Init /\ [][Next]_logVars
=============================================================================
