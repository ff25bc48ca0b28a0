------------------------------ MODULE TaskBoard ------------------------------
(***************************************************************************)
(* What the commands of plinius rely on when they hand a list of tasks to  *)
(* executeWithConcurrency (src/utils/executor.ts): every task is started   *)
(* once, a task in flight occupies a slot of its own, a settled task keeps *)
(* its outcome, and the call returns only when every task has settled.     *)
(* How tasks are dealt out to workers, and when workers pause, is left     *)
(* out; WorkerPool is the detailed specification that implements this one. *)
(***************************************************************************)
EXTENDS Naturals

CONSTANTS
  Sizes,   \* the numbers of tasks a caller may pass
  Slot     \* the slots, one for each task that may be in flight at a time

VARIABLES
  phase,   \* "idle", "active" while a call is in progress, "returned" after it
  status   \* the status of each task of the current call

boardVars == <<phase, status>>

Status == {"todo", "running", "value", "error"}

(* A task runs once and settles once. *)
Moves == {<<s, s>> : s \in Status}
           \cup {<<"todo", "running">>, <<"running", "value">>, <<"running", "error">>}

Running(st) == {i \in DOMAIN st : st[i] = "running"}

(* The tasks in flight fit in the slots, each in a slot of its own. *)
WithinLimit(st) ==
  \E slot \in [Running(st) -> Slot] :
    \A i, j \in Running(st) : slot[i] = slot[j] => i = j

BoardInit == phase = "idle" /\ status = [i \in 1..0 |-> "todo"]

(* A call begins: some of its tasks are in flight at once. *)
Begin ==
  /\ phase # "active"
  /\ phase' = "active"
  /\ \E n \in Sizes : DOMAIN status' = 1..n
  /\ \A i \in DOMAIN status' : status'[i] \in {"todo", "running"}
  /\ WithinLimit(status')

(* Tasks settle and others start in their place. *)
Progress ==
  /\ phase = "active"
  /\ phase' = "active"
  /\ DOMAIN status' = DOMAIN status
  /\ \A i \in DOMAIN status : <<status[i], status'[i]>> \in Moves
  /\ WithinLimit(status')

Finish ==
  /\ phase = "active"
  /\ phase' = "returned"
  /\ \A i \in DOMAIN status : status[i] \in {"value", "error"}
  /\ UNCHANGED status

BoardNext == Begin \/ Progress \/ Finish

BoardSpec == BoardInit /\ [][BoardNext]_boardVars
=============================================================================
