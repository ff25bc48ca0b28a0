----------------------------- MODULE WorkerPool -----------------------------
(***************************************************************************)
(* executeWithConcurrency of src/utils/executor.ts: a fixed number of      *)
(* asynchronous workers that share one cursor, taskIndex, over the list of *)
(* tasks.                                                                  *)
(*                                                                         *)
(* JavaScript runs a worker without interruption from one await to the     *)
(* next, so an action is the code between two awaits: what a worker does   *)
(* when its executor promise settles, up to the next executor call or the  *)
(* next sleep, is one step.  Reading the cursor in the loop condition and  *)
(* incrementing it in the body therefore happen together.                  *)
(*                                                                         *)
(* Positions are 1-based here, 0-based in the code; index[w] = 0 says that *)
(* worker w holds no task.  The order in which sleeping workers wake is    *)
(* left open, which covers every choice of delays and of task durations.   *)
(***************************************************************************)
EXTENDS Integers, Sequences

CONSTANTS
  Task,              \* the tasks a caller may pass
  Batches,           \* the task lists a caller may pass
  Concurrency,       \* the concurrency argument
  TaskStartDelay,    \* options.taskStartDelay, in ms
  WorkerStartDelay   \* options.workerStartDelay, in ms

ASSUME PoolAssumption ==
  /\ Batches \subseteq Seq(Task)
  /\ Concurrency \in Nat \ {0}
  /\ TaskStartDelay \in Nat
  /\ WorkerStartDelay \in Nat

VARIABLES
  phase,       \* "idle", "active" during a call, "returned" after it
  tasks,       \* the list passed to the current call
  taskIndex,   \* how many tasks of it have been claimed
  pc,          \* where each worker is
  index,       \* the position each running worker has claimed, else 0
  results      \* what the call has stored for each position

poolVars == <<phase, tasks, taskIndex, pc, index, results>>

Worker == 1..Concurrency

PC == {"absent", "stagger", "running", "delay", "exited"}

Outcome == {"unset", "value", "error"}

(* Workers beyond the number of tasks are never created. *)
Spawned(w) == w <= Len(tasks)

(* Only workers after the first wait before they start. *)
Staggers(w) == w > 1 /\ WorkerStartDelay > 0

MoreTasks == taskIndex < Len(tasks)

PauseAfterError == IF 2 * TaskStartDelay > 2000 THEN 2 * TaskStartDelay ELSE 2000

(* What callers pass: ts lists the set S of tasks in the given order. *)
Before(order, s, t) == \E k, l \in DOMAIN order : k < l /\ order[k] = s /\ order[l] = t

Lists(order, S, ts) ==
  /\ {ts[i] : i \in DOMAIN ts} = S
  /\ \A i, j \in DOMAIN ts : i < j => Before(order, ts[i], ts[j])

PoolInit ==
  /\ phase = "idle"
  /\ tasks = << >>
  /\ taskIndex = 0
  /\ pc = [w \in Worker |-> "absent"]
  /\ index = [w \in Worker |-> 0]
  /\ results = [i \in 1..0 |-> "unset"]

(* The call creates its workers; each of them that does not stagger claims *)
(* a task and calls the executor before the caller gets control back.      *)
Call(ts) ==
  LET starts(w) == w <= Len(ts) /\ ~Staggers(w)
  IN  /\ phase # "active"
      /\ phase' = "active"
      /\ tasks' = ts
      /\ results' = [i \in 1..Len(ts) |-> "unset"]
      /\ pc' = [w \in Worker |-> IF w > Len(ts) THEN "absent"
                                 ELSE IF starts(w) THEN "running" ELSE "stagger"]
      /\ index' = [w \in Worker |-> IF starts(w) THEN w ELSE 0]
      /\ taskIndex' = IF WorkerStartDelay = 0 /\ Concurrency < Len(ts) THEN Concurrency
                      ELSE IF WorkerStartDelay = 0 \/ Len(ts) = 0 THEN Len(ts)
                      ELSE 1

(* Mutated forms of Advance: the cursor is not moved past the claimed task; *)
(* the loop condition is not read again after a sleep.                      *)
AdvanceNoIncrement(w) ==
  IF MoreTasks
  THEN /\ index' = [index EXCEPT ![w] = taskIndex + 1]
       /\ pc' = [pc EXCEPT ![w] = "running"]
       /\ UNCHANGED taskIndex
  ELSE /\ pc' = [pc EXCEPT ![w] = "exited"]
       /\ index' = [index EXCEPT ![w] = 0]
       /\ UNCHANGED taskIndex

AdvanceUnchecked(w) ==
  /\ taskIndex' = taskIndex + 1
  /\ index' = [index EXCEPT ![w] = taskIndex + 1]
  /\ pc' = [pc EXCEPT ![w] = "running"]

(* The head of the worker's loop: claim the next task or leave. *)
Advance(w) ==
  IF MoreTasks
  THEN /\ taskIndex' = taskIndex + 1
       /\ index' = [index EXCEPT ![w] = taskIndex + 1]
       /\ pc' = [pc EXCEPT ![w] = "running"]
  ELSE /\ pc' = [pc EXCEPT ![w] = "exited"]
       /\ index' = [index EXCEPT ![w] = 0]
       /\ UNCHANGED taskIndex

(* The executor promise settles: the outcome is stored at the task's own   *)
(* position, and the worker sleeps or goes round its loop.                 *)
Settle(w, outcome, pause) ==
  /\ phase = "active"
  /\ pc[w] = "running"
  /\ results' = [results EXCEPT ![index[w]] = outcome]
  /\ IF MoreTasks /\ pause > 0
     THEN /\ pc' = [pc EXCEPT ![w] = "delay"]
          /\ index' = [index EXCEPT ![w] = 0]
          /\ UNCHANGED taskIndex
     ELSE Advance(w)
  /\ UNCHANGED <<phase, tasks>>

Resolve(w) == Settle(w, "value", TaskStartDelay)

(* Mutated form of Reject: the catch block is outside the loop, so that an *)
(* error ends the worker.                                                  *)
RejectLeaves(w) ==
  /\ phase = "active" /\ pc[w] = "running"
  /\ results' = [results EXCEPT ![index[w]] = "error"]
  /\ pc' = [pc EXCEPT ![w] = "exited"]
  /\ index' = [index EXCEPT ![w] = 0]
  /\ UNCHANGED <<phase, tasks, taskIndex>>

Reject(w) == Settle(w, "error", PauseAfterError)

(* Mutated form of Wake: a worker that wakes with nothing left to claim     *)
(* goes back to sleep.                                                      *)
WakeIfMore(w) ==
  /\ phase = "active"
  /\ pc[w] \in {"stagger", "delay"}
  /\ IF MoreTasks THEN Advance(w) ELSE UNCHANGED <<taskIndex, pc, index>>
  /\ UNCHANGED <<phase, tasks, results>>

Wake(w) ==
  /\ phase = "active"
  /\ pc[w] \in {"stagger", "delay"}
  /\ Advance(w)
  /\ UNCHANGED <<phase, tasks, results>>

(* Mutated form of Return: the call resolves when every task is claimed. *)
ReturnClaimed ==
  /\ phase = "active" /\ ~MoreTasks
  /\ phase' = "returned"
  /\ UNCHANGED <<tasks, taskIndex, pc, index, results>>

(* Promise.all resolves once every worker has left its loop. *)
Return ==
  /\ phase = "active"
  /\ \A w \in Worker : pc[w] \in {"absent", "exited"}
  /\ phase' = "returned"
  /\ UNCHANGED <<tasks, taskIndex, pc, index, results>>

PoolNext ==
  \/ \E ts \in Batches : Call(ts)
  \/ \E w \in Worker : Resolve(w) \/ Reject(w) \/ Wake(w)
  \/ Return

PoolSafety == PoolInit /\ [][PoolNext]_poolVars

(* Timers fire, the executors passed to the pool settle, and a resolved    *)
(* Promise.all is delivered.  The caller need not call again.              *)
PoolFairness ==
  /\ \A w \in Worker : WF_poolVars(Wake(w)) /\ WF_poolVars(Resolve(w) \/ Reject(w))
  /\ WF_poolVars(Return)

PoolSpec == PoolSafety /\ PoolFairness

-----------------------------------------------------------------------------
(* Types of the pool's variables. *)
PoolTypeOK ==
  /\ phase \in {"idle", "active", "returned"}
  /\ tasks \in Seq(Task)
  /\ taskIndex \in 0..Len(tasks)
  /\ pc \in [Worker -> PC]
  /\ index \in [Worker -> 0..Len(tasks)]
  /\ results \in [1..Len(tasks) -> Outcome]

(* A worker holds a task exactly while its executor runs, and only a task  *)
(* that has been claimed and has no result yet.                            *)
HeldTasks ==
  \A w \in Worker :
    /\ index[w] # 0 <=> pc[w] = "running"
    /\ index[w] # 0 => index[w] <= taskIndex /\ results[index[w]] = "unset"

(* No two workers ever run the executor on the same task: the shared       *)
(* cursor hands each position out once.                                    *)
NoSharedTask ==
  \A v, w \in Worker : index[v] # 0 /\ index[v] = index[w] => v = w

(* A claimed task is never dropped: while it has no result some worker is  *)
(* still running it, whatever other tasks did, errors included.            *)
NoTaskDropped ==
  \A i \in 1..Len(tasks) :
    IF i <= taskIndex
    THEN results[i] # "unset" \/ \E w \in Worker : index[w] = i
    ELSE results[i] = "unset"

(* A worker leaves its loop only when there is nothing left to claim: no   *)
(* failure and no pause costs the call part of its capacity while tasks    *)
(* still wait.                                                             *)
NoIdleExit == \A w \in Worker : pc[w] = "exited" => ~MoreTasks

(* Every worker the call creates for its tasks is there. *)
SpawnedWorkers == \A w \in Worker : pc[w] = "absent" <=> ~Spawned(w)

(* When the call has returned every task has a result: Promise.all over    *)
(* the workers is enough to wait for the tasks.                            *)
ReturnedAllSettled ==
  phase = "returned" => \A i \in 1..Len(tasks) : results[i] # "unset"

(* The inductive invariant behind ReturnedAllSettled and the refinement. *)
PoolInv ==
  /\ PoolTypeOK
  /\ HeldTasks
  /\ NoSharedTask
  /\ NoTaskDropped
  /\ NoIdleExit
  /\ SpawnedWorkers
  /\ phase = "returned" => \A w \in Worker : pc[w] \in {"absent", "exited"}

(* The status each task of the current call has on the abstract board. *)
TaskStatus ==
  [i \in 1..Len(tasks) |-> IF results[i] # "unset" THEN results[i]
                           ELSE IF i <= taskIndex THEN "running" ELSE "todo"]

Board == INSTANCE TaskBoard WITH
  Sizes <- {Len(b) : b \in Batches}, Slot <- Worker, status <- TaskStatus

(* The pool is a task board: every task runs once, at most Concurrency at  *)
(* a time, keeps its outcome, and the call returns after the last one.     *)
ImplementsBoard == Board!BoardSpec

(* A call that is made returns, if the tasks it runs settle. *)
CallReturns == phase = "active" ~> phase = "returned"
=============================================================================
