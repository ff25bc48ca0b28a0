--------------------------- MODULE WorkerPoolProofs ---------------------------
(***************************************************************************)
(* Proofs about WorkerPool for every batch of tasks, every concurrency and *)
(* every choice of delays.                                                 *)
(***************************************************************************)
EXTENDS WorkerPool, Functions, TLAPS

(* A list in the order of one without repeats has no repeats either.       *)
LEMMA ListsInjective ==
  ASSUME NEW order \in Seq(Task), IsInjective(order), NEW ts \in Seq(Task), NEW S,
         Lists(order, S, ts)
  PROVE  IsInjective(ts)
<1>1. \A k, l \in DOMAIN order : order[k] = order[l] => k = l
  BY DEF IsInjective
<1>2. \A k \in DOMAIN order : k \in Nat
  OBVIOUS
<1>3. \A t : ~Before(order, t, t)
  BY <1>1, <1>2 DEF Before
<1>4. \A i \in DOMAIN ts : i \in Nat
  OBVIOUS
<1>5. ASSUME NEW i \in DOMAIN ts, NEW j \in DOMAIN ts, ts[i] = ts[j]
      PROVE  i = j
  <2>1. ~(i < j) /\ ~(j < i)
    BY <1>3, <1>5 DEF Lists
  <2>2. QED
    BY <1>4, <2>1
<1>6. QED
  BY <1>5 DEF IsInjective

(* Before the first call the inductive invariant holds trivially. *)
LEMMA InitInv == PoolInit => PoolInv
BY PoolAssumption DEF PoolInit, PoolInv, PoolTypeOK, HeldTasks, NoSharedTask,
   NoTaskDropped, NoIdleExit, SpawnedWorkers, MoreTasks, Spawned, Worker, PC, Outcome

(* A call hands the first positions to the workers that start at once. *)
LEMMA CallInv ==
  ASSUME NEW ts \in Batches, Call(ts)
  PROVE  PoolInv'
<1> DEFINE starts(w) == w <= Len(ts) /\ ~Staggers(w)
<1>1. ts \in Seq(Task) /\ Len(ts) \in Nat
  BY PoolAssumption
<1>2. /\ taskIndex' \in 0..Len(ts)
      /\ \A w \in Worker : starts(w) <=> w <= taskIndex'
      /\ \A i \in 1..taskIndex' : i \in Worker
  BY <1>1, PoolAssumption DEF Call, Staggers, Worker
<1>3. /\ tasks' = ts /\ phase' = "active"
      /\ results' = [i \in 1..Len(ts) |-> "unset"]
      /\ pc' = [w \in Worker |-> IF w > Len(ts) THEN "absent"
                                 ELSE IF starts(w) THEN "running" ELSE "stagger"]
      /\ index' = [w \in Worker |-> IF starts(w) THEN w ELSE 0]
  BY DEF Call
<1> HIDE DEF starts
<1>4. \A w \in Worker : w \in Nat \ {0}
  BY PoolAssumption DEF Worker
<1>5. PoolTypeOK'
  <2>1. index' \in [Worker -> 0..Len(ts)]
    BY <1>1, <1>2, <1>3, <1>4
  <2>2. pc' \in [Worker -> PC]
    BY <1>3 DEF PC
  <2>3. results' \in [1..Len(ts) -> Outcome]
    BY <1>3 DEF Outcome
  <2>4. QED
    BY <1>1, <1>2, <1>3, <2>1, <2>2, <2>3 DEF PoolTypeOK
<1>6. HeldTasks'
  BY <1>1, <1>2, <1>3, <1>4 DEF HeldTasks
<1>7. NoSharedTask'
  BY <1>3 DEF NoSharedTask
<1>8. NoTaskDropped'
  <2> SUFFICES ASSUME NEW i \in 1..Len(ts)
               PROVE  IF i <= taskIndex' THEN \E w \in Worker : index'[w] = i
                                         ELSE results'[i] = "unset"
    BY <1>3 DEF NoTaskDropped
  <2>1. CASE i <= taskIndex'
    <3>1. i \in Worker /\ starts(i)
      BY <2>1, <1>1, <1>2
    <3>2. index'[i] = i
      BY <3>1, <1>3
    <3>3. QED
      BY <3>1, <3>2, <2>1
  <2>2. CASE ~(i <= taskIndex')
    BY <2>2, <1>3
  <2>3. QED
    BY <2>1, <2>2
<1>9. NoIdleExit' /\ SpawnedWorkers'
  BY <1>1, <1>3, <1>4 DEF NoIdleExit, SpawnedWorkers, Spawned
<1>10. QED
  BY <1>3, <1>5, <1>6, <1>7, <1>8, <1>9 DEF PoolInv

(* When a promise settles, its task gets its result and the worker moves on. *)
LEMMA SettleInv ==
  ASSUME PoolInv, NEW w \in Worker, NEW outcome \in {"value", "error"}, NEW pause \in Nat,
         Settle(w, outcome, pause)
  PROVE  PoolInv'
<1> USE PoolAssumption DEF PoolInv
<1>1. /\ Len(tasks) \in Nat /\ taskIndex \in Nat
      /\ index[w] \in 1..taskIndex /\ index[w] \in 1..Len(tasks)
      /\ results[index[w]] = "unset"
  BY DEF Settle, HeldTasks, PoolTypeOK
<1>2. results' = [results EXCEPT ![index[w]] = outcome]
  BY DEF Settle
<1>3. \/ /\ pc' = [pc EXCEPT ![w] = "delay"]
         /\ index' = [index EXCEPT ![w] = 0]
         /\ taskIndex' = taskIndex
      \/ /\ MoreTasks
         /\ pc' = [pc EXCEPT ![w] = "running"]
         /\ index' = [index EXCEPT ![w] = taskIndex + 1]
         /\ taskIndex' = taskIndex + 1
      \/ /\ ~MoreTasks
         /\ pc' = [pc EXCEPT ![w] = "exited"]
         /\ index' = [index EXCEPT ![w] = 0]
         /\ taskIndex' = taskIndex
  BY DEF Settle, Advance
<1>4. tasks' = tasks /\ phase' = "active"
  BY DEF Settle
<1>5. PoolTypeOK'
  <2>1. results' \in [1..Len(tasks) -> Outcome]
    BY <1>2 DEF PoolTypeOK, Outcome
  <2>2. pc' \in [Worker -> PC]
    BY <1>3 DEF PoolTypeOK, PC
  <2>3. taskIndex' \in 0..Len(tasks)
    BY <1>1, <1>3 DEF PoolTypeOK, MoreTasks
  <2>4. index' \in [Worker -> 0..Len(tasks)]
    <3>1. \/ index' = [index EXCEPT ![w] = 0]
          \/ MoreTasks /\ index' = [index EXCEPT ![w] = taskIndex + 1]
      BY <1>3
    <3>2. 0 \in 0..Len(tasks) /\ (MoreTasks => taskIndex + 1 \in 0..Len(tasks))
      BY <1>1 DEF MoreTasks
    <3>3. QED
      BY <3>1, <3>2 DEF PoolTypeOK
  <2>5. QED
    BY <1>4, <2>1, <2>2, <2>3, <2>4 DEF PoolTypeOK
<1>6. HeldTasks'
  <2> SUFFICES ASSUME NEW v \in Worker
               PROVE  /\ index'[v] # 0 <=> pc'[v] = "running"
                      /\ index'[v] # 0 => index'[v] <= taskIndex' /\ results'[index'[v]] = "unset"
    BY DEF HeldTasks
  <2>1. CASE v = w
    <3>1. taskIndex + 1 # index[w]
      BY <1>1
    <3>2. MoreTasks => results[taskIndex + 1] = "unset"
      BY <1>1 DEF NoTaskDropped, MoreTasks
    <3>3. index'[w] = 0 => pc'[w] # "running"
      BY <1>1, <1>3 DEF PoolTypeOK
    <3>4. index'[w] # 0 => MoreTasks /\ pc'[w] = "running" /\ index'[w] = taskIndex + 1
                           /\ taskIndex' = taskIndex + 1
      BY <1>1, <1>3 DEF PoolTypeOK
    <3>5. index'[w] # 0 => results'[index'[w]] = "unset"
      BY <1>1, <1>2, <3>1, <3>2, <3>4 DEF MoreTasks, PoolTypeOK
    <3>6. QED
      BY <1>1, <2>1, <3>3, <3>4, <3>5
  <2>2. CASE v # w
    <3>1. index'[v] = index[v] /\ pc'[v] = pc[v]
      BY <1>3, <2>2 DEF PoolTypeOK
    <3>2. index[v] # 0 => index[v] # index[w] /\ index[v] \in 1..Len(tasks)
      BY <1>1, <2>2 DEF NoSharedTask, PoolTypeOK
    <3>3. index[v] # 0 => results'[index[v]] = results[index[v]]
      BY <1>2, <3>2 DEF PoolTypeOK
    <3>4. taskIndex' \in Nat /\ taskIndex <= taskIndex'
      BY <1>1, <1>3
    <3>5. QED
      BY <1>1, <3>1, <3>2, <3>3, <3>4 DEF HeldTasks
  <2>3. QED
    BY <2>1, <2>2
<1>7. NoSharedTask'
  BY <1>1, <1>3 DEF HeldTasks, NoSharedTask, PoolTypeOK
<1>8. NoTaskDropped'
  <2> SUFFICES ASSUME NEW i \in 1..Len(tasks)
               PROVE  IF i <= taskIndex'
                      THEN results'[i] # "unset" \/ \E v \in Worker : index'[v] = i
                      ELSE results'[i] = "unset"
    BY <1>4 DEF NoTaskDropped
  <2>1. CASE i = index[w]
    BY <1>1, <1>2, <1>3, <2>1 DEF PoolTypeOK
  <2>2. CASE i # index[w] /\ i <= taskIndex
    <3>1. results'[i] = results[i] /\ i <= taskIndex'
      BY <1>1, <1>2, <1>3, <2>2 DEF PoolTypeOK
    <3>2. ASSUME NEW v \in Worker, index[v] = i
          PROVE  index'[v] = i
      BY <1>3, <2>2, <3>2 DEF PoolTypeOK
    <3>3. QED
      BY <2>2, <3>1, <3>2 DEF NoTaskDropped
  <2>3. CASE i # index[w] /\ i > taskIndex
    <3>1. results'[i] = "unset"
      BY <1>1, <1>2, <2>3 DEF NoTaskDropped, PoolTypeOK
    <3>2. CASE i <= taskIndex'
      <4>1. /\ taskIndex' = taskIndex + 1
            /\ index' = [index EXCEPT ![w] = taskIndex + 1]
        BY <1>1, <1>3, <2>3, <3>2
      <4>2. i = taskIndex + 1
        BY <1>1, <2>3, <3>2, <4>1
      <4>3. index'[w] = i
        BY <4>1, <4>2 DEF PoolTypeOK
      <4>4. QED
        BY <3>2, <4>3
    <3>3. QED
      BY <3>1, <3>2
  <2>4. QED
    BY <1>1, <2>1, <2>2, <2>3
<1>9. NoIdleExit'
  BY <1>1, <1>3, <1>4 DEF NoIdleExit, MoreTasks, PoolTypeOK
<1>10. SpawnedWorkers'
  BY <1>3, <1>4 DEF SpawnedWorkers, Spawned, PoolTypeOK, Settle
<1>11. QED
  BY <1>4, <1>5, <1>6, <1>7, <1>8, <1>9, <1>10

(* A worker that wakes claims the next task, or leaves when there is none. *)
LEMMA WakeInv ==
  ASSUME PoolInv, NEW w \in Worker, Wake(w)
  PROVE  PoolInv'
<1> USE PoolAssumption DEF PoolInv
<1>1. /\ Len(tasks) \in Nat /\ taskIndex \in Nat
      /\ index[w] = 0
  BY DEF Wake, HeldTasks, PoolTypeOK
<1>2. \/ /\ MoreTasks
         /\ pc' = [pc EXCEPT ![w] = "running"]
         /\ index' = [index EXCEPT ![w] = taskIndex + 1]
         /\ taskIndex' = taskIndex + 1
      \/ /\ ~MoreTasks
         /\ pc' = [pc EXCEPT ![w] = "exited"]
         /\ index' = [index EXCEPT ![w] = 0]
         /\ taskIndex' = taskIndex
  BY DEF Wake, Advance
<1>3. tasks' = tasks /\ phase' = "active" /\ results' = results
  BY DEF Wake
<1>4. /\ taskIndex <= Len(tasks) /\ pc \in [Worker -> PC] /\ index \in [Worker -> 0..Len(tasks)]
      /\ results \in [1..Len(tasks) -> Outcome]
  BY DEF PoolTypeOK
<1>5. CASE MoreTasks
  <2>1. /\ pc' = [pc EXCEPT ![w] = "running"] /\ taskIndex' = taskIndex + 1
        /\ index' = [index EXCEPT ![w] = taskIndex + 1]
        /\ taskIndex + 1 \in 1..Len(tasks) /\ results[taskIndex + 1] = "unset"
    BY <1>1, <1>2, <1>4, <1>5 DEF MoreTasks, NoTaskDropped
  <2>2. /\ pc'[w] = "running" /\ index'[w] = taskIndex + 1
        /\ \A v \in Worker : v # w => pc'[v] = pc[v] /\ index'[v] = index[v]
    BY <1>4, <2>1
  <2>3. PoolTypeOK'
    BY <1>1, <1>3, <1>4, <2>1 DEF PoolTypeOK, PC
  <2>4. HeldTasks'
    <3>1. \A v \in Worker : index[v] # 0 => index[v] <= taskIndex'
      BY <1>1, <1>4, <2>1 DEF HeldTasks
    <3>2. QED
      BY <1>1, <1>3, <2>1, <2>2, <3>1 DEF HeldTasks
  <2>5. NoSharedTask'
    <3>1. \A v \in Worker : index[v] # taskIndex + 1
      BY <1>1, <1>4 DEF HeldTasks
    <3>2. QED
      BY <2>2, <3>1 DEF NoSharedTask
  <2>6. NoTaskDropped'
    <3>1. index'[w] = taskIndex'
      BY <2>1, <2>2
    <3>2. \A i \in 1..Len(tasks) : i <= taskIndex => results[i] # "unset" \/ \E v \in Worker : index'[v] = i
      BY <1>1, <2>2 DEF NoTaskDropped
    <3>3. QED
      BY <1>1, <1>3, <2>1, <3>1, <3>2 DEF NoTaskDropped
  <2>7. NoIdleExit'
    BY <1>5, <2>2 DEF NoIdleExit
  <2>8. SpawnedWorkers'
    BY <1>1, <1>3, <2>2 DEF SpawnedWorkers, Spawned, Wake
  <2>9. QED
    BY <1>3, <2>3, <2>4, <2>5, <2>6, <2>7, <2>8
<1>6. CASE ~MoreTasks
  <2>1. /\ pc' = [pc EXCEPT ![w] = "exited"] /\ taskIndex' = taskIndex
        /\ index' = [index EXCEPT ![w] = 0]
    BY <1>2, <1>6
  <2>2. /\ pc'[w] = "exited" /\ index'[w] = 0 /\ index' = index
        /\ \A v \in Worker : v # w => pc'[v] = pc[v]
    BY <1>1, <1>4, <2>1
  <2>3. PoolTypeOK'
    BY <1>1, <1>3, <1>4, <2>1 DEF PoolTypeOK, PC
  <2>4. HeldTasks'
    BY <1>3, <2>1, <2>2 DEF HeldTasks
  <2>5. NoSharedTask' /\ NoTaskDropped'
    BY <1>3, <2>1, <2>2 DEF NoSharedTask, NoTaskDropped
  <2>6. NoIdleExit'
    BY <1>3, <1>6, <2>1 DEF NoIdleExit, MoreTasks
  <2>7. SpawnedWorkers'
    BY <1>1, <1>3, <2>2 DEF SpawnedWorkers, Spawned, Wake
  <2>8. QED
    BY <1>3, <2>3, <2>4, <2>5, <2>6, <2>7
<1>7. QED
  BY <1>5, <1>6

(* Promise.all resolving changes nothing but the phase. *)
LEMMA ReturnInv == PoolInv /\ Return => PoolInv'
BY DEF PoolInv, PoolTypeOK, HeldTasks, NoSharedTask, NoTaskDropped, NoIdleExit,
   SpawnedWorkers, MoreTasks, Spawned, Return

(* A step that leaves the pool alone preserves the invariant. *)
LEMMA StutterInv == PoolInv /\ UNCHANGED poolVars => PoolInv'
BY DEF PoolInv, PoolTypeOK, HeldTasks, NoSharedTask, NoTaskDropped, NoIdleExit,
   SpawnedWorkers, MoreTasks, Spawned, poolVars

(* How a worker's claim changes when it goes round its loop: it lets go of  *)
(* its task, and takes the next one or none.                               *)
Moves(w) ==
  \/ index' = [index EXCEPT ![w] = 0] /\ taskIndex' = taskIndex
  \/ MoreTasks /\ index' = [index EXCEPT ![w] = taskIndex + 1] /\ taskIndex' = taskIndex + 1

(* What settling a promise does to the pool. *)
LEMMA SettleStep ==
  ASSUME PoolInv, NEW w \in Worker, NEW outcome, NEW pause, Settle(w, outcome, pause)
  PROVE  /\ phase = "active" /\ pc[w] = "running"
         /\ phase' = "active" /\ tasks' = tasks
         /\ results' = [results EXCEPT ![index[w]] = outcome]
         /\ Moves(w)
BY DEF Settle, Advance, Moves

(* What waking from a sleep does to the pool. *)
LEMMA WakeStep ==
  ASSUME PoolInv, NEW w \in Worker, Wake(w)
  PROVE  /\ phase = "active" /\ pc[w] # "running" /\ index[w] = 0
         /\ phase' = "active" /\ tasks' = tasks /\ results' = results
         /\ Moves(w)
BY DEF Wake, Advance, Moves, PoolInv, HeldTasks

(* PoolInv is inductive: every step of the executor preserves it. *)
THEOREM PoolInvariant == PoolSafety => []PoolInv
<1>1. PoolInv /\ [PoolNext]_poolVars => PoolInv'
  <2> SUFFICES ASSUME PoolInv, [PoolNext]_poolVars
               PROVE  PoolInv'
    OBVIOUS
  <2>1. ASSUME NEW ts \in Batches, Call(ts)
        PROVE  PoolInv'
    BY <2>1, CallInv
  <2>2. ASSUME NEW w \in Worker, Resolve(w)
        PROVE  PoolInv'
    BY <2>2, SettleInv, PoolAssumption DEF Resolve
  <2>3. ASSUME NEW w \in Worker, Reject(w)
        PROVE  PoolInv'
    <3>1. PauseAfterError \in Nat
      BY PoolAssumption DEF PauseAfterError
    <3>2. QED
      BY <2>3, <3>1, SettleInv DEF Reject
  <2>4. ASSUME NEW w \in Worker, Wake(w)
        PROVE  PoolInv'
    BY <2>4, WakeInv
  <2>5. CASE Return
    BY <2>5, ReturnInv
  <2>6. CASE UNCHANGED poolVars
    BY <2>6, StutterInv
  <2>7. QED
    BY <2>1, <2>2, <2>3, <2>4, <2>5, <2>6 DEF PoolNext
<1>2. QED
  BY InitInv, <1>1, PTL DEF PoolSafety

-----------------------------------------------------------------------------
(* Once every worker has left its loop, every task has a result. *)
LEMMA AllLeftAllSettled ==
  ASSUME PoolInv, \A w \in Worker : pc[w] \in {"absent", "exited"}
  PROVE  \A i \in 1..Len(tasks) : results[i] # "unset"
<1> SUFFICES ASSUME NEW i \in 1..Len(tasks)
             PROVE  results[i] # "unset"
  OBVIOUS
<1>1. Len(tasks) \in Nat /\ taskIndex \in 0..Len(tasks)
  BY DEF PoolInv, PoolTypeOK
<1>2. 1 \in Worker /\ pc[1] # "absent"
  BY <1>1, PoolAssumption DEF PoolInv, SpawnedWorkers, Spawned, Worker
<1>3. taskIndex = Len(tasks)
  BY <1>1, <1>2 DEF PoolInv, NoIdleExit, MoreTasks
<1>4. \A w \in Worker : index[w] = 0
  BY DEF PoolInv, HeldTasks
<1>5. QED
  BY <1>1, <1>3, <1>4 DEF PoolInv, NoTaskDropped

(* When executeWithConcurrency has returned, every task it was given has a *)
(* result: no error, pause or race of the workers can lose one.            *)
THEOREM ReturnImpliesSettled == PoolSafety => []ReturnedAllSettled
<1>1. PoolInv => ReturnedAllSettled
  BY AllLeftAllSettled DEF PoolInv, ReturnedAllSettled
<1>2. QED
  BY <1>1, PoolInvariant, PTL

(* No task is ever run by two workers at once. *)
THEOREM TasksNotShared == PoolSafety => []NoSharedTask
<1>1. PoolInv => NoSharedTask
  BY DEF PoolInv
<1>2. QED
  BY <1>1, PoolInvariant, PTL

-----------------------------------------------------------------------------
(* The tasks in flight on the board are the ones workers hold. *)
LEMMA BoardWithinLimit ==
  ASSUME PoolInv'
  PROVE  Board!WithinLimit(TaskStatus')
<1> DEFINE R == Board!Running(TaskStatus')
           holder == [i \in R |-> CHOOSE w \in Worker : index'[w] = i]
<1>1. \A i \in R : \E w \in Worker : index'[w] = i
  BY DEF Board!Running, TaskStatus, PoolInv, PoolTypeOK, NoTaskDropped, Outcome
<1>2. \A i \in R : holder[i] \in Worker /\ index'[holder[i]] = i
  BY <1>1
<1>3. holder \in [R -> Worker]
  BY <1>2
<1>4. \A i, j \in R : holder[i] = holder[j] => i = j
  BY <1>2
<1> HIDE DEF holder
<1>5. QED
  BY <1>3, <1>4 DEF Board!WithinLimit

(* A call begins on the board with its first tasks already in flight. *)
LEMMA CallBegins ==
  ASSUME NEW ts \in Batches, Call(ts), PoolInv'
  PROVE  Board!Begin
<1>1. phase # "active" /\ phase' = "active"
  BY DEF Call
<1>2. /\ tasks' = ts /\ Len(ts) \in {Len(b) : b \in Batches}
      /\ results' = [i \in 1..Len(ts) |-> "unset"]
  BY DEF Call
<1>3. DOMAIN TaskStatus' = 1..Len(ts)
  BY <1>2 DEF TaskStatus
<1>4. \A i \in DOMAIN TaskStatus' : TaskStatus'[i] \in {"todo", "running"}
  BY <1>2, <1>3 DEF TaskStatus
<1>5. QED
  BY <1>1, <1>2, <1>3, <1>4, BoardWithinLimit DEF Board!Begin

(* A step inside a call moves every task along the board or leaves it. *)
LEMMA CallProgresses ==
  ASSUME PoolInv, PoolInv', phase = "active", phase' = "active", tasks' = tasks,
         taskIndex <= taskIndex',
         \A i \in 1..Len(tasks) :
           \/ results'[i] = results[i]
           \/ results[i] = "unset" /\ i <= taskIndex
  PROVE  Board!Progress
<1>1. taskIndex \in Nat /\ taskIndex' \in Nat /\ Len(tasks) \in Nat
  BY DEF PoolInv, PoolTypeOK
<1>2. DOMAIN TaskStatus' = DOMAIN TaskStatus /\ DOMAIN TaskStatus = 1..Len(tasks)
  BY DEF TaskStatus
<1>3. ASSUME NEW i \in 1..Len(tasks)
      PROVE  <<TaskStatus[i], TaskStatus'[i]>> \in Board!Moves
  <2>1. results[i] \in Outcome /\ results'[i] \in Outcome
    BY DEF PoolInv, PoolTypeOK
  <2>2. CASE results'[i] = results[i]
    BY <1>1, <2>1, <2>2 DEF TaskStatus, Board!Moves, Board!Status, Outcome
  <2>3. CASE results[i] = "unset" /\ i <= taskIndex
    BY <1>1, <2>1, <2>3 DEF TaskStatus, Board!Moves, Board!Status, Outcome
  <2>4. QED
    BY <2>2, <2>3
<1>4. QED
  BY <1>2, <1>3, BoardWithinLimit DEF Board!Progress

(* The executor implements the task board: started once, never more than   *)
(* Concurrency in flight, outcomes kept, returned when all have settled.   *)
THEOREM PoolImplementsBoard == PoolSafety => ImplementsBoard
<1>1. PoolInit => Board!BoardInit
  BY DEF PoolInit, Board!BoardInit, TaskStatus
<1>2. PoolInv /\ PoolInv' /\ [PoolNext]_poolVars => [Board!BoardNext]_(Board!boardVars)
  <2> SUFFICES ASSUME PoolInv, PoolInv', [PoolNext]_poolVars
               PROVE  Board!BoardNext \/ UNCHANGED Board!boardVars
    OBVIOUS
  <2>1. ASSUME NEW ts \in Batches, Call(ts)
        PROVE  Board!BoardNext
    BY <2>1, CallBegins DEF Board!BoardNext
  <2>2. ASSUME NEW w \in Worker, NEW outcome, NEW pause, Settle(w, outcome, pause)
        PROVE  Board!BoardNext
    <3>1. taskIndex \in Nat
      BY DEF PoolInv, PoolTypeOK
    <3>2. taskIndex <= taskIndex'
      BY <2>2, <3>1 DEF Settle, Advance
    <3>3. index[w] <= taskIndex /\ results[index[w]] = "unset"
      BY <2>2 DEF Settle, PoolInv, HeldTasks
    <3>4. \A i \in 1..Len(tasks) : i # index[w] => results'[i] = results[i]
      BY <2>2 DEF Settle, PoolInv, PoolTypeOK
    <3>5. phase = "active" /\ phase' = "active" /\ tasks' = tasks
      BY <2>2 DEF Settle
    <3>6. Board!Progress
      BY <3>2, <3>3, <3>4, <3>5, CallProgresses
    <3>7. QED
      BY <3>6 DEF Board!BoardNext
  <2>3. ASSUME NEW w \in Worker, Wake(w)
        PROVE  Board!BoardNext
    <3>1. taskIndex \in Nat
      BY DEF PoolInv, PoolTypeOK
    <3>2. /\ phase = "active" /\ phase' = "active" /\ tasks' = tasks
          /\ results' = results /\ taskIndex <= taskIndex'
      BY <2>3, <3>1 DEF Wake, Advance
    <3>3. QED
      BY <3>2, CallProgresses DEF Board!BoardNext
  <2>4. CASE Return
    <3>1. \A i \in 1..Len(tasks) : results[i] # "unset"
      BY <2>4, AllLeftAllSettled DEF Return
    <3>2. /\ phase = "active" /\ phase' = "returned"
          /\ tasks' = tasks /\ results' = results /\ taskIndex' = taskIndex
      BY <2>4 DEF Return
    <3>3. \A i \in DOMAIN TaskStatus : TaskStatus[i] \in {"value", "error"}
      BY <3>1 DEF TaskStatus, PoolInv, PoolTypeOK, Outcome
    <3>4. UNCHANGED TaskStatus
      BY <3>2 DEF TaskStatus
    <3>5. QED
      BY <3>2, <3>3, <3>4 DEF Board!Finish, Board!BoardNext
  <2>5. CASE UNCHANGED poolVars
    BY <2>5 DEF poolVars, Board!boardVars, TaskStatus
  <2>6. ASSUME NEW w \in Worker, Resolve(w) \/ Reject(w)
        PROVE  Board!BoardNext
    BY <2>2, <2>6 DEF Resolve, Reject
  <2>7. QED
    BY <2>1, <2>3, <2>4, <2>5, <2>6 DEF PoolNext, Board!BoardNext
<1>3. QED
  BY <1>1, <1>2, PoolInvariant, PTL DEF PoolSafety, ImplementsBoard, Board!BoardSpec
=============================================================================
