------------------------- MODULE BenchmarkRunProofs -------------------------
(***************************************************************************)
(* Proofs about BenchmarkRun for every matrix of prompts and targets, every *)
(* concurrency, every choice of delays and any number of sessions, crashes, *)
(* failed writes and cleans.                                               *)
(***************************************************************************)
EXTENDS BenchmarkRun, WorkerPoolProofs, FiniteSetTheorems

(* The numbers up to n are n. *)
LEMMA UpToFinite == ASSUME NEW n \in Nat PROVE IsFiniteSet(1..n) /\ Cardinality(1..n) = n
<1>1. 1 \in Int /\ n \in Int /\ (IF 1 > n THEN 0 ELSE n - 1 + 1) = n
  OBVIOUS
<1>2. /\ IsFiniteSet(1..n)
      /\ Cardinality(1..n) = IF 1 > n THEN 0 ELSE n - 1 + 1
  BY <1>1, FS_Interval
<1>3. QED
  BY <1>1, <1>2

(* A count taken below its bound may be taken once more. *)
LEMMA CountUp ==
  ASSUME NEW n \in Nat, NEW c \in 0..n, c < n
  PROVE  c + 1 \in 0..n /\ c + 1 # 0
OBVIOUS

(* The bounds are numbers, and so are the counts of what disturbed a run.   *)
LEMMA CountsTyped ==
  ASSUME TypeOK
  PROVE  /\ MaxSessions \in Nat /\ MaxCrashes \in Nat /\ MaxFaults \in Nat /\ MaxCleans \in Nat
         /\ crashes \in 0..MaxCrashes /\ crashes \in Nat
         /\ faults \in 0..MaxFaults /\ faults \in Nat
         /\ cleans \in 0..MaxCleans /\ cleans \in Nat
<1>1. MaxSessions \in Nat /\ MaxCrashes \in Nat /\ MaxFaults \in Nat /\ MaxCleans \in Nat
  BY BenchmarkAssumption
<1>2. crashes \in 0..MaxCrashes /\ faults \in 0..MaxFaults /\ cleans \in 0..MaxCleans
  BY DEF TypeOK
<1>3. crashes \in Nat /\ faults \in Nat /\ cleans \in Nat
  BY <1>1, <1>2
<1>4. QED
  BY <1>1, <1>2, <1>3

(* A worker whose executor is busy holds a claimed task without a result,   *)
(* and the session is running.                                             *)
LEMMA BusyWorker ==
  ASSUME BenchmarkInv, NEW w \in Worker, job[w].stage # "none"
  PROVE  /\ up /\ phase = "active" /\ pc[w] = "running"
         /\ taskIndex \in Nat /\ Len(tasks) \in Nat /\ taskIndex <= Len(tasks)
         /\ index[w] \in 1..taskIndex /\ index[w] \in 1..Len(tasks)
         /\ results[index[w]] = "unset" /\ TaskOf(w) \in Task
<1> USE DEF BenchmarkInv, PoolInv
<1>1. index[w] # 0 /\ index[w] \in 0..Len(tasks) /\ pc[w] = "running"
  BY DEF TypeOK, PoolTypeOK, HeldTasks
<1>2. /\ Len(tasks) \in Nat /\ taskIndex \in Nat /\ taskIndex <= Len(tasks)
      /\ tasks \in Seq(Task)
  BY DEF PoolTypeOK
<1>3. index[w] \in 1..taskIndex /\ index[w] \in 1..Len(tasks) /\ results[index[w]] = "unset"
  BY <1>1, <1>2 DEF HeldTasks
<1>4. phase # "returned" /\ phase # "idle"
  BY <1>1, <1>2, <1>3 DEF PoolOfSession
<1>5. up /\ phase = "active"
  BY <1>4 DEF PoolOfSession, TypeOK, PoolTypeOK
<1>6. TaskOf(w) \in Task
  BY <1>2, <1>3 DEF TaskOf
<1>7. QED
  BY <1>1, <1>2, <1>3, <1>5, <1>6

(* The bound on sessions in LastSessionFiles is the one of the type.       *)
LEMMA SessionBound ==
  ASSUME NEW s \in Nat, NEW c \in 0..MaxCrashes, NEW f \in 0..MaxFaults, NEW k \in 0..MaxCleans,
         s <= MaxSessions + c + f + k + 1
  PROVE  s \in 0..LastSession
<1>1. MaxSessions \in Nat /\ MaxCrashes \in Nat /\ MaxFaults \in Nat /\ MaxCleans \in Nat
  BY BenchmarkAssumption
<1>2. QED
  BY <1>1 DEF LastSession

(* The file a worker writes is well typed. *)
LEMMA FileTyped ==
  ASSUME BenchmarkInv, NEW w \in Worker, job[w].stage \in {"json", "md"}, NEW whole \in BOOLEAN
  PROVE  FileOf(w, whole) \in Artifact
<1>1. up /\ TaskOf(w) \in Task /\ job[w].error \in BOOLEAN
  BY BusyWorker DEF BenchmarkInv, TypeOK
<1>2. session \in 1..LastSession
  BY <1>1 DEF BenchmarkInv, TypeOK, PoolOfSession, LastSession
<1>3. QED
  BY <1>1, <1>2 DEF FileOf, Artifact
(* A worker that goes round its loop starts over with a prompt to load, or  *)
(* has nothing to do; the jobs of the others go on.                        *)
LEMMA JobMoves ==
  ASSUME TypeOK, PoolTypeOK, PoolTypeOK', NEW w \in Worker, phase = "active", Moves(w),
         tasks' = tasks, StartClaimed
  PROVE  /\ job' \in [Worker -> [stage : {"none", "infer", "json", "md"}, error : BOOLEAN]]
         /\ \A v \in Worker : job'[v].stage # "none" <=> index'[v] # 0
         /\ \A v \in Worker \ {w} :
              index'[v] = index[v] /\ job'[v].stage = job[v].stage
              /\ (job[v].stage # "none" => job'[v] = job[v])
         /\ job'[w].stage \in {"none", "infer"} \/ (job'[w] = job[w] /\ index'[w] = index[w])
         /\ index'[w] = 0 \/ (index'[w] = taskIndex + 1 /\ taskIndex' = taskIndex + 1 /\ MoreTasks)
         /\ taskIndex \in Nat /\ taskIndex' \in Nat /\ taskIndex <= taskIndex'
<1> USE DEF NoJob
<1>1. /\ index \in [Worker -> 0..Len(tasks)] /\ index' \in [Worker -> 0..Len(tasks)]
      /\ taskIndex \in Nat /\ taskIndex' \in Nat
  BY DEF PoolTypeOK
<1>2. job' = [v \in Worker |-> IF index'[v] = 0 THEN NoJob
                               ELSE IF index'[v] = index[v] THEN job[v]
                               ELSE [stage |-> "infer", error |-> FALSE]]
  BY DEF StartClaimed
<1>3. \A v \in Worker : job[v] \in [stage : {"none", "infer", "json", "md"}, error : BOOLEAN]
                         /\ (job[v].stage # "none" <=> index[v] # 0)
  BY DEF TypeOK
<1>4. \A v \in Worker \ {w} : index'[v] = index[v]
  BY <1>1 DEF Moves
<1>5. /\ index'[w] = 0 \/ (index'[w] = taskIndex + 1 /\ taskIndex' = taskIndex + 1 /\ MoreTasks)
      /\ taskIndex <= taskIndex'
  BY <1>1 DEF Moves
<1>6. \A v \in Worker :
        \/ index'[v] = 0 /\ job'[v] = NoJob
        \/ index'[v] # 0 /\ index'[v] = index[v] /\ job'[v] = job[v]
        \/ index'[v] # 0 /\ index'[v] # index[v] /\ job'[v] = [stage |-> "infer", error |-> FALSE]
  BY <1>2
<1>7. job' \in [Worker -> [stage : {"none", "infer", "json", "md"}, error : BOOLEAN]]
  <2>1. DOMAIN job' = Worker /\ job' = [v \in Worker |-> job'[v]]
    BY <1>2
  <2>2. ASSUME NEW v \in Worker
        PROVE  job'[v] \in [stage : {"none", "infer", "json", "md"}, error : BOOLEAN]
    <3>1. \/ job'[v] = NoJob \/ job'[v] = job[v]
          \/ job'[v] = [stage |-> "infer", error |-> FALSE]
      BY <1>6
    <3>2. job[v] \in [stage : {"none", "infer", "json", "md"}, error : BOOLEAN]
      BY <1>3
    <3>3. /\ NoJob \in [stage : {"none", "infer", "json", "md"}, error : BOOLEAN]
          /\ [stage |-> "infer", error |-> FALSE]
               \in [stage : {"none", "infer", "json", "md"}, error : BOOLEAN]
      OBVIOUS
    <3> HIDE DEF NoJob
    <3>4. QED
      BY <3>1, <3>2, <3>3, Zenon
  <2>3. QED
    BY <2>1, <2>2
<1>8. \A v \in Worker : job'[v].stage # "none" <=> index'[v] # 0
  BY <1>3, <1>6
<1>9. \A v \in Worker \ {w} : job'[v].stage = job[v].stage
                              /\ (job[v].stage # "none" => job'[v] = job[v])
  BY <1>3, <1>4, <1>6
<1>10. job'[w].stage \in {"none", "infer"} \/ (job'[w] = job[w] /\ index'[w] = index[w])
  BY <1>6
<1>11. QED
  BY <1>1, <1>4, <1>5, <1>7, <1>8, <1>9, <1>10
(* A task with a record is one the resume check passes over. *)
LEMMA RecordedIsCompleted == ASSUME NEW t, HasRecord(t) PROVE IsTaskCompleted(t)
BY DEF HasRecord, IsTaskCompleted, NamedFor

(* Before the first session there is nothing on disk and nobody works. *)
LEMMA BenchmarkInit == Init => BenchmarkInv
<1> SUFFICES ASSUME Init PROVE BenchmarkInv
  OBVIOUS
<1> USE BenchmarkAssumption DEF Init
<1>1. PoolInv
  BY InitInv
<1>2. tasks = << >> /\ phase = "idle" /\ \A w \in Worker : index[w] = 0 /\ job[w] = NoJob
  BY DEF PoolInit
<1>3. TypeOK
  <2>1. PoolTypeOK
    BY <1>1 DEF PoolInv
  <2>2. session \in 0..LastSession /\ crashes \in 0..MaxCrashes /\ faults \in 0..MaxFaults
        /\ cleans \in 0..MaxCleans
    BY DEF LastSession
  <2>3. job \in [Worker -> [stage : {"none", "infer", "json", "md"}, error : BOOLEAN]]
    BY DEF NoJob
  <2>4. \A w \in Worker : job[w].stage # "none" <=> index[w] # 0
    BY <1>2 DEF NoJob
  <2>5. completed \in 0..Len(tasks) /\ failed \in 0..Len(tasks)
    BY <1>2
  <2>6. QED
    BY <2>1, <2>2, <2>3, <2>4, <2>5 DEF TypeOK
<1>4. PoolOfSession
  BY <1>2 DEF PoolOfSession, IsInjective
<1>5. FilesClaimed
  BY FS_EmptySet DEF FilesClaimed
<1>6. JobRecord
  BY <1>2 DEF JobRecord, NoJob
<1>7. ViewHasRecord /\ CountersMatch /\ WaitingUnrecorded
  BY DEF ViewHasRecord, CountersMatch, WaitingUnrecorded
<1>8. LastSessionFiles
  BY DEF LastSessionFiles
<1>9. QED
  BY <1>1, <1>3, <1>4, <1>5, <1>6, <1>7, <1>8 DEF BenchmarkInv

(* A session starts with the tasks that have no record, in the order of the *)
(* matrix, and with counters at zero.                                      *)
LEMMA StartSessionInv ==
  ASSUME BenchmarkInv, NEW targets \in Targets, StartSession(targets)
  PROVE  BenchmarkInv'
<1> USE DEF BenchmarkInv
<1>1. /\ ~up /\ phase # "active" /\ session' = session + 1 /\ session \in Nat
      /\ completed' = 0 /\ failed' = 0 /\ disk' = disk /\ selected' \subseteq Task
      /\ crashes' = crashes /\ faults' = faults /\ cleans' = cleans
  BY DEF StartSession, PoolOfSession, TypeOK, bounds, LastSession
<1>2. PICK pending \in Batches :
        /\ Lists(Matrix, Pending(targets), pending)
        /\ IF pending = << >>
           THEN UNCHANGED <<poolVars, up, job>>
           ELSE up' = TRUE /\ Call(pending) /\ StartClaimed
  BY DEF StartSession
<1>3. pending \in Seq(Task) /\ Len(pending) \in Nat /\ IsInjective(pending)
      /\ \A t : t \in Pending(targets) <=> \E i \in 1..Len(pending) : pending[i] = t
  <2>1. pending \in Seq(Task)
    BY PoolAssumption
  <2>2. IsInjective(pending)
    BY <1>2, <2>1, BenchmarkAssumption, ListsInjective
  <2>3. QED
    BY <1>2, <2>1, <2>2 DEF Lists
<1>4. pending # << >> => /\ tasks' = pending /\ phase' = "active" /\ up'
                         /\ results' = [i \in 1..Len(pending) |-> "unset"]
  BY <1>2 DEF Call
<1>5. LastSessionFiles'
  <2> DEFINE disturbed == MaxSessions + crashes + faults + cleans
  <2>1. disturbed \in Nat /\ MaxSessions <= disturbed
    <3>1. /\ MaxSessions \in Nat /\ crashes \in Nat /\ faults \in Nat /\ cleans \in Nat
      BY CountsTyped
    <3> HIDE DEF BenchmarkInv
    <3>2. QED
      BY <3>1
  <2>2. CASE session < MaxSessions
    <3>1. session' <= disturbed
      <4>1. session' = session + 1 /\ session \in Nat /\ MaxSessions \in Nat
        BY <1>1, BenchmarkAssumption
      <4> HIDE DEF disturbed
      <4>2. QED
        BY <2>1, <2>2, <4>1
    <3>2. disturbed' = disturbed /\ session' \in Nat
      BY <1>1
    <3>3. session' <= disturbed + 1 /\ ~(session' > disturbed)
      <4> HIDE DEF disturbed
      <4>1. QED
        BY <2>1, <3>1, <3>2
    <3>4. QED
      BY <1>1, <3>3 DEF LastSessionFiles
  <2>3. CASE targets = Target /\ SomethingMissing
    <3>1. session <= disturbed
      BY <1>1, <2>1, <2>3 DEF LastSessionFiles, SomethingMissing
    <3>2. ASSUME NEW t \in Task, ~IsTaskCompleted(t)'
          PROVE  up' /\ \E i \in 1..Len(tasks') : tasks'[i] = t /\ results'[i] = "unset"
      <4>1. ~IsTaskCompleted(t)
        BY <1>1, <3>2 DEF IsTaskCompleted, NamedFor
      <4>2. t \in Pending(targets)
        BY <2>3, <4>1, BenchmarkAssumption DEF Pending
      <4>3. PICK i \in 1..Len(pending) : pending[i] = t
        BY <1>3, <4>2
      <4>4. QED
        BY <1>3, <1>4, <4>3
    <3>3. session' <= disturbed + 1
      BY <1>1, <2>1, <3>1
    <3>4. QED
      BY <1>1, <3>2, <3>3 DEF LastSessionFiles
  <2>4. QED
    BY <2>2, <2>3 DEF StartSession
<1>6. session' \in 0..LastSession
  <2>1. session' \in Nat /\ session' <= MaxSessions + crashes + faults + cleans + 1
    BY <1>1, <1>5 DEF LastSessionFiles
  <2>2. QED
    BY <2>1, SessionBound DEF TypeOK
<1>7. ViewHasRecord'
  BY <1>1 DEF ViewHasRecord
<1>8. \A f \in disk : f.session <= session /\ f.session # session'
  <2>1. \A f \in disk : f.session \in Nat
    BY DEF TypeOK, Artifact, LastSession
  <2>2. QED
    BY <1>1, <2>1 DEF FilesClaimed
<1>9. FilesClaimed'
  <2>1. \A f \in disk : f.session \in Int
    BY DEF TypeOK, Artifact
  <2>2. QED
    BY <1>1, <1>8, <2>1 DEF FilesClaimed
<1>10. CASE pending = << >>
  <2>1. UNCHANGED <<poolVars, up, job>>
    BY <1>2, <1>10
  <2>2. PoolInv'
    BY <2>1, StutterInv
  <2>3. TypeOK'
    BY <1>1, <1>6, <2>1, <2>2 DEF TypeOK, PoolInv, PoolTypeOK, poolVars
  <2>4. PoolOfSession'
    BY <1>1, <2>1 DEF PoolOfSession, poolVars
  <2>5. JobRecord'
    BY <1>1, <2>1, BusyWorker DEF JobRecord
  <2>6. CountersMatch' /\ WaitingUnrecorded'
    BY <1>1, <2>1 DEF CountersMatch, WaitingUnrecorded
  <2>7. QED
    BY <1>5, <1>7, <1>9, <2>2, <2>3, <2>4, <2>5, <2>6
<1>11. CASE pending # << >>
  <2>1. up' /\ Call(pending) /\ StartClaimed
    BY <1>2, <1>11
  <2>2. PoolInv'
    BY <2>1, CallInv
  <2>3. job' = [w \in Worker |-> IF index'[w] = 0 THEN NoJob
                                 ELSE [stage |-> "infer", error |-> FALSE]]
    BY <1>1, <2>1 DEF StartClaimed
  <2>4. TypeOK'
    <3>1. job' \in [Worker -> [stage : {"none", "infer", "json", "md"}, error : BOOLEAN]]
      BY <2>3 DEF NoJob
    <3>2. \A w \in Worker : job'[w].stage # "none" <=> index'[w] # 0
      BY <2>3 DEF NoJob
    <3>3. PoolTypeOK'
      BY <2>2 DEF PoolInv
    <3>4. completed' \in 0..Len(tasks') /\ failed' \in 0..Len(tasks')
      BY <1>1, <1>3, <1>4, <1>11
    <3>5. up' \in BOOLEAN
      BY <1>2, <1>11
    <3>6. QED
      BY <1>1, <1>6, <3>1, <3>2, <3>3, <3>4, <3>5 DEF TypeOK
  <2>5. PoolOfSession'
    BY <1>1, <1>3, <1>4, <1>11 DEF PoolOfSession
  <2>6. JobRecord'
    BY <2>3 DEF JobRecord, NoJob
  <2>7. CountersMatch'
    <3>1. Views(FALSE)' = {} /\ Views(TRUE)' = {}
      BY <1>1, <1>8 DEF Views
    <3>2. Settled("value")' = {}
      BY <1>4, <1>11 DEF Settled
    <3>3. Cardinality({}) = 0
      BY FS_EmptySet
    <3>4. /\ Cardinality(Views(FALSE))' = 0 /\ Cardinality(Views(TRUE))' = 0
          /\ Cardinality(Settled("value"))' = 0
      BY <3>1, <3>2, <3>3
    <3>5. completed' = 0 /\ failed' = 0 /\ completed' + failed' = 0
      BY <1>1
    <3>6. QED
      BY <3>4, <3>5, Zenon DEF CountersMatch
  <2>8. WaitingUnrecorded'
    <3>1. ASSUME NEW i \in 1..Len(pending) PROVE ~HasRecord(pending[i])'
      <4>1. pending[i] \in Pending(targets)
        BY <1>3
      <4>2. ~HasRecord(pending[i])
        BY <4>1, RecordedIsCompleted DEF Pending
      <4>3. QED
        BY <1>1, <4>2 DEF HasRecord
    <3>2. QED
      BY <1>4, <1>11, <3>1 DEF WaitingUnrecorded, HasRecord
  <2>9. QED
    BY <1>5, <1>7, <1>9, <2>2, <2>4, <2>5, <2>6, <2>7, <2>8
<1>12. QED
  BY <1>10, <1>11

(* The answer of the backend, or its error, leaves everything but the job.  *)
LEMMA InferenceDoneInv ==
  ASSUME BenchmarkInv, NEW w \in Worker, NEW error \in BOOLEAN, InferenceDone(w, error)
  PROVE  BenchmarkInv'
<1>1. /\ job[w].stage = "infer" /\ job' = [job EXCEPT ![w] = [stage |-> "json", error |-> error]]
      /\ UNCHANGED <<poolVars, disk, session, up, selected, completed, failed, bounds>>
  BY DEF InferenceDone
<1> USE DEF BenchmarkInv
<1>2. PoolInv'
  BY <1>1, StutterInv
<1>3. TypeOK'
  <2>1. job' \in [Worker -> [stage : {"none", "infer", "json", "md"}, error : BOOLEAN]]
    <3>1. [stage |-> "json", error |-> error] \in [stage : {"none", "infer", "json", "md"}, error : BOOLEAN]
      OBVIOUS
    <3>2. QED
      BY <1>1, <3>1 DEF TypeOK
  <2>2. \A v \in Worker : job'[v].stage # "none" <=> index'[v] # 0
    BY <1>1 DEF TypeOK, poolVars
  <2>3. QED
    BY <1>1, <1>2, <2>1, <2>2 DEF TypeOK, PoolInv, poolVars, bounds
<1>4. JobRecord'
  BY <1>1 DEF JobRecord, TypeOK, TaskOf, poolVars
<1>5. PoolOfSession' /\ FilesClaimed' /\ ViewHasRecord' /\ WaitingUnrecorded'
  BY <1>1 DEF PoolOfSession, FilesClaimed, ViewHasRecord, WaitingUnrecorded, HasRecord,
              poolVars, bounds
<1>6. CountersMatch'
  BY <1>1 DEF CountersMatch, Views, Settled, poolVars
<1>7. LastSessionFiles'
  BY <1>1 DEF LastSessionFiles, IsTaskCompleted, NamedFor, poolVars, bounds
<1>8. QED
  BY <1>2, <1>3, <1>4, <1>5, <1>6, <1>7

(* Creating a file adds a torn one of the worker's own task and session. *)
LEMMA OpenFileInv ==
  ASSUME BenchmarkInv, NEW w \in Worker, OpenFile(w)
  PROVE  BenchmarkInv'
<1> DEFINE new == FileOf(w, FALSE)
<1>1. /\ job[w].stage \in {"json", "md"} /\ disk' = disk \cup {new}
      /\ UNCHANGED <<poolVars, session, up, selected, job, completed, failed, bounds>>
  BY DEF OpenFile
<1>2. /\ up /\ index[w] \in 1..taskIndex /\ TaskOf(w) = tasks[index[w]]
      /\ new \in Artifact
  BY <1>1, BusyWorker, FileTyped DEF TaskOf
<1>3. /\ new.session = session /\ new.task = TaskOf(w) /\ new.whole = FALSE
      /\ new.ext = job[w].stage /\ new.error = job[w].error
  BY DEF FileOf
<1> HIDE DEF new
<1> USE DEF BenchmarkInv
<1>4. PoolInv'
  BY <1>1, StutterInv
<1>5. TypeOK'
  BY <1>1, <1>2, <1>4 DEF TypeOK, PoolInv, poolVars, bounds
<1>6. PoolOfSession'
  BY <1>1 DEF PoolOfSession, poolVars
<1>7. FilesClaimed'
  <2>1. IsFiniteSet(disk')
    BY <1>1, FS_AddElement DEF FilesClaimed
  <2>2. session <= session
    BY DEF TypeOK, LastSession
  <2>3. QED
    BY <1>1, <1>2, <1>3, <2>1, <2>2 DEF FilesClaimed, poolVars
<1>8. JobRecord'
  BY <1>1 DEF JobRecord, TaskOf, poolVars
<1>9. ViewHasRecord'
  <2> SUFFICES ASSUME cleans' = 0, NEW v \in disk', v.ext = "md"
               PROVE  \E f \in disk' : f.ext = "json" /\ f.whole /\ f.task = v.task
                                       /\ f.session = v.session /\ f.error = v.error
    BY DEF ViewHasRecord
  <2>1. CASE v \in disk
    BY <1>1, <2>1 DEF ViewHasRecord, bounds
  <2>2. CASE v = new
    BY <1>1, <1>3, <2>2 DEF JobRecord
  <2>3. QED
    BY <1>1, <2>1, <2>2
<1>10. Views(FALSE)' = Views(FALSE) /\ Views(TRUE)' = Views(TRUE) /\ Settled("value")' = Settled("value")
  BY <1>1, <1>3 DEF Views, Settled, poolVars
<1>11. CountersMatch'
  BY <1>1, <1>10, Zenon DEF CountersMatch
<1>12. WaitingUnrecorded'
  BY <1>1, <1>3 DEF WaitingUnrecorded, HasRecord, poolVars
<1>13. LastSessionFiles'
  BY <1>1 DEF LastSessionFiles, IsTaskCompleted, NamedFor, poolVars, bounds
<1>14. QED
  BY <1>4, <1>5, <1>6, <1>7, <1>8, <1>9, <1>11, <1>12, <1>13

(* Writing the content keeps every whole file and every name.              *)
LEMMA CompleteFileStep ==
  ASSUME BenchmarkInv, NEW w \in Worker, job[w].stage \in {"json", "md"}, CompleteFile(w)
  PROVE  /\ disk' \subseteq Artifact /\ IsFiniteSet(disk')
         /\ \A t : IsTaskCompleted(t) => IsTaskCompleted(t)'
         /\ \A f \in disk : f.whole => f \in disk'
         /\ \A f \in disk' : f \in disk \/ f = FileOf(w, TRUE)
         /\ FileOf(w, TRUE) \in disk'
<1> DEFINE torn == FileOf(w, FALSE)  new == FileOf(w, TRUE)
<1>1. disk' = (disk \ {torn}) \cup {new} /\ new \in Artifact
  BY FileTyped DEF CompleteFile
<1>2. torn.whole = FALSE /\ torn.task = new.task /\ torn.ext = new.ext
  BY DEF FileOf
<1> HIDE DEF torn, new
<1>3. IsFiniteSet(disk')
  <2>1. IsFiniteSet(disk \ {torn})
    BY FS_RemoveElement DEF BenchmarkInv, FilesClaimed
  <2>2. QED
    BY <1>1, <2>1, FS_AddElement
<1>4. \A t : IsTaskCompleted(t) => IsTaskCompleted(t)'
  BY <1>1, <1>2 DEF IsTaskCompleted, NamedFor
<1>5. QED
  BY <1>1, <1>2, <1>3, <1>4 DEF BenchmarkInv, TypeOK, new

(* The record is whole: its task has been claimed, so that no waiting task  *)
(* gets a record, and the view may follow.                                 *)
LEMMA JsonWrittenInv ==
  ASSUME BenchmarkInv, NEW w \in Worker, JsonWritten(w)
  PROVE  BenchmarkInv'
<1> DEFINE new == FileOf(w, TRUE)
<1>1. /\ job[w].stage = "json" /\ CompleteFile(w) /\ job' = [job EXCEPT ![w].stage = "md"]
      /\ UNCHANGED <<poolVars, session, up, selected, completed, failed, bounds>>
  BY DEF JsonWritten
<1>2. /\ up /\ index[w] \in 1..taskIndex /\ index[w] \in 1..Len(tasks) /\ taskIndex \in Nat
      /\ TaskOf(w) = tasks[index[w]]
  BY <1>1, BusyWorker DEF TaskOf
<1>3. /\ disk' \subseteq Artifact /\ IsFiniteSet(disk')
      /\ \A t : IsTaskCompleted(t) => IsTaskCompleted(t)'
      /\ \A f \in disk : f.whole => f \in disk'
      /\ \A f \in disk' : f \in disk \/ f = new
      /\ new \in disk'
  BY <1>1, CompleteFileStep
<1>4. /\ new.session = session /\ new.task = TaskOf(w) /\ new.whole = TRUE
      /\ new.ext = "json" /\ new.error = job[w].error
  BY <1>1 DEF FileOf
<1> HIDE DEF new
<1> USE DEF BenchmarkInv
<1>5. job'[w] = [stage |-> "md", error |-> job[w].error] /\ \A v \in Worker \ {w} : job'[v] = job[v]
  BY <1>1 DEF TypeOK
<1>6. PoolInv'
  BY <1>1, StutterInv
<1>7. TypeOK'
  <2>1. job' \in [Worker -> [stage : {"none", "infer", "json", "md"}, error : BOOLEAN]]
    BY <1>1 DEF TypeOK
  <2>2. \A v \in Worker : job'[v].stage # "none" <=> index'[v] # 0
    BY <1>1, <1>5 DEF TypeOK, poolVars
  <2>3. QED
    BY <1>1, <1>3, <1>6, <2>1, <2>2 DEF TypeOK, PoolInv, poolVars, bounds
<1>8. PoolOfSession'
  BY <1>1 DEF PoolOfSession, poolVars
<1>9. FilesClaimed'
  <2>1. session <= session
    BY DEF TypeOK, LastSession
  <2>2. QED
    BY <1>1, <1>2, <1>3, <1>4, <2>1 DEF FilesClaimed, poolVars
<1>10. JobRecord'
  <2> SUFFICES ASSUME NEW v \in Worker, job'[v].stage = "md"
               PROVE  \E f \in disk' : f.ext = "json" /\ f.whole /\ f.task = TaskOf(v)'
                                       /\ f.session = session' /\ f.error = job'[v].error
    BY DEF JobRecord
  <2>1. CASE v = w
    BY <1>1, <1>3, <1>4, <1>5, <2>1 DEF TaskOf, poolVars
  <2>2. CASE v # w
    BY <1>1, <1>3, <1>5, <2>2 DEF TaskOf, poolVars, JobRecord
  <2>3. QED
    BY <2>1, <2>2
<1>11. ViewHasRecord'
  BY <1>1, <1>3, <1>4 DEF ViewHasRecord, bounds
<1>12. Views(FALSE)' = Views(FALSE) /\ Views(TRUE)' = Views(TRUE) /\ Settled("value")' = Settled("value")
  BY <1>1, <1>3, <1>4 DEF Views, Settled, poolVars
<1>13. CountersMatch'
  BY <1>1, <1>12, Zenon DEF CountersMatch
<1>14. WaitingUnrecorded'
  <2> SUFFICES ASSUME NEW i \in 1..Len(tasks), i > taskIndex, NEW f \in disk',
                      f.task = tasks[i], f.ext = "json", f.whole
               PROVE  FALSE
    BY <1>1, <1>2 DEF WaitingUnrecorded, HasRecord, poolVars
  <2>1. CASE f \in disk
    BY <1>2, <2>1 DEF WaitingUnrecorded, HasRecord
  <2>2. CASE f = new
    <3>1. tasks[i] = tasks[index[w]]
      BY <1>2, <1>4, <2>2
    <3>2. IsInjective(tasks) /\ DOMAIN tasks = 1..Len(tasks)
      BY DEF PoolOfSession, TypeOK, PoolTypeOK
    <3>3. i \in DOMAIN tasks /\ index[w] \in DOMAIN tasks
      BY <1>2, <3>2
    <3>4. i = index[w]
      BY <3>1, <3>2, <3>3, Zenon DEF IsInjective
    <3>5. QED
      BY <1>2, <3>4
  <2>3. QED
    BY <1>3, <2>1, <2>2
<1>15. LastSessionFiles'
  BY <1>1, <1>3 DEF LastSessionFiles, poolVars, bounds
<1>16. QED
  BY <1>6, <1>7, <1>8, <1>9, <1>10, <1>11, <1>13, <1>14, <1>15

(* Whoever goes round its loop drops the record it relied on, and the other *)
(* workers at their views keep theirs.                                     *)
LEMMA MoveJobRecord ==
  ASSUME BenchmarkInv, PoolInv', NEW w \in Worker, phase = "active", Moves(w), tasks' = tasks,
         StartClaimed, session' = session, \A f \in disk : f.whole => f \in disk'
  PROVE  JobRecord'
<1> USE DEF BenchmarkInv, PoolInv
<1>1. /\ \A v \in Worker \ {w} : index'[v] = index[v] /\ job'[v].stage = job[v].stage
                                 /\ (job[v].stage # "none" => job'[v] = job[v])
      /\ job'[w].stage \in {"none", "infer"} \/ (job'[w] = job[w] /\ index'[w] = index[w])
      /\ index'[w] = 0 \/ (index'[w] = taskIndex + 1)
      /\ job'[w].stage # "none" <=> index'[w] # 0
      /\ taskIndex \in Nat
  BY JobMoves
<1>2. index[w] <= taskIndex
  BY <1>1 DEF HeldTasks, PoolTypeOK
<1>3. job'[w].stage # "md"
  BY <1>1, <1>2
<1>4. \A v \in Worker \ {w} : TaskOf(v)' = TaskOf(v)
  BY <1>1 DEF TaskOf
<1>5. QED
  BY <1>1, <1>3, <1>4 DEF JobRecord

(* The rest of the invariant, for a step in which worker w goes round its   *)
(* loop without touching the disk.                                         *)
LEMMA MoveInv ==
  ASSUME BenchmarkInv, PoolInv', NEW w \in Worker, phase = "active", phase' = "active",
         Moves(w), tasks' = tasks, StartClaimed,
         UNCHANGED <<disk, session, up, selected, completed, failed, crashes, cleans>>,
         faults' \in 0..MaxFaults,
         results' = results \/ (results[index[w]] = "unset" /\ index[w] \in DOMAIN results
                                /\ results' = [results EXCEPT ![index[w]] = "error"])
  PROVE  /\ TypeOK' /\ PoolOfSession' /\ FilesClaimed' /\ JobRecord' /\ ViewHasRecord'
         /\ CountersMatch' /\ WaitingUnrecorded'
<1> USE DEF BenchmarkInv
<1>1. /\ job' \in [Worker -> [stage : {"none", "infer", "json", "md"}, error : BOOLEAN]]
      /\ \A v \in Worker : job'[v].stage # "none" <=> index'[v] # 0
      /\ taskIndex \in Nat /\ taskIndex' \in Nat /\ taskIndex <= taskIndex'
  BY JobMoves DEF PoolInv
<1>2. TypeOK'
  <2>1. /\ PoolTypeOK' /\ disk' \subseteq Artifact /\ session' \in 0..LastSession
        /\ up' \in BOOLEAN /\ selected' \subseteq Task
    BY DEF TypeOK, PoolInv
  <2>2. /\ completed' \in 0..Len(tasks') /\ failed' \in 0..Len(tasks')
        /\ crashes' \in 0..MaxCrashes /\ cleans' \in 0..MaxCleans
    BY DEF TypeOK
  <2> HIDE DEF BenchmarkInv
  <2>3. QED
    BY <1>1, <2>1, <2>2 DEF TypeOK
<1>3. PoolOfSession'
  BY DEF PoolOfSession
<1>4. /\ results \in [1..Len(tasks) -> Outcome] /\ Len(tasks) \in Nat
      /\ \A i \in 1..Len(tasks) : results'[i] = "value" <=> results[i] = "value"
  BY DEF PoolInv, PoolTypeOK
<1>5. FilesClaimed'
  <2> SUFFICES ASSUME NEW f \in disk, f.session = session, up
               PROVE  \E i \in 1..taskIndex' :
                        tasks[i] = f.task /\ (f.ext = "md" /\ f.whole => results'[i] = "value")
    BY DEF FilesClaimed
  <2>1. PICK i \in 1..taskIndex :
          tasks[i] = f.task /\ (f.ext = "md" /\ f.whole => results[i] = "value")
    BY DEF FilesClaimed
  <2>2. i \in 1..taskIndex' /\ i \in 1..Len(tasks)
    BY <1>1, <1>4, <2>1 DEF PoolInv, PoolTypeOK
  <2>3. QED
    BY <1>4, <2>1, <2>2
<1>6. JobRecord'
  BY MoveJobRecord
<1>7. ViewHasRecord'
  BY DEF ViewHasRecord
<1>8. Views(FALSE)' = Views(FALSE) /\ Views(TRUE)' = Views(TRUE) /\ Settled("value")' = Settled("value")
  BY <1>4 DEF Views, Settled
<1>9. CountersMatch'
  BY <1>8, Zenon DEF CountersMatch
<1>10. WaitingUnrecorded'
  BY <1>1 DEF WaitingUnrecorded, HasRecord
<1>11. QED
  BY <1>2, <1>3, <1>5, <1>6, <1>7, <1>9, <1>10

(* A failed read or write costs the session that task, and the operator a   *)
(* session more.                                                           *)
LEMMA FileFaultInv ==
  ASSUME BenchmarkInv, NEW w \in Worker, FileFault(w)
  PROVE  BenchmarkInv'
<1>1. /\ job[w].stage # "none" /\ faults < MaxFaults /\ faults' = faults + 1
      /\ Settle(w, "error", PauseAfterError) /\ StartClaimed
      /\ UNCHANGED <<disk, session, up, selected, completed, failed, crashes, cleans>>
  BY DEF FileFault, Reject
<1> USE DEF BenchmarkInv
<1>2. PoolInv'
  <2>1. PauseAfterError \in Nat
    BY PoolAssumption DEF PauseAfterError
  <2>2. QED
    BY <1>1, <2>1, SettleInv
<1>3. /\ phase = "active" /\ phase' = "active" /\ tasks' = tasks /\ Moves(w)
      /\ results' = [results EXCEPT ![index[w]] = "error"]
  BY <1>1, SettleStep
<1>4. results[index[w]] = "unset" /\ index[w] \in 1..Len(tasks) /\ DOMAIN results = 1..Len(tasks)
  BY <1>1, BusyWorker DEF PoolInv, PoolTypeOK
<1>5. faults' \in 0..MaxFaults
  <2>1. MaxFaults \in Nat /\ faults \in 0..MaxFaults /\ faults < MaxFaults /\ faults' = faults + 1
    BY <1>1, CountsTyped
  <2> HIDE DEF BenchmarkInv
  <2>2. QED
    BY <2>1, CountUp
<1>6. LastSessionFiles'
  <2>1. /\ session \in Int /\ crashes \in Int /\ faults \in Int /\ cleans \in Int
        /\ MaxSessions \in Int
    BY BenchmarkAssumption DEF TypeOK
  <2>2. session <= MaxSessions + crashes + faults + cleans + 1
    BY DEF LastSessionFiles
  <2>3. ~(session' > MaxSessions + crashes' + faults' + cleans')
    BY <1>1, <2>1, <2>2
  <2>4. session' <= MaxSessions + crashes' + faults' + cleans' + 1
    BY <1>1, <2>1, <2>2
  <2>5. QED
    BY <2>3, <2>4 DEF LastSessionFiles
<1>7. QED
  BY <1>1, <1>2, <1>3, <1>4, <1>5, <1>6, MoveInv

(* A worker that wakes claims a task or leaves.                            *)
LEMMA WakeWorkerInv ==
  ASSUME BenchmarkInv, NEW w \in Worker, WakeWorker(w)
  PROVE  BenchmarkInv'
<1>1. /\ Wake(w) /\ StartClaimed
      /\ UNCHANGED <<disk, session, up, selected, completed, failed, crashes, cleans, faults>>
  BY DEF WakeWorker, bounds
<1> USE DEF BenchmarkInv
<1>2. PoolInv'
  BY <1>1, WakeInv
<1>3. phase = "active" /\ phase' = "active" /\ tasks' = tasks /\ Moves(w) /\ results' = results
  BY <1>1, WakeStep
<1>4. faults' \in 0..MaxFaults
  BY <1>1 DEF TypeOK
<1>5. LastSessionFiles'
  BY <1>1, <1>3 DEF LastSessionFiles, IsTaskCompleted, NamedFor
<1>6. QED
  BY <1>1, <1>2, <1>3, <1>4, <1>5, MoveInv

(* The pool returns, and nothing else changes. *)
LEMMA PoolReturnsInv == ASSUME BenchmarkInv, PoolReturns PROVE BenchmarkInv'
<1>1. /\ Return /\ phase = "active" /\ phase' = "returned"
      /\ UNCHANGED <<tasks, taskIndex, pc, index, results>>
      /\ UNCHANGED <<disk, session, up, selected, job, completed, failed, bounds>>
  BY DEF PoolReturns, Return
<1> USE DEF BenchmarkInv
<1>2. PoolInv'
  BY <1>1, ReturnInv
<1>3. TypeOK' /\ PoolOfSession' /\ JobRecord'
  BY <1>1, <1>2 DEF TypeOK, PoolInv, PoolOfSession, JobRecord, TaskOf, bounds
<1>4. FilesClaimed' /\ ViewHasRecord' /\ WaitingUnrecorded'
  BY <1>1 DEF FilesClaimed, ViewHasRecord, WaitingUnrecorded, HasRecord, bounds
<1>5. CountersMatch'
  <2>1. /\ Views(FALSE)' = Views(FALSE) /\ Views(TRUE)' = Views(TRUE)
        /\ Settled("value")' = Settled("value")
    BY <1>1 DEF Views, Settled
  <2>2. QED
    BY <1>1, <2>1, Zenon DEF CountersMatch
<1>6. LastSessionFiles'
  BY <1>1 DEF LastSessionFiles, IsTaskCompleted, NamedFor, bounds
<1>7. QED
  BY <1>2, <1>3, <1>4, <1>5, <1>6

(* When the session ends every task of its list has settled: one that is    *)
(* not filed was rejected, and then the session was disturbed.             *)
LEMMA EndSessionInv == ASSUME BenchmarkInv, EndSession PROVE BenchmarkInv'
<1>1. /\ up /\ phase = "returned" /\ up' = FALSE
      /\ UNCHANGED <<poolVars, disk, session, selected, job, completed, failed, bounds>>
  BY DEF EndSession
<1> USE DEF BenchmarkInv
<1>2. PoolInv'
  BY <1>1, StutterInv
<1>3. TypeOK' /\ PoolOfSession' /\ JobRecord'
  <2>1. UNCHANGED <<tasks, taskIndex, phase, pc, index, results, disk, session, selected, job,
                    completed, failed, crashes, faults, cleans>>
    BY <1>1 DEF poolVars, bounds
  <2>2. up' \in BOOLEAN /\ up' = FALSE /\ phase' # "active"
    BY <1>1, <2>1
  <2>3. TypeOK'
    BY <1>2, <2>1, <2>2 DEF TypeOK, PoolInv
  <2>4. PoolOfSession'
    BY <1>1, <2>1, <2>2 DEF PoolOfSession
  <2>5. JobRecord'
    BY <2>1 DEF JobRecord, TaskOf
  <2>6. QED
    BY <2>3, <2>4, <2>5
<1>4. FilesClaimed' /\ ViewHasRecord' /\ WaitingUnrecorded' /\ CountersMatch'
  BY <1>1 DEF FilesClaimed, ViewHasRecord, WaitingUnrecorded, CountersMatch, bounds, poolVars
<1>5. LastSessionFiles'
  <2>1. \A i \in 1..Len(tasks) : results[i] # "unset"
    BY <1>1, AllLeftAllSettled DEF PoolInv
  <2>2. QED
    BY <1>1, <2>1 DEF LastSessionFiles, IsTaskCompleted, NamedFor, bounds, poolVars
<1>6. QED
  BY <1>2, <1>3, <1>4, <1>5

(* The view is whole: the run is counted, its task resolves and the worker  *)
(* goes round its loop.                                                    *)
LEMMA MdWrittenInv ==
  ASSUME BenchmarkInv, NEW w \in Worker, MdWritten(w)
  PROVE  BenchmarkInv'
<1> DEFINE new == FileOf(w, TRUE)
<1>1. /\ job[w].stage = "md" /\ CompleteFile(w) /\ Settle(w, "value", TaskStartDelay)
      /\ IF job[w].error THEN failed' = failed + 1 /\ completed' = completed
         ELSE completed' = completed + 1 /\ failed' = failed
      /\ StartClaimed
      /\ UNCHANGED <<session, up, selected, bounds>>
  BY DEF MdWritten, Resolve
<1>2. /\ up /\ index[w] \in 1..taskIndex /\ index[w] \in 1..Len(tasks)
      /\ Len(tasks) \in Nat /\ taskIndex <= Len(tasks)
      /\ TaskOf(w) = tasks[index[w]] /\ results[index[w]] = "unset"
  BY <1>1, BusyWorker DEF TaskOf
<1>3. /\ disk' \subseteq Artifact /\ IsFiniteSet(disk')
      /\ \A t : IsTaskCompleted(t) => IsTaskCompleted(t)'
      /\ \A f \in disk : f.whole => f \in disk'
      /\ \A f \in disk' : f \in disk \/ f = new
      /\ new \in disk'
  BY <1>1, CompleteFileStep
<1>4. /\ new.session = session /\ new.task = tasks[index[w]] /\ new.whole = TRUE
      /\ new.ext = "md" /\ new.error = job[w].error
  BY <1>1, <1>2 DEF FileOf
<1> HIDE DEF new
<1> USE DEF BenchmarkInv
<1>5. PoolInv'
  BY <1>1, SettleInv, PoolAssumption
<1>6. /\ phase = "active" /\ phase' = "active" /\ tasks' = tasks /\ Moves(w)
      /\ results' = [results EXCEPT ![index[w]] = "value"]
  BY <1>1, SettleStep
<1>7. /\ job' \in [Worker -> [stage : {"none", "infer", "json", "md"}, error : BOOLEAN]]
      /\ \A v \in Worker : job'[v].stage # "none" <=> index'[v] # 0
      /\ taskIndex \in Nat /\ taskIndex' \in Nat /\ taskIndex <= taskIndex'
  BY <1>1, <1>5, <1>6, JobMoves DEF PoolInv
<1>8. /\ results'[index[w]] = "value"
      /\ \A i \in 1..Len(tasks) : i # index[w] => results'[i] = results[i]
  BY <1>2, <1>6 DEF PoolInv, PoolTypeOK
<1>9. IsInjective(tasks) /\ DOMAIN tasks = 1..Len(tasks)
  BY DEF PoolOfSession, PoolInv, PoolTypeOK
<1>10. new \notin disk
  <2> SUFFICES ASSUME new \in disk PROVE FALSE
    OBVIOUS
  <2>1. PICK i \in 1..taskIndex : tasks[i] = new.task /\ results[i] = "value"
    BY <1>2, <1>4 DEF FilesClaimed
  <2>2. i \in 1..Len(tasks)
    BY <1>2, <1>7, <2>1
  <2>3. i = index[w]
    BY <1>2, <1>4, <1>9, <2>1, <2>2 DEF IsInjective
  <2>4. QED
    BY <1>2, <2>1, <2>3
<1>11. CountersMatch'
  <2>1. job[w].error \in BOOLEAN
    BY DEF TypeOK
  <2>2. Settled("value")' = Settled("value") \cup {index[w]} /\ index[w] \notin Settled("value")
    BY <1>2, <1>6, <1>8 DEF Settled
  <2>3. IsFiniteSet(Settled("value"))
    <3>1. IsFiniteSet(1..Len(tasks)) /\ Settled("value") \subseteq 1..Len(tasks)
      BY <1>2, FS_Interval DEF Settled
    <3>2. QED
      BY <3>1, FS_Subset
  <2>4. IsFiniteSet(Views(FALSE)) /\ IsFiniteSet(Views(TRUE))
    BY FS_Subset DEF Views, FilesClaimed
  <2>5. Cardinality(Settled("value")') = Cardinality(Settled("value")) + 1
    BY <2>2, <2>3, FS_AddElement
  <2>6. completed \in Nat /\ failed \in Nat
    BY <1>2 DEF TypeOK
  <2>7. completed' + failed' = completed + failed + 1
    BY <1>1, <2>1, <2>6
  <2>8. CASE job[w].error
    <3>1. Views(TRUE)' = Views(TRUE) \cup {new} /\ new \notin Views(TRUE) /\ Views(FALSE)' = Views(FALSE)
      BY <1>1, <1>3, <1>4, <1>10, <2>8 DEF Views
    <3>2. Cardinality(Views(TRUE)') = Cardinality(Views(TRUE)) + 1
      BY <2>4, <3>1, FS_AddElement
    <3>3. failed' = failed + 1 /\ completed' = completed
      BY <1>1, <2>8
    <3>4. completed = Cardinality(Views(FALSE)) /\ failed = Cardinality(Views(TRUE))
          /\ completed + failed = Cardinality(Settled("value"))
      BY <1>2, Zenon DEF CountersMatch
    <3>5. QED
      BY <2>5, <2>7, <3>1, <3>2, <3>3, <3>4, Zenon DEF CountersMatch
  <2>9. CASE ~job[w].error
    <3>1. Views(FALSE)' = Views(FALSE) \cup {new} /\ new \notin Views(FALSE) /\ Views(TRUE)' = Views(TRUE)
      BY <1>1, <1>3, <1>4, <1>10, <2>1, <2>9 DEF Views
    <3>2. Cardinality(Views(FALSE)') = Cardinality(Views(FALSE)) + 1
      BY <2>4, <3>1, FS_AddElement
    <3>3. failed' = failed /\ completed' = completed + 1
      BY <1>1, <2>9
    <3>4. completed = Cardinality(Views(FALSE)) /\ failed = Cardinality(Views(TRUE))
          /\ completed + failed = Cardinality(Settled("value"))
      BY <1>2, Zenon DEF CountersMatch
    <3>5. QED
      BY <2>5, <2>7, <3>1, <3>2, <3>3, <3>4, Zenon DEF CountersMatch
  <2>10. QED
    BY <2>8, <2>9
<1>12. completed' \in 0..Len(tasks') /\ failed' \in 0..Len(tasks')
  <2>1. Settled("value")' \subseteq 1..Len(tasks)
    BY <1>6 DEF Settled
  <2>2. IsFiniteSet(1..Len(tasks)) /\ Cardinality(1..Len(tasks)) = Len(tasks)
    <3>1. 1 \in Int /\ Len(tasks) \in Int /\ Len(tasks) >= 1
      BY <1>2
    <3>2. QED
      BY <3>1, FS_Interval
  <2>3. Cardinality(Settled("value")') <= Len(tasks)
    BY <2>1, <2>2, FS_Subset
  <2>4. up'
    BY <1>1, <1>2
  <2>5. completed' + failed' = Cardinality(Settled("value")')
    BY <1>11, <2>4, Zenon DEF CountersMatch
  <2>6. completed' \in Nat /\ failed' \in Nat
    <3>1. completed \in Nat /\ failed \in Nat
      BY <1>2 DEF TypeOK
    <3>2. /\ completed' = completed \/ completed' = completed + 1
          /\ failed' = failed \/ failed' = failed + 1
      BY <1>1
    <3> HIDE DEF BenchmarkInv
    <3>3. QED
      BY <3>1, <3>2
  <2>7. tasks' = tasks /\ Len(tasks) \in Nat
    BY <1>2, <1>6
  <2>8. completed' <= Len(tasks) /\ failed' <= Len(tasks)
    <3> HIDE DEF BenchmarkInv
    <3>1. QED
      BY <2>3, <2>5, <2>6, <2>7
  <2>9. QED
    <3> HIDE DEF BenchmarkInv
    <3>1. QED
      BY <2>6, <2>7, <2>8
<1>13. TypeOK'
  BY <1>1, <1>3, <1>5, <1>7, <1>12 DEF TypeOK, PoolInv, bounds
<1>14. PoolOfSession'
  BY <1>1, <1>6 DEF PoolOfSession
<1>15. FilesClaimed'
  <2>1. \A f \in disk' : f.session <= session
    BY <1>3, <1>4 DEF FilesClaimed, TypeOK, LastSession
  <2>2. ASSUME NEW f \in disk', f.session = session
        PROVE  \E i \in 1..taskIndex' :
                 tasks[i] = f.task /\ (f.ext = "md" /\ f.whole => results'[i] = "value")
    <3>1. CASE f \in disk
      <4>1. PICK i \in 1..taskIndex :
              tasks[i] = f.task /\ (f.ext = "md" /\ f.whole => results[i] = "value")
        BY <1>2, <2>2, <3>1 DEF FilesClaimed
      <4>2. i \in 1..taskIndex' /\ i \in 1..Len(tasks)
        BY <1>2, <1>7, <4>1
      <4>3. QED
        BY <1>8, <4>1, <4>2
    <3>2. CASE f = new
      <4>1. index[w] \in 1..taskIndex'
        BY <1>2, <1>7
      <4>2. QED
        BY <1>4, <1>8, <3>2, <4>1
    <3>3. QED
      BY <1>3, <3>1, <3>2
  <2>3. QED
    BY <1>1, <1>3, <1>6, <2>1, <2>2 DEF FilesClaimed
<1>16. JobRecord'
  BY <1>1, <1>3, <1>5, <1>6, MoveJobRecord
<1>17. ViewHasRecord'
  <2> SUFFICES ASSUME cleans' = 0, NEW v \in disk', v.ext = "md"
               PROVE  \E f \in disk' : f.ext = "json" /\ f.whole /\ f.task = v.task
                                       /\ f.session = v.session /\ f.error = v.error
    BY DEF ViewHasRecord
  <2>1. CASE v \in disk
    BY <1>1, <1>3, <2>1 DEF ViewHasRecord, bounds
  <2>2. CASE v = new
    <3>1. PICK f \in disk : f.ext = "json" /\ f.whole /\ f.task = TaskOf(w) /\ f.session = session
                           /\ f.error = job[w].error
      BY <1>1 DEF JobRecord
    <3>2. QED
      BY <1>2, <1>3, <1>4, <2>2, <3>1
  <2>3. QED
    BY <1>3, <2>1, <2>2
<1>18. WaitingUnrecorded'
  BY <1>1, <1>3, <1>4, <1>6, <1>7 DEF WaitingUnrecorded, HasRecord
<1>19. LastSessionFiles'
  <2> SUFFICES ASSUME NEW t \in Task, session > MaxSessions + crashes + faults + cleans,
                      ~IsTaskCompleted(t)'
               PROVE  \E i \in 1..Len(tasks) : tasks[i] = t /\ results'[i] = "unset"
    BY <1>1, <1>2, <1>6 DEF LastSessionFiles, bounds
  <2>1. ~IsTaskCompleted(t)
    BY <1>3
  <2>2. PICK i \in 1..Len(tasks) : tasks[i] = t /\ results[i] = "unset"
    BY <2>1 DEF LastSessionFiles
  <2>3. IsTaskCompleted(TaskOf(w))
    BY <1>1 DEF JobRecord, IsTaskCompleted, NamedFor
  <2>4. i # index[w]
    BY <1>2, <2>1, <2>2, <2>3
  <2>5. QED
    BY <1>8, <2>2, <2>4
<1>20. QED
  BY <1>5, <1>11, <1>13, <1>14, <1>15, <1>16, <1>17, <1>18, <1>19

(* A crash forgets the session and leaves the files. *)
LEMMA CrashInv == ASSUME BenchmarkInv, Crash PROVE BenchmarkInv'
<1>1. /\ up /\ crashes < MaxCrashes /\ crashes' = crashes + 1 /\ up' = FALSE
      /\ PoolInit' /\ job' = [w \in Worker |-> NoJob] /\ completed' = 0 /\ failed' = 0
      /\ UNCHANGED <<disk, session, selected, faults, cleans>>
  BY DEF Crash, PoolInit
<1> USE DEF BenchmarkInv
<1>2. PoolInv'
  <2>1. PoolInit => PoolInv
    BY InitInv
  <2>2. QED
    BY <1>1, <2>1, InitInv, PTL
<1>3. tasks' = << >> /\ phase' = "idle" /\ \A w \in Worker : index'[w] = 0 /\ job'[w] = NoJob
  BY <1>1 DEF PoolInit
<1>4. TypeOK'
  <2>1. job' \in [Worker -> [stage : {"none", "infer", "json", "md"}, error : BOOLEAN]]
    BY <1>1 DEF NoJob
  <2>2. \A w \in Worker : job'[w].stage # "none" <=> index'[w] # 0
    BY <1>3 DEF NoJob
  <2>3. completed' \in 0..Len(tasks') /\ failed' \in 0..Len(tasks')
    BY <1>1, <1>3
  <2>4. crashes' \in 0..MaxCrashes
    <3>1. MaxCrashes \in Nat /\ crashes \in 0..MaxCrashes /\ crashes < MaxCrashes
          /\ crashes' = crashes + 1
      BY <1>1, CountsTyped
    <3> HIDE DEF BenchmarkInv
    <3>2. QED
      BY <3>1, CountUp
  <2>5. QED
    BY <1>1, <1>2, <2>1, <2>2, <2>3, <2>4 DEF TypeOK, PoolInv
<1>5. PoolOfSession'
  BY <1>1, <1>3 DEF PoolOfSession, IsInjective
<1>6. FilesClaimed' /\ ViewHasRecord' /\ CountersMatch' /\ WaitingUnrecorded'
  BY <1>1 DEF FilesClaimed, ViewHasRecord, CountersMatch, WaitingUnrecorded
<1>7. JobRecord'
  BY <1>3 DEF JobRecord, NoJob
<1>8. LastSessionFiles'
  <2>1. /\ session \in Int /\ crashes \in Int /\ faults \in Int /\ cleans \in Int
        /\ MaxSessions \in Int
    BY BenchmarkAssumption DEF TypeOK
  <2>2. session <= MaxSessions + crashes + faults + cleans + 1
    BY DEF LastSessionFiles
  <2>3. session' <= MaxSessions + crashes' + faults' + cleans'
    BY <1>1, <2>1, <2>2
  <2>4. QED
    BY <1>1, <2>1, <2>3 DEF LastSessionFiles
<1>9. QED
  BY <1>2, <1>4, <1>5, <1>6, <1>7, <1>8

(* Cleaning removes files while no session runs. *)
LEMMA CleanInv == ASSUME BenchmarkInv, Clean PROVE BenchmarkInv'
<1>1. /\ ~up /\ cleans < MaxCleans /\ cleans' = cleans + 1 /\ disk' \subseteq disk
      /\ UNCHANGED <<poolVars, session, up, selected, job, completed, failed, crashes, faults>>
  BY DEF Clean
<1> USE DEF BenchmarkInv
<1>2. PoolInv'
  BY <1>1, StutterInv
<1>3. cleans' \in 0..MaxCleans /\ cleans' # 0
  <2>1. MaxCleans \in Nat /\ cleans \in 0..MaxCleans /\ cleans < MaxCleans /\ cleans' = cleans + 1
    BY <1>1, CountsTyped
  <2> HIDE DEF BenchmarkInv
  <2>2. QED
    BY <2>1, CountUp
<1>4. TypeOK'
  BY <1>1, <1>2, <1>3 DEF TypeOK, PoolInv, poolVars
<1>5. PoolOfSession' /\ CountersMatch' /\ WaitingUnrecorded'
  BY <1>1 DEF PoolOfSession, CountersMatch, WaitingUnrecorded, poolVars
<1>6. FilesClaimed'
  BY <1>1, FS_Subset DEF FilesClaimed
<1>7. JobRecord'
  BY <1>1, BusyWorker DEF JobRecord
<1>8. ViewHasRecord'
  BY <1>3 DEF ViewHasRecord
<1>9. LastSessionFiles'
  <2>1. /\ session \in Int /\ crashes \in Int /\ faults \in Int /\ cleans \in Int
        /\ MaxSessions \in Int
    BY BenchmarkAssumption DEF TypeOK
  <2>2. session <= MaxSessions + crashes + faults + cleans + 1
    BY DEF LastSessionFiles
  <2>3. session' <= MaxSessions + crashes' + faults' + cleans'
    BY <1>1, <2>1, <2>2
  <2>4. QED
    BY <1>1, <2>1, <2>3 DEF LastSessionFiles
<1>10. QED
  BY <1>2, <1>4, <1>5, <1>6, <1>7, <1>8, <1>9

(* A step that changes nothing. *)
LEMMA BenchmarkStutter == ASSUME BenchmarkInv, UNCHANGED vars PROVE BenchmarkInv'
<1>1. UNCHANGED <<poolVars, disk, session, up, selected, job, completed, failed, bounds>>
  BY DEF vars
<1> USE DEF BenchmarkInv
<1>2. PoolInv'
  BY <1>1, StutterInv
<1>3. TypeOK' /\ PoolOfSession' /\ JobRecord'
  BY <1>1, <1>2 DEF TypeOK, PoolInv, PoolOfSession, JobRecord, TaskOf, bounds, poolVars
<1>4. FilesClaimed' /\ ViewHasRecord' /\ WaitingUnrecorded'
  BY <1>1 DEF FilesClaimed, ViewHasRecord, WaitingUnrecorded, HasRecord, bounds, poolVars
<1>5. CountersMatch'
  <2>1. /\ Views(FALSE)' = Views(FALSE) /\ Views(TRUE)' = Views(TRUE)
        /\ Settled("value")' = Settled("value")
    BY <1>1 DEF Views, Settled, poolVars
  <2>2. QED
    BY <1>1, <2>1, Zenon DEF CountersMatch
<1>6. LastSessionFiles'
  BY <1>1 DEF LastSessionFiles, IsTaskCompleted, NamedFor, bounds, poolVars
<1>7. QED
  BY <1>2, <1>3, <1>4, <1>5, <1>6

(* BenchmarkInv is inductive. *)
LEMMA BenchmarkStep == BenchmarkInv /\ [Next]_vars => BenchmarkInv'
<1> SUFFICES ASSUME BenchmarkInv, [Next]_vars PROVE BenchmarkInv'
  OBVIOUS
<1>1. ASSUME NEW targets \in Targets, StartSession(targets) PROVE BenchmarkInv'
  BY <1>1, StartSessionInv
<1>2. ASSUME NEW w \in Worker, WorkerStep(w) PROVE BenchmarkInv'
  <2>1. ASSUME NEW error \in BOOLEAN, InferenceDone(w, error) PROVE BenchmarkInv'
    BY <2>1, InferenceDoneInv
  <2>2. CASE OpenFile(w)
    BY <2>2, OpenFileInv
  <2>3. CASE JsonWritten(w)
    BY <2>3, JsonWrittenInv
  <2>4. CASE MdWritten(w)
    BY <2>4, MdWrittenInv
  <2>5. CASE FileFault(w)
    BY <2>5, FileFaultInv
  <2>6. CASE WakeWorker(w)
    BY <2>6, WakeWorkerInv
  <2>7. QED
    BY <1>2, <2>1, <2>2, <2>3, <2>4, <2>5, <2>6 DEF WorkerStep
<1>3. CASE PoolReturns
  BY <1>3, PoolReturnsInv
<1>4. CASE EndSession
  BY <1>4, EndSessionInv
<1>5. CASE Crash
  BY <1>5, CrashInv
<1>6. CASE Clean
  BY <1>6, CleanInv
<1>7. CASE UNCHANGED vars
  BY <1>7, BenchmarkStutter
<1>8. QED
  BY <1>1, <1>2, <1>3, <1>4, <1>5, <1>6, <1>7 DEF Next

(* The inductive invariant holds throughout: the pool's own invariant, and  *)
(* how its tasks, the files on disk, the counters and the number of         *)
(* sessions hang together.                                                 *)
THEOREM BenchmarkInvariant == Safety => []BenchmarkInv
BY BenchmarkInit, BenchmarkStep, PTL DEF Safety

(* Unless files are removed, every view on disk, torn or whole, has its     *)
(* whole record beside it, whatever crashed or failed.                     *)
THEOREM ViewsHaveRecords == Safety => []ViewHasRecord
<1>1. BenchmarkInv => ViewHasRecord
  BY DEF BenchmarkInv
<1>2. QED
  BY <1>1, BenchmarkInvariant, PTL

(* The totals printed at the end of a session are the numbers of files it   *)
(* filed, and what they leave out was rejected.                            *)
THEOREM TotalsAreRight == Safety => []TotalsMatchDisk
<1>1. ASSUME BenchmarkInv, phase = "returned", up
      PROVE  /\ completed = Cardinality(Views(FALSE))
             /\ failed = Cardinality(Views(TRUE))
             /\ completed + failed + Cardinality(Settled("error")) = Len(tasks)
  <2>1. /\ completed = Cardinality(Views(FALSE)) /\ failed = Cardinality(Views(TRUE))
        /\ completed + failed = Cardinality(Settled("value"))
    BY <1>1, Zenon DEF BenchmarkInv, CountersMatch
  <2>2. \A i \in 1..Len(tasks) : results[i] \in {"value", "error"}
    BY <1>1, AllLeftAllSettled DEF BenchmarkInv, PoolInv, PoolTypeOK, Outcome
  <2>3. Settled("value") \cup Settled("error") = 1..Len(tasks)
        /\ Settled("value") \cap Settled("error") = {}
    BY <2>2 DEF Settled
  <2>4. Len(tasks) \in Nat
    BY <1>1 DEF BenchmarkInv, PoolInv, PoolTypeOK
  <2>5. IsFiniteSet(1..Len(tasks)) /\ Cardinality(1..Len(tasks)) = Len(tasks)
    BY <2>4, UpToFinite, Zenon
  <2>6. IsFiniteSet(Settled("value")) /\ IsFiniteSet(Settled("error"))
    BY <2>3, <2>5, FS_Subset
  <2>7. /\ Cardinality(Settled("value") \cup Settled("error"))
             = Cardinality(Settled("value")) + Cardinality(Settled("error"))
               - Cardinality(Settled("value") \cap Settled("error"))
        /\ Cardinality({}) = 0
    BY <2>6, FS_Union, FS_EmptySet
  <2>8. Cardinality(Settled("value")) \in Nat /\ Cardinality(Settled("error")) \in Nat
    BY <2>6, FS_CardinalityType
  <2>9. Cardinality(Settled("value")) + Cardinality(Settled("error")) = Len(tasks)
    <3>1. /\ Cardinality(Settled("value") \cup Settled("error")) = Len(tasks)
          /\ Cardinality(Settled("value") \cap Settled("error")) = 0
      BY <2>3, <2>5, <2>7, Zenon
    <3>2. QED
      BY <2>7, <2>8, <3>1
  <2>10. completed + failed = Cardinality(Settled("value"))
    BY <2>1, Zenon
  <2>11. completed + failed + Cardinality(Settled("error")) = Len(tasks)
    BY <2>9, <2>10, Zenon
  <2>12. QED
    BY <2>1, <2>11, Zenon
<1>2. BenchmarkInv => TotalsMatchDisk
  BY <1>1, Zenon DEF TotalsMatchDisk
<1>3. QED
  BY <1>2, BenchmarkInvariant, PTL

(* Inference is not paid for twice: no step of any worker goes to the       *)
(* backend with a task that has a whole record.                            *)
THEOREM RunsNotRepeated == Safety => NoRepeatedRun
<1>1. ASSUME BenchmarkInv, BenchmarkInv', [Next]_vars, NEW w \in Worker,
             job[w].stage # "infer", job'[w].stage = "infer"
      PROVE  ~HasRecord(tasks'[index'[w]])
  <2>1. ASSUME NEW v \in Worker, phase = "active", phase' = "active", Moves(v), tasks' = tasks,
               StartClaimed
        PROVE  ~HasRecord(tasks'[index'[w]])
    <3>1. /\ w # v => job'[w].stage = job[w].stage
          /\ w = v => index'[w] = 0 \/ (index'[w] = taskIndex + 1 /\ MoreTasks)
          /\ job'[w].stage # "none" <=> index'[w] # 0
          /\ taskIndex \in Nat
      BY <1>1, <2>1, JobMoves DEF BenchmarkInv, PoolInv
    <3>2. index'[w] = taskIndex + 1 /\ taskIndex + 1 \in 1..Len(tasks)
      BY <1>1, <3>1 DEF MoreTasks, BenchmarkInv, PoolInv, PoolTypeOK
    <3>3. up
      BY <1>1, <2>1 DEF BenchmarkInv, PoolOfSession
    <3>4. QED
      BY <1>1, <2>1, <3>1, <3>2, <3>3 DEF BenchmarkInv, WaitingUnrecorded
  <2>2. ASSUME NEW targets \in Targets, StartSession(targets)
        PROVE  ~HasRecord(tasks'[index'[w]])
    <3>1. PICK pending \in Batches :
            /\ Lists(Matrix, Pending(targets), pending)
            /\ IF pending = << >>
               THEN UNCHANGED <<poolVars, up, job>>
               ELSE up' = TRUE /\ Call(pending) /\ StartClaimed
      BY <2>2 DEF StartSession
    <3>2. tasks' = pending /\ index'[w] # 0
      BY <1>1, <3>1 DEF Call, BenchmarkInv, TypeOK
    <3>3. index'[w] \in DOMAIN pending
      BY <1>1, <3>2, PoolAssumption DEF BenchmarkInv, PoolInv, PoolTypeOK
    <3>4. pending[index'[w]] \in Pending(targets)
      BY <3>1, <3>3 DEF Lists
    <3>5. QED
      BY <3>2, <3>4, RecordedIsCompleted DEF Pending
  <2>3. ASSUME NEW v \in Worker, WorkerStep(v)
        PROVE  ~HasRecord(tasks'[index'[w]])
    <3>1. CASE \E error \in BOOLEAN : InferenceDone(v, error)
      BY <1>1, <3>1 DEF InferenceDone, BenchmarkInv, TypeOK
    <3>2. CASE OpenFile(v)
      BY <1>1, <3>2 DEF OpenFile
    <3>3. CASE JsonWritten(v)
      BY <1>1, <3>3 DEF JsonWritten, BenchmarkInv, TypeOK
    <3>4. CASE MdWritten(v) \/ FileFault(v)
      <4>1. StartClaimed /\ \E outcome, pause : Settle(v, outcome, pause)
        BY <3>4 DEF MdWritten, FileFault, Resolve, Reject
      <4>2. QED
        BY <1>1, <2>1, <4>1, SettleStep DEF BenchmarkInv
    <3>5. CASE WakeWorker(v)
      BY <1>1, <2>1, <3>5, WakeStep DEF WakeWorker, BenchmarkInv
    <3>6. QED
      BY <2>3, <3>1, <3>2, <3>3, <3>4, <3>5 DEF WorkerStep
  <2>4. CASE PoolReturns \/ EndSession \/ Clean \/ UNCHANGED vars
    BY <1>1, <2>4 DEF PoolReturns, EndSession, Clean, vars
  <2>5. CASE Crash
    BY <1>1, <2>5 DEF Crash, NoJob
  <2>6. QED
    BY <1>1, <2>2, <2>3, <2>4, <2>5 DEF Next
<1>2. BenchmarkInv /\ BenchmarkInv' /\ [Next]_vars
      => [\A w \in Worker : job[w].stage # "infer" /\ job'[w].stage = "infer"
                             => ~HasRecord(tasks'[index'[w]])]_vars
  BY <1>1
<1>3. QED
  BY <1>2, BenchmarkInvariant, PTL DEF Safety, NoRepeatedRun

-----------------------------------------------------------------------------
(* Sessions as resumable work.                                             *)

(* Two busy workers are busy with different tasks. *)
LEMMA TasksDiffer ==
  ASSUME BenchmarkInv, NEW v \in Worker, NEW w \in Worker, job[v].stage # "none",
         job[w].stage # "none", TaskOf(v) = TaskOf(w)
  PROVE  v = w
<1>1. index[v] \in 1..Len(tasks) /\ index[w] \in 1..Len(tasks) /\ index[v] # 0
  BY BusyWorker
<1>2. IsInjective(tasks) /\ DOMAIN tasks = 1..Len(tasks)
  BY DEF BenchmarkInv, PoolOfSession, PoolInv, PoolTypeOK
<1>3. tasks[index[v]] = tasks[index[w]]
  BY DEF TaskOf
<1>4. index[v] = index[w]
  BY <1>1, <1>2, <1>3, Zenon DEF IsInjective
<1>5. QED
  BY <1>1, <1>4 DEF BenchmarkInv, PoolInv, NoSharedTask

(* A busy worker's task is none that waits to be claimed. *)
LEMMA BusyNotWaiting ==
  ASSUME BenchmarkInv, NEW w \in Worker, job[w].stage # "none",
         NEW i \in 1..Len(tasks), i > taskIndex
  PROVE  tasks[i] # TaskOf(w)
<1>1. index[w] \in 1..taskIndex /\ index[w] \in 1..Len(tasks) /\ taskIndex \in Nat /\ Len(tasks) \in Nat
  BY BusyWorker
<1>2. i # index[w]
  BY <1>1
<1>3. IsInjective(tasks) /\ DOMAIN tasks = 1..Len(tasks)
  BY DEF BenchmarkInv, PoolOfSession, PoolInv, PoolTypeOK
<1>4. tasks[i] # tasks[index[w]]
  BY <1>1, <1>2, <1>3, Zenon DEF IsInjective
<1>5. QED
  BY <1>4 DEF TaskOf

(* What is on its way has no whole record, and a record is a file. *)
LEMMA WorkedOnNotWhole ==
  ASSUME RecordsClaimed, NEW t
  PROVE  (WorkedOn(t) => ~HasRecord(t)) /\ (HasRecord(t) => HasFile(t))
<1>1. ASSUME WorkedOn(t), HasRecord(t) PROVE FALSE
  <2>1. PICK w \in Worker : job[w].stage \in {"infer", "json"} /\ TaskOf(w) = t
    BY <1>1 DEF WorkedOn
  <2>2. PICK f \in disk : f.task = t /\ f.ext = "json" /\ f.whole
    BY <1>1 DEF HasRecord
  <2>3. f = FileOf(w, FALSE)
    BY <2>1, <2>2 DEF RecordsClaimed
  <2>4. FileOf(w, FALSE).whole = FALSE
    BY DEF FileOf
  <2>5. QED
    BY <2>2, <2>3, <2>4
<1>2. HasRecord(t) => HasFile(t)
  BY DEF HasRecord, HasFile
<1>3. QED
  BY <1>1, <1>2

(* The JSON files stay as they are. *)
SameRecords == {f \in disk' : f.ext = "json"} = {f \in disk : f.ext = "json"}

(* Whoever is on the way to a record was so before, or has a task without   *)
(* a file.                                                                  *)
JobsKept ==
  \A w \in Worker : job'[w].stage \in {"infer", "json"} =>
    \/ /\ job'[w] = job[w] /\ tasks'[index'[w]] = TaskOf(w) /\ session' = session
    \/ ~HasFile(tasks'[index'[w]])

(* Nobody has a file for what waits after the step. *)
WaitingKept ==
  phase' = "active" => \A i \in 1..Len(tasks') : i > taskIndex' => ~HasFile(tasks'[i])

(* With the same JSON files, the same tasks have a file and a record. *)
LEMMA SameFiles ==
  ASSUME SameRecords, NEW t
  PROVE  (HasFile(t)' <=> HasFile(t)) /\ (HasRecord(t)' <=> HasRecord(t))
<1>1. \A f : f \in disk' /\ f.ext = "json" <=> f \in disk /\ f.ext = "json"
  BY DEF SameRecords
<1>2. QED
  BY <1>1 DEF HasFile, HasRecord

(* Such a step keeps the claims. *)
LEMMA ClaimsKept ==
  ASSUME RecordsClaimed, SameRecords, JobsKept, WaitingKept
  PROVE  RecordsClaimed'
<1>1. \A f : f \in disk' /\ f.ext = "json" <=> f \in disk /\ f.ext = "json"
  BY DEF SameRecords
<1>2. \A f, g \in disk' : f.ext = "json" /\ g.ext = "json" /\ f.task = g.task => f = g
  BY <1>1 DEF RecordsClaimed
<1>3. ASSUME NEW w \in Worker, job'[w].stage \in {"infer", "json"},
             NEW f \in disk', f.ext = "json", f.task = TaskOf(w)'
      PROVE  job'[w].stage = "json" /\ f = FileOf(w, FALSE)'
  <2>1. f \in disk /\ TaskOf(w)' = tasks'[index'[w]]
    BY <1>1, <1>3 DEF TaskOf
  <2>2. HasFile(tasks'[index'[w]])
    BY <1>3, <2>1 DEF HasFile
  <2>3. job'[w] = job[w] /\ tasks'[index'[w]] = TaskOf(w) /\ session' = session
    BY <1>3, <2>2 DEF JobsKept
  <2>4. job[w].stage = "json" /\ f = FileOf(w, FALSE)
    BY <1>3, <2>1, <2>3 DEF RecordsClaimed
  <2>5. FileOf(w, FALSE)' = FileOf(w, FALSE)
    BY <2>1, <2>3 DEF FileOf
  <2>6. QED
    BY <2>3, <2>4, <2>5
<1>4. ASSUME phase' = "active", NEW i \in 1..Len(tasks'), i > taskIndex' PROVE ~HasFile(tasks[i])'
  BY <1>1, <1>4 DEF WaitingKept, HasFile
<1>5. QED
  <2>1. (\A w \in Worker : job[w].stage \in {"infer", "json"} =>
           \A f \in disk : f.ext = "json" /\ f.task = TaskOf(w) =>
             job[w].stage = "json" /\ f = FileOf(w, FALSE))'
    BY <1>3
  <2>2. (phase = "active" => \A i \in 1..Len(tasks) : i > taskIndex => ~HasFile(tasks[i]))'
    BY <1>4
  <2>3. QED
    BY <1>2, <2>1, <2>2 DEF RecordsClaimed

(* One task moves as work may, if its files stay as they are and nobody     *)
(* begins with it unless it has none.                                      *)
LEMMA TaskMoves ==
  ASSUME NEW t \in Task, RecordsClaimed, HasFile(t)' <=> HasFile(t), HasRecord(t)' <=> HasRecord(t),
         WorkedOn(t)' => WorkedOn(t) \/ ~HasFile(t)
  PROVE  <<TaskProgress[t], TaskProgress'[t]>> \in Records!Moves
<1>1. (WorkedOn(t) => ~HasRecord(t)) /\ (HasRecord(t) => HasFile(t))
  BY WorkedOnNotWhole
<1>2. /\ TaskProgress[t] = IF WorkedOn(t) THEN IF HasFile(t) THEN "writing" ELSE "busy"
                           ELSE IF HasRecord(t) THEN "whole"
                           ELSE IF HasFile(t) THEN "torn" ELSE "absent"
      /\ TaskProgress'[t] = IF WorkedOn(t)' THEN IF HasFile(t)' THEN "writing" ELSE "busy"
                            ELSE IF HasRecord(t)' THEN "whole"
                            ELSE IF HasFile(t)' THEN "torn" ELSE "absent"
  BY DEF TaskProgress
<1>3. CASE WorkedOn(t) /\ WorkedOn(t)'
  <2>1. TaskProgress'[t] = TaskProgress[t] /\ TaskProgress[t] \in {"writing", "busy"}
    BY <1>2, <1>3
  <2>2. QED
    BY <2>1 DEF Records!Moves, Records!Status
<1>4. CASE WorkedOn(t) /\ ~WorkedOn(t)'
  <2>1. \/ TaskProgress[t] = "writing" /\ TaskProgress'[t] = "torn"
        \/ TaskProgress[t] = "busy" /\ TaskProgress'[t] = "absent"
    BY <1>1, <1>2, <1>4
  <2>2. QED
    BY <2>1 DEF Records!Moves
<1>5. CASE ~WorkedOn(t) /\ WorkedOn(t)'
  <2>1. TaskProgress[t] = "absent" /\ TaskProgress'[t] = "busy"
    BY <1>1, <1>2, <1>5
  <2>2. QED
    BY <2>1 DEF Records!Moves
<1>6. CASE ~WorkedOn(t) /\ ~WorkedOn(t)'
  <2>1. TaskProgress'[t] = TaskProgress[t] /\ TaskProgress[t] \in {"whole", "torn", "absent"}
    BY <1>2, <1>6
  <2>2. QED
    BY <2>1 DEF Records!Moves, Records!Status
<1>7. QED
  BY <1>3, <1>4, <1>5, <1>6

(* Tasks that move as work may are a step of the abstract specification. *)
LEMMA WorkIfMoves ==
  ASSUME \A t \in Task : <<TaskProgress[t], TaskProgress'[t]>> \in Records!Moves
  PROVE  Records!Work
<1>1. TaskProgress' = [t \in Task |-> TaskProgress'[t]]
  BY DEF TaskProgress
<1>2. \A t \in Task : TaskProgress'[t] \in Records!Status
  BY DEF TaskProgress, Records!Status
<1>3. QED
  BY <1>1, <1>2 DEF Records!Work

(* A step that only moves jobs along. *)
LEMMA JobsMove ==
  ASSUME RecordsClaimed, SameRecords, JobsKept, WaitingKept
  PROVE  RecordsClaimed' /\ Records!Work
<1>1. ASSUME NEW t \in Task PROVE <<TaskProgress[t], TaskProgress'[t]>> \in Records!Moves
  <2>1. ASSUME WorkedOn(t)', HasFile(t) PROVE WorkedOn(t)
    <3>1. PICK w \in Worker : job'[w].stage \in {"infer", "json"} /\ tasks'[index'[w]] = t
      BY <2>1 DEF WorkedOn, TaskOf
    <3>2. job'[w] = job[w] /\ TaskOf(w) = t
      BY <2>1, <3>1 DEF JobsKept
    <3>3. QED
      BY <3>1, <3>2 DEF WorkedOn
  <2>2. QED
    BY <2>1, SameFiles, TaskMoves
<1>2. QED
  BY <1>1, ClaimsKept, WorkIfMoves

(* A worker that goes round its loop claims a task without a file. *)
LEMMA LoopKeepsJobs ==
  ASSUME BenchmarkInv, RecordsClaimed, PoolTypeOK', NEW w \in Worker, phase = "active", Moves(w),
         tasks' = tasks, StartClaimed, session' = session
  PROVE  JobsKept /\ WaitingKept
<1>1. /\ \A v \in Worker : job'[v].stage # "none" <=> index'[v] # 0
      /\ \A v \in Worker \ {w} : index'[v] = index[v] /\ job'[v].stage = job[v].stage
                                 /\ (job[v].stage # "none" => job'[v] = job[v])
      /\ index'[w] = 0 \/ (index'[w] = taskIndex + 1 /\ MoreTasks)
      /\ taskIndex \in Nat /\ taskIndex' \in Nat /\ taskIndex <= taskIndex'
  BY JobMoves DEF BenchmarkInv, PoolInv
<1>2. Len(tasks) \in Nat /\ \A i \in 1..Len(tasks) : i > taskIndex => ~HasFile(tasks[i])
  BY DEF BenchmarkInv, PoolInv, PoolTypeOK, RecordsClaimed
<1>3. ASSUME NEW v \in Worker, job'[v].stage \in {"infer", "json"}, v # w
      PROVE  job'[v] = job[v] /\ tasks'[index'[v]] = TaskOf(v)
  BY <1>1, <1>3 DEF TaskOf
<1>4. ASSUME job'[w].stage \in {"infer", "json"} PROVE ~HasFile(tasks'[index'[w]])
  <2>1. index'[w] = taskIndex + 1 /\ taskIndex < Len(tasks)
    BY <1>1, <1>4 DEF MoreTasks
  <2>2. taskIndex + 1 \in 1..Len(tasks) /\ taskIndex + 1 > taskIndex
    BY <1>1, <1>2, <2>1
  <2>3. QED
    BY <1>2, <2>1, <2>2
<1>5. JobsKept
  BY <1>3, <1>4 DEF JobsKept
<1>6. WaitingKept
  <2>1. ASSUME NEW i \in 1..Len(tasks), i > taskIndex' PROVE i > taskIndex
    BY <1>1, <1>2, <2>1
  <2>2. QED
    BY <1>2, <2>1 DEF WaitingKept
<1>7. QED
  BY <1>5, <1>6

(* While no session runs no worker does anything. *)
LEMMA NobodyWorks == ASSUME BenchmarkInv, ~up PROVE \A w \in Worker : job[w].stage = "none"
BY BusyWorker

(* A session begins only tasks without a file. *)
LEMMA StartSessionClaims ==
  ASSUME BenchmarkInv, BenchmarkInv', RecordsClaimed, NEW targets \in Targets, StartSession(targets)
  PROVE  RecordsClaimed' /\ Records!Work
<1>1. ~up /\ disk' = disk
  BY DEF StartSession
<1>2. PICK pending \in Batches :
        /\ Lists(Matrix, Pending(targets), pending)
        /\ IF pending = << >>
           THEN UNCHANGED <<poolVars, up, job>>
           ELSE up' = TRUE /\ Call(pending) /\ StartClaimed
  BY DEF StartSession
<1>3. SameRecords
  BY <1>1 DEF SameRecords
<1>4. CASE pending = << >>
  <2>1. job' = job /\ phase' = phase
    BY <1>2, <1>4 DEF poolVars
  <2>2. \A w \in Worker : job'[w].stage = "none"
    BY <1>1, <2>1, NobodyWorks
  <2>3. phase # "active"
    BY <1>1 DEF BenchmarkInv, PoolOfSession
  <2>4. JobsKept /\ WaitingKept
    BY <2>1, <2>2, <2>3 DEF JobsKept, WaitingKept
  <2>5. QED
    BY <1>3, <2>4, JobsMove
<1>5. CASE pending # << >>
  <2>1. tasks' = pending
    BY <1>2, <1>5 DEF Call
  <2>2. DOMAIN tasks' = 1..Len(tasks') /\ Len(tasks') \in Nat
        /\ \A w \in Worker : index'[w] \in 0..Len(tasks') /\ (job'[w].stage # "none" <=> index'[w] # 0)
    <3>1. PoolTypeOK' /\ TypeOK'
      BY DEF BenchmarkInv, PoolInv
    <3>2. tasks' \in Seq(Task) /\ \A w \in Worker : index'[w] \in 0..Len(tasks')
      BY <3>1 DEF PoolTypeOK
    <3>3. \A w \in Worker : job'[w].stage # "none" <=> index'[w] # 0
      BY <3>1 DEF TypeOK
    <3>4. DOMAIN tasks' = 1..Len(tasks') /\ Len(tasks') \in Nat
      BY <3>2
    <3>5. QED
      BY <3>2, <3>3, <3>4
  <2>3. \A i \in 1..Len(tasks') : ~HasFile(tasks'[i])
    <3>1. ASSUME NEW i \in 1..Len(tasks') PROVE tasks'[i] \in Pending(targets)
      BY <1>2, <2>1, <2>2 DEF Lists
    <3>2. \A t : HasFile(t) => IsTaskCompleted(t)
      BY DEF HasFile, IsTaskCompleted, NamedFor
    <3>3. QED
      BY <3>1, <3>2 DEF Pending
  <2>4. \A w \in Worker : job'[w].stage # "none" => index'[w] \in 1..Len(tasks')
    BY <2>2
  <2>5. JobsKept /\ WaitingKept
    BY <2>3, <2>4 DEF JobsKept, WaitingKept
  <2>6. QED
    BY <1>3, <2>5, JobsMove
<1>6. QED
  BY <1>4, <1>5

(* The backend answers: the task still has no file. *)
LEMMA InferenceDoneClaims ==
  ASSUME BenchmarkInv, RecordsClaimed, NEW w \in Worker, NEW error, InferenceDone(w, error)
  PROVE  RecordsClaimed' /\ Records!Work
<1>1. /\ job[w].stage = "infer" /\ job' = [job EXCEPT ![w] = [stage |-> "json", error |-> error]]
      /\ UNCHANGED <<poolVars, disk, session>>
  BY DEF InferenceDone
<1>2. SameRecords
  BY <1>1 DEF SameRecords
<1>3. ~HasFile(TaskOf(w))
  BY <1>1 DEF RecordsClaimed, HasFile
<1>4. /\ \A v \in Worker \ {w} : job'[v] = job[v]
      /\ \A v \in Worker : tasks'[index'[v]] = TaskOf(v)
  BY <1>1 DEF TaskOf, poolVars, BenchmarkInv, TypeOK
<1>5. JobsKept
  BY <1>1, <1>3, <1>4 DEF JobsKept
<1>6. WaitingKept
  BY <1>1 DEF WaitingKept, RecordsClaimed, poolVars
<1>7. QED
  BY <1>2, <1>5, <1>6, JobsMove

(* A step that leaves jobs, pool and JSON files alone. *)
LEMMA NothingBegins ==
  ASSUME RecordsClaimed, SameRecords, UNCHANGED <<tasks, index, taskIndex, job, session>>,
         phase' = "active" => phase = "active"
  PROVE  RecordsClaimed' /\ Records!Work
<1>1. JobsKept
  BY DEF JobsKept, TaskOf
<1>2. WaitingKept
  BY DEF WaitingKept, RecordsClaimed
<1>3. QED
  BY <1>1, <1>2, JobsMove

(* A file is opened: for a record, the task had none. *)
LEMMA OpenFileClaims ==
  ASSUME BenchmarkInv, RecordsClaimed, NEW w \in Worker, OpenFile(w)
  PROVE  RecordsClaimed' /\ Records!Work
<1> DEFINE new == FileOf(w, FALSE)
<1>1. /\ job[w].stage \in {"json", "md"} /\ new \notin disk /\ disk' = disk \cup {new}
      /\ UNCHANGED <<tasks, index, taskIndex, phase, job, session>>
  BY DEF OpenFile, poolVars
<1>2. new.ext = job[w].stage /\ new.task = TaskOf(w) /\ new.whole = FALSE
  BY DEF FileOf
<1>3. \A v \in Worker : (FileOf(v, FALSE)' = FileOf(v, FALSE)) /\ (TaskOf(v)' = TaskOf(v))
  BY <1>1 DEF FileOf, TaskOf
<1>4. CASE job[w].stage = "md"
  <2> HIDE DEF new
  <2>1. SameRecords
    BY <1>1, <1>2, <1>4 DEF SameRecords
  <2>2. QED
    BY <1>1, <2>1, NothingBegins
<1>5. CASE job[w].stage = "json"
  <2>1. ~HasFile(TaskOf(w))
    BY <1>1, <1>5 DEF RecordsClaimed, HasFile
  <2> HIDE DEF new
  <2>2. \A f, g \in disk' : f.ext = "json" /\ g.ext = "json" /\ f.task = g.task => f = g
    BY <1>1, <1>2, <2>1 DEF RecordsClaimed, HasFile
  <2>3. ASSUME NEW v \in Worker, job'[v].stage \in {"infer", "json"},
               NEW f \in disk', f.ext = "json", f.task = TaskOf(v)'
        PROVE  job'[v].stage = "json" /\ f = FileOf(v, FALSE)'
    <3>1. CASE f \in disk
      <4>1. job[v].stage \in {"infer", "json"} /\ f.ext = "json" /\ f.task = TaskOf(v)
        BY <1>1, <1>3, <2>3
      <4>2. job[v].stage = "json" /\ f = FileOf(v, FALSE)
        BY <3>1, <4>1 DEF RecordsClaimed
      <4>3. QED
        BY <1>1, <1>3, <4>2
    <3>2. CASE f = new
      <4>1. job[v].stage # "none" /\ job[w].stage # "none" /\ TaskOf(v) = TaskOf(w)
        <5>1. TaskOf(v)' = TaskOf(v) /\ job'[v] = job[v]
          BY <1>1, <1>3
        <5>2. TaskOf(v) = TaskOf(w)
          BY <1>2, <2>3, <3>2, <5>1
        <5>3. QED
          BY <1>5, <2>3, <5>1, <5>2
      <4>2. v = w
        BY <4>1, TasksDiffer
      <4>3. QED
        BY <1>1, <1>3, <1>5, <3>2, <4>2 DEF new
    <3>3. QED
      BY <1>1, <2>3, <3>1, <3>2
  <2>4. ASSUME phase' = "active", NEW i \in 1..Len(tasks'), i > taskIndex' PROVE ~HasFile(tasks[i])'
    <3>1. tasks[i] # TaskOf(w) /\ ~HasFile(tasks[i])
      BY <1>1, <1>5, <2>4, BusyNotWaiting DEF RecordsClaimed
    <3>2. QED
      BY <1>1, <1>2, <3>1 DEF HasFile
  <2>5. RecordsClaimed'
    <3>1. (\A v \in Worker : job[v].stage \in {"infer", "json"} =>
             \A f \in disk : f.ext = "json" /\ f.task = TaskOf(v) =>
               job[v].stage = "json" /\ f = FileOf(v, FALSE))'
      BY <2>3
    <3>2. (phase = "active" => \A i \in 1..Len(tasks) : i > taskIndex => ~HasFile(tasks[i]))'
      BY <2>4
    <3>3. QED
      BY <2>2, <3>1, <3>2 DEF RecordsClaimed
  <2>6. ASSUME NEW t \in Task PROVE <<TaskProgress[t], TaskProgress'[t]>> \in Records!Moves
    <3>1. WorkedOn(t)' <=> WorkedOn(t)
      BY <1>1, <1>3 DEF WorkedOn
    <3>2. CASE t = TaskOf(w)
      <4>1. WorkedOn(t) /\ HasFile(t)'
        BY <1>1, <1>2, <1>5, <3>2 DEF WorkedOn, HasFile
      <4>2. TaskProgress[t] = "busy" /\ TaskProgress'[t] = "writing"
        BY <2>1, <3>1, <3>2, <4>1 DEF TaskProgress
      <4>3. QED
        BY <4>2 DEF Records!Moves
    <3>3. CASE t # TaskOf(w)
      <4>1. (HasFile(t)' <=> HasFile(t)) /\ (HasRecord(t)' <=> HasRecord(t))
        BY <1>1, <1>2, <3>3 DEF HasFile, HasRecord
      <4>2. QED
        BY <3>1, <4>1, TaskMoves
    <3>4. QED
      BY <3>2, <3>3
  <2>7. QED
    BY <2>5, <2>6, WorkIfMoves
<1>6. QED
  BY <1>1, <1>4, <1>5

(* The record gets its content, and its worker goes on to the view. *)
LEMMA JsonWrittenClaims ==
  ASSUME BenchmarkInv, RecordsClaimed, NEW w \in Worker, JsonWritten(w)
  PROVE  RecordsClaimed' /\ Records!Work
<1> DEFINE torn == FileOf(w, FALSE)
           new == FileOf(w, TRUE)
<1>1. /\ job[w].stage = "json" /\ torn \in disk /\ disk' = (disk \ {torn}) \cup {new}
      /\ job' = [job EXCEPT ![w].stage = "md"]
      /\ UNCHANGED <<tasks, index, taskIndex, phase, session>>
  BY DEF JsonWritten, CompleteFile, poolVars
<1>2. /\ new.ext = "json" /\ new.task = TaskOf(w) /\ new.whole = TRUE
      /\ torn.ext = "json" /\ torn.task = TaskOf(w) /\ torn.whole = FALSE
  BY <1>1 DEF FileOf
<1>3. job'[w].stage = "md" /\ \A v \in Worker \ {w} : job'[v] = job[v]
  BY <1>1 DEF BenchmarkInv, TypeOK
<1>4. \A v \in Worker : TaskOf(v)' = TaskOf(v)
  BY <1>1 DEF TaskOf
<1>5. \A v \in Worker \ {w} : FileOf(v, FALSE)' = FileOf(v, FALSE)
  BY <1>1, <1>3, <1>4 DEF FileOf
<1>6. \A f \in disk : f.ext = "json" /\ f.task = TaskOf(w) => f = torn
  BY <1>1 DEF RecordsClaimed
<1>7. \A v \in Worker : v # w /\ job[v].stage # "none" => TaskOf(v) # TaskOf(w)
  BY <1>1, TasksDiffer
<1> HIDE DEF torn, new
<1>8. \A f, g \in disk' : f.ext = "json" /\ g.ext = "json" /\ f.task = g.task => f = g
  <2> SUFFICES ASSUME NEW f \in disk', NEW g \in disk', f.ext = "json", g.ext = "json", f.task = g.task
               PROVE  f = g
    OBVIOUS
  <2>1. /\ f = new \/ (f \in disk /\ f # torn)
        /\ g = new \/ (g \in disk /\ g # torn)
    BY <1>1
  <2>2. /\ f = new <=> f.task = TaskOf(w)
        /\ g = new <=> g.task = TaskOf(w)
    BY <1>2, <1>6, <2>1
  <2>3. CASE f = new \/ g = new
    BY <2>2, <2>3
  <2>4. CASE f # new /\ g # new
    BY <2>1, <2>4 DEF RecordsClaimed
  <2>5. QED
    BY <2>3, <2>4
<1>9. ASSUME NEW v \in Worker, job'[v].stage \in {"infer", "json"},
             NEW f \in disk', f.ext = "json", f.task = TaskOf(v)'
      PROVE  job'[v].stage = "json" /\ f = FileOf(v, FALSE)'
  <2>1. v # w /\ job'[v] = job[v] /\ TaskOf(v)' = TaskOf(v)
    BY <1>3, <1>4, <1>9
  <2>2. TaskOf(v) # TaskOf(w)
    BY <1>7, <1>9, <2>1
  <2>3. f \in disk
    BY <1>1, <1>2, <1>9, <2>1, <2>2
  <2>4. job[v].stage = "json" /\ f = FileOf(v, FALSE)
    BY <1>9, <2>1, <2>3 DEF RecordsClaimed
  <2>5. QED
    BY <1>5, <2>1, <2>4
<1>10. ASSUME phase' = "active", NEW i \in 1..Len(tasks'), i > taskIndex' PROVE ~HasFile(tasks[i])'
  <2>1. tasks[i] # TaskOf(w) /\ ~HasFile(tasks[i])
    BY <1>1, <1>10, BusyNotWaiting DEF RecordsClaimed
  <2>2. QED
    BY <1>1, <1>2, <2>1 DEF HasFile
<1>11. RecordsClaimed'
  <2>1. (\A v \in Worker : job[v].stage \in {"infer", "json"} =>
           \A f \in disk : f.ext = "json" /\ f.task = TaskOf(v) =>
             job[v].stage = "json" /\ f = FileOf(v, FALSE))'
    BY <1>9
  <2>2. (phase = "active" => \A i \in 1..Len(tasks) : i > taskIndex => ~HasFile(tasks[i]))'
    BY <1>10
  <2>3. QED
    BY <1>8, <2>1, <2>2 DEF RecordsClaimed
<1>12. ASSUME NEW t \in Task PROVE <<TaskProgress[t], TaskProgress'[t]>> \in Records!Moves
  <2>1. CASE t = TaskOf(w)
    <3>1. WorkedOn(t) /\ HasFile(t)
      BY <1>1, <1>2, <2>1 DEF WorkedOn, HasFile
    <3>2. ~WorkedOn(t)'
      BY <1>3, <1>4, <1>7, <2>1 DEF WorkedOn
    <3>3. HasRecord(t)'
      BY <1>1, <1>2, <2>1 DEF HasRecord
    <3>4. TaskProgress[t] = "writing" /\ TaskProgress'[t] = "whole"
      BY <3>1, <3>2, <3>3 DEF TaskProgress
    <3>5. QED
      BY <3>4 DEF Records!Moves
  <2>2. CASE t # TaskOf(w)
    <3>1. WorkedOn(t)' <=> WorkedOn(t)
      BY <1>3, <1>4, <2>2 DEF WorkedOn
    <3>2. (HasFile(t)' <=> HasFile(t)) /\ (HasRecord(t)' <=> HasRecord(t))
      BY <1>1, <1>2, <2>2 DEF HasFile, HasRecord
    <3>3. QED
      BY <3>1, <3>2, TaskMoves
  <2>3. QED
    BY <2>1, <2>2
<1>13. QED
  BY <1>11, <1>12, WorkIfMoves

(* The view gets its content, and its worker goes round its loop. *)
LEMMA MdWrittenClaims ==
  ASSUME BenchmarkInv, BenchmarkInv', RecordsClaimed, NEW w \in Worker, MdWritten(w)
  PROVE  RecordsClaimed' /\ Records!Work
<1> DEFINE torn == FileOf(w, FALSE)
           new == FileOf(w, TRUE)
<1>1. /\ job[w].stage = "md" /\ disk' = (disk \ {torn}) \cup {new}
      /\ Settle(w, "value", TaskStartDelay) /\ StartClaimed /\ session' = session
  BY DEF MdWritten, CompleteFile, Resolve
<1>2. new.ext = "md" /\ torn.ext = "md"
  BY <1>1 DEF FileOf
<1> HIDE DEF torn, new
<1>3. SameRecords
  BY <1>1, <1>2 DEF SameRecords
<1>4. PoolInv /\ PoolTypeOK'
  BY DEF BenchmarkInv, PoolInv
<1>5. phase = "active" /\ tasks' = tasks /\ Moves(w)
  BY <1>1, <1>4, SettleStep
<1>6. JobsKept /\ WaitingKept
  BY <1>1, <1>4, <1>5, LoopKeepsJobs
<1>7. QED
  BY <1>3, <1>6, JobsMove

(* A worker gives its task up and takes the next one, pauses or leaves. *)
LEMMA FileFaultClaims ==
  ASSUME BenchmarkInv, BenchmarkInv', RecordsClaimed, NEW w \in Worker, FileFault(w)
  PROVE  RecordsClaimed' /\ Records!Work
<1>1. Settle(w, "error", PauseAfterError) /\ StartClaimed /\ disk' = disk /\ session' = session
  BY DEF FileFault, Reject
<1>2. SameRecords
  BY <1>1 DEF SameRecords
<1>3. PoolInv /\ PoolTypeOK'
  BY DEF BenchmarkInv, PoolInv
<1>4. phase = "active" /\ tasks' = tasks /\ Moves(w)
  BY <1>1, <1>3, SettleStep
<1>5. JobsKept /\ WaitingKept
  BY <1>1, <1>3, <1>4, LoopKeepsJobs
<1>6. QED
  BY <1>2, <1>5, JobsMove

(* A worker that wakes claims a task nobody has a record of, or leaves. *)
LEMMA WakeWorkerClaims ==
  ASSUME BenchmarkInv, BenchmarkInv', RecordsClaimed, NEW w \in Worker, WakeWorker(w)
  PROVE  RecordsClaimed' /\ Records!Work
<1>1. Wake(w) /\ StartClaimed /\ disk' = disk /\ session' = session
  BY DEF WakeWorker
<1>2. SameRecords
  BY <1>1 DEF SameRecords
<1>3. PoolInv /\ PoolTypeOK'
  BY DEF BenchmarkInv, PoolInv
<1>4. phase = "active" /\ tasks' = tasks /\ Moves(w)
  BY <1>1, <1>3, WakeStep
<1>5. JobsKept /\ WaitingKept
  BY <1>1, <1>3, <1>4, LoopKeepsJobs
<1>6. QED
  BY <1>2, <1>5, JobsMove

(* The process dies: what was on its way is given up. *)
LEMMA CrashClaims ==
  ASSUME BenchmarkInv, RecordsClaimed, Crash
  PROVE  RecordsClaimed' /\ Records!Work
<1>1. job' = [w \in Worker |-> NoJob] /\ phase' = "idle" /\ disk' = disk
  BY DEF Crash
<1>2. \A w \in Worker : job'[w].stage = "none"
  BY <1>1 DEF NoJob
<1>3. SameRecords /\ JobsKept /\ WaitingKept
  BY <1>1, <1>2 DEF SameRecords, JobsKept, WaitingKept
<1>4. QED
  BY <1>3, JobsMove

(* Cleaning takes files while nobody works: a task has one record at most,  *)
(* so it is left with the one it had or with none.                         *)
LEMMA CleanClears ==
  ASSUME BenchmarkInv, RecordsClaimed, Clean
  PROVE  RecordsClaimed' /\ Records!Clear
<1>1. ~up /\ disk' \subseteq disk /\ UNCHANGED <<tasks, taskIndex, index, phase, job, session>>
  BY DEF Clean, poolVars
<1>2. \A w \in Worker : job[w].stage = "none" /\ job'[w].stage = "none"
  BY <1>1, NobodyWorks
<1>3. RecordsClaimed'
  <2>1. \A f, g \in disk' : f.ext = "json" /\ g.ext = "json" /\ f.task = g.task => f = g
    BY <1>1 DEF RecordsClaimed
  <2>2. (\A v \in Worker : job[v].stage \in {"infer", "json"} =>
           \A f \in disk : f.ext = "json" /\ f.task = TaskOf(v) =>
             job[v].stage = "json" /\ f = FileOf(v, FALSE))'
    BY <1>2
  <2>3. (phase = "active" => \A i \in 1..Len(tasks) : i > taskIndex => ~HasFile(tasks[i]))'
    BY <1>1 DEF RecordsClaimed, HasFile
  <2>4. QED
    BY <2>1, <2>2, <2>3 DEF RecordsClaimed
<1>4. ASSUME NEW t \in Task
      PROVE  /\ TaskProgress[t] \notin {"busy", "writing"}
             /\ TaskProgress'[t] \in {TaskProgress[t], "absent"}
  <2>1. ~WorkedOn(t) /\ ~WorkedOn(t)'
    BY <1>2 DEF WorkedOn
  <2>2. /\ TaskProgress[t] = IF HasRecord(t) THEN "whole" ELSE IF HasFile(t) THEN "torn" ELSE "absent"
        /\ TaskProgress'[t] = IF HasRecord(t)' THEN "whole"
                              ELSE IF HasFile(t)' THEN "torn" ELSE "absent"
    BY <2>1 DEF TaskProgress
  <2>3. HasRecord(t)' => HasRecord(t)
    BY <1>1 DEF HasRecord
  <2>4. HasFile(t)' => HasFile(t)
    BY <1>1 DEF HasFile
  <2>5. HasRecord(t) /\ HasFile(t)' => HasRecord(t)'
    <3>1. ASSUME NEW f \in disk, NEW g \in disk', f.task = t, f.ext = "json", f.whole,
                 g.task = t, g.ext = "json"
          PROVE  f \in disk'
      BY <1>1, <3>1 DEF RecordsClaimed
    <3>2. QED
      BY <3>1 DEF HasRecord, HasFile
  <2>6. QED
    BY <2>2, <2>3, <2>4, <2>5
<1>5. TaskProgress' \in [Task -> Records!Status]
  BY DEF TaskProgress, Records!Status
<1>6. QED
  BY <1>3, <1>4, <1>5 DEF Records!Clear

(* Nobody has claimed anything before the first session. *)
LEMMA ClaimsInit == Init => RecordsClaimed /\ Records!WorkInit
<1> SUFFICES ASSUME Init PROVE RecordsClaimed /\ Records!WorkInit
  OBVIOUS
<1>1. disk = {} /\ phase = "idle" /\ \A w \in Worker : job[w].stage = "none"
  BY DEF Init, PoolInit, NoJob
<1>2. RecordsClaimed
  BY <1>1 DEF RecordsClaimed
<1>3. \A t : ~WorkedOn(t) /\ ~HasRecord(t) /\ ~HasFile(t)
  BY <1>1 DEF WorkedOn, HasRecord, HasFile
<1>4. Records!WorkInit
  BY <1>3 DEF TaskProgress, Records!WorkInit
<1>5. QED
  BY <1>2, <1>4

(* Every step keeps the claims and moves tasks as work may, or clears. *)
LEMMA ClaimsStep ==
  ASSUME BenchmarkInv, BenchmarkInv', RecordsClaimed, [Next]_vars
  PROVE  RecordsClaimed' /\ (Records!Work \/ Records!Clear)
<1>1. ASSUME NEW targets \in Targets, StartSession(targets) PROVE RecordsClaimed' /\ Records!Work
  BY <1>1, StartSessionClaims
<1>2. ASSUME NEW w \in Worker, WorkerStep(w) PROVE RecordsClaimed' /\ Records!Work
  <2>1. ASSUME NEW error \in BOOLEAN, InferenceDone(w, error) PROVE RecordsClaimed' /\ Records!Work
    BY <2>1, InferenceDoneClaims
  <2>2. CASE OpenFile(w)
    BY <2>2, OpenFileClaims
  <2>3. CASE JsonWritten(w)
    BY <2>3, JsonWrittenClaims
  <2>4. CASE MdWritten(w)
    BY <2>4, MdWrittenClaims
  <2>5. CASE FileFault(w)
    BY <2>5, FileFaultClaims
  <2>6. CASE WakeWorker(w)
    BY <2>6, WakeWorkerClaims
  <2>7. QED
    BY <1>2, <2>1, <2>2, <2>3, <2>4, <2>5, <2>6 DEF WorkerStep
<1>3. CASE PoolReturns
  <2>1. /\ UNCHANGED <<tasks, index, taskIndex, job, session, disk>> /\ phase = "active"
    BY <1>3 DEF PoolReturns, Return
  <2>2. QED
    BY <2>1, NothingBegins DEF SameRecords
<1>4. CASE EndSession
  <2>1. UNCHANGED <<tasks, index, taskIndex, job, session, disk, phase>>
    BY <1>4 DEF EndSession, poolVars
  <2>2. QED
    BY <2>1, NothingBegins DEF SameRecords
<1>5. CASE Crash
  BY <1>5, CrashClaims
<1>6. CASE Clean
  BY <1>6, CleanClears
<1>7. CASE UNCHANGED vars
  <2>1. UNCHANGED <<tasks, index, taskIndex, job, session, disk, phase>>
    BY <1>7 DEF vars, poolVars
  <2>2. QED
    BY <2>1, NothingBegins DEF SameRecords
<1>8. QED
  BY <1>1, <1>2, <1>3, <1>4, <1>5, <1>6, <1>7 DEF Next

(* A task has one JSON file at most, the worker on the way to it owns it,   *)
(* and nothing that waits to be claimed has one: the inductive invariant    *)
(* of the runs, with the claims on their records.                          *)
THEOREM ResumeInvariant == Safety => []ResumeInv
<1>1. BenchmarkInv /\ BenchmarkInv' /\ RecordsClaimed /\ [Next]_vars => RecordsClaimed'
  BY ClaimsStep
<1>2. Init => RecordsClaimed
  BY ClaimsInit
<1>3. Safety => []RecordsClaimed
  BY <1>1, <1>2, BenchmarkInvariant, PTL DEF Safety
<1>4. QED
  BY <1>3, BenchmarkInvariant, PTL DEF ResumeInv

(* The command implements the store of resumable work: whatever crashes,    *)
(* fails or is cleaned, a task with a JSON record is left alone until the   *)
(* record is removed, and a record is opened and filled once, by the worker *)
(* that claimed its task.                                                  *)
THEOREM SessionsImplementStore == Safety => ImplementsStore
<1>1. Init => Records!WorkInit
  BY ClaimsInit
<1>2. ResumeInv /\ ResumeInv' /\ [Next]_vars => [Records!Work \/ Records!Clear]_TaskProgress
  BY ClaimsStep DEF ResumeInv
<1>3. QED
  BY <1>1, <1>2, ResumeInvariant, PTL DEF Safety, ImplementsStore, Records!StoreSpec
=============================================================================
