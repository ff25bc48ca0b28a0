-------------------------- MODULE EvaluationProofs --------------------------
(***************************************************************************)
(* Proofs about Evaluation for every set of results and evaluators, every  *)
(* concurrency, delay and saving interval, and any number of runs, failed  *)
(* calls, failed writes and crashes.                                       *)
(***************************************************************************)
EXTENDS Evaluation, WorkerPoolProofs, FiniteSetTheorems

(* The flows of control are the workers and the main flow. *)
LEMMA Flows == Main \notin Worker /\ Flow = Worker \cup {Main} /\ Main \in Flow
BY PoolAssumption DEF Main, Worker, Flow

(* The jobs a flow starts with are well typed. *)
LEMMA JobTypes ==
  /\ NoJob \in Job
  /\ [stage |-> "judge", attempt |-> 1, snapshot |-> {}] \in Job
  /\ [stage |-> "mkdir", attempt |-> 0, snapshot |-> {}] \in Job
  /\ [NoJob EXCEPT !.stage = "summary"] \in Job
<1>1. 0 \in 0..MaxAttempts /\ 1 \in 0..MaxAttempts
  BY EvaluationAssumption
<1>2. QED
  BY <1>1 DEF NoJob, Job, Stage

(* The evaluator of a pass is one of the configured ones. *)
LEMMA EvaluatorTyped == ASSUME turn \in 1..Len(Evaluators) PROVE Evaluator \in ToSet(Evaluators)
<1>1. DOMAIN Evaluators = 1..Len(Evaluators)
  BY EvaluationAssumption
<1>2. QED
  BY <1>1 DEF Evaluator, ToSet

(* The counters are within their bounds, which are numbers. *)
LEMMA BoundsTyped ==
  ASSUME TypeOK
  PROVE  /\ runs \in 0..MaxRuns /\ MaxRuns \in Nat
         /\ judgeFaults \in 0..MaxJudgeFaults /\ MaxJudgeFaults \in Nat
         /\ fileFaults \in 0..MaxFileFaults /\ MaxFileFaults \in Nat
         /\ crashes \in 0..MaxCrashes /\ MaxCrashes \in Nat
BY EvaluationAssumption DEF TypeOK

(* A list has finitely many elements. *)
LEMMA FiniteRange == ASSUME NEW S, NEW ts \in Seq(S) PROVE IsFiniteSet(ToSet(ts))
<1> DEFINE f == [i \in 1..Len(ts) |-> ts[i]]
<1>1. Len(ts) \in Nat /\ DOMAIN ts = 1..Len(ts)
  OBVIOUS
<1>2. f \in Surjection(1..Len(ts), ToSet(ts))
  BY <1>1 DEF Surjection, ToSet
<1>3. IsFiniteSet(1..Len(ts))
  BY <1>1, FS_Interval
<1>4. QED
  BY <1>2, <1>3, FS_Surjection

(* Entries stay backed while no whole evaluation file goes away. *)
LEMMA BackedKept ==
  ASSUME NEW entries, Backed(entries), \A f \in evals : f.whole => f \in evals'
  PROVE  Backed(entries)'
BY DEF Backed

(* What a busy flow implies: a worker has something to do only inside a    *)
(* pass, for a claimed result that has no outcome yet; the main flow only  *)
(* while it closes one.                                                    *)
LEMMA BusyFlow ==
  ASSUME EvaluationInv, NEW w \in Worker, job[w].stage # "none"
  PROVE  /\ mode = "pass" /\ phase = "active" /\ pc[w] = "running"
         /\ taskIndex \in Nat /\ Len(tasks) \in Nat /\ taskIndex <= Len(tasks)
         /\ index[w] \in 1..taskIndex /\ index[w] \in 1..Len(tasks)
         /\ results[index[w]] = "unset" /\ ResultOf(w) \in Result
         /\ ResultOf(w) = tasks[index[w]]
<1> USE DEF EvaluationInv, PoolInv
<1>1. index[w] # 0 /\ index[w] \in 0..Len(tasks) /\ pc[w] = "running"
  BY DEF TypeOK, PoolTypeOK, HeldTasks
<1>2. /\ Len(tasks) \in Nat /\ taskIndex \in Nat /\ taskIndex <= Len(tasks)
      /\ tasks \in Seq(Task)
  BY DEF PoolTypeOK
<1>3. index[w] \in 1..taskIndex /\ index[w] \in 1..Len(tasks) /\ results[index[w]] = "unset"
  BY <1>1, <1>2 DEF HeldTasks
<1>4. phase # "returned" /\ phase # "idle"
  BY <1>1, <1>2, <1>3 DEF PassOfEvaluator
<1>5. mode = "pass" /\ phase = "active"
  BY <1>4 DEF PassOfEvaluator, PoolTypeOK
<1>6. ResultOf(w) = tasks[index[w]] /\ ResultOf(w) \in Result
  BY <1>2, <1>3, EvaluationAssumption DEF ResultOf
<1>7. QED
  BY <1>1, <1>2, <1>3, <1>5, <1>6

(* Outside a pass no worker holds a result. *)
LEMMA IdleWorkers ==
  ASSUME EvaluationInv, mode # "pass", NEW w \in Worker
  PROVE  index[w] = 0 /\ job[w].stage = "none"
BY BusyFlow DEF EvaluationInv, TypeOK

(* Before the first run there is nothing. *)
LEMMA EvaluationInit == Init => EvaluationInv
<1> SUFFICES ASSUME Init PROVE EvaluationInv
  OBVIOUS
<1> USE EvaluationAssumption DEF Init
<1>1. PoolInv
  BY InitInv
<1>2. tasks = << >> /\ phase = "idle" /\ \A w \in Worker : index[w] = 0
  BY DEF PoolInit
<1>3. \A w \in Flow : job[w] = NoJob
  OBVIOUS
<1>4. Worker \subseteq Flow /\ Main \in Flow
  BY Flows
<1>5. TypeOK
  <2>1. job \in [Flow -> Job]
    BY JobTypes
  <2>2. \A w \in Worker : job[w].stage # "none" <=> index[w] # 0
    BY <1>2, <1>3, <1>4 DEF NoJob
  <2>3. Counted \in 0..Len(tasks)
    <3>1. Cardinality({}) = 0
      BY FS_EmptySet
    <3>2. QED
      BY <1>2, <3>1 DEF Counted
  <2>4. turn \in 1..Len(Evaluators)
    OBVIOUS
  <2>5. PoolTypeOK
    BY <1>1 DEF PoolInv
  <2>6. /\ evals \subseteq [result : Result, evaluator : ToSet(Evaluators), whole : BOOLEAN]
        /\ file \in [kind : {"none", "empty", "ok", "mixed"}, entries : SUBSET Entry]
        /\ progress \subseteq Entry
        /\ summary \subseteq [result : Result, evaluator : ToSet(Evaluators)]
    OBVIOUS
  <2>7. mode \in {"down", "between", "pass", "closing"} /\ judged \subseteq ToSet(tasks) /\ failed \in Nat
    OBVIOUS
  <2>8. /\ runs \in 0..MaxRuns /\ judgeFaults \in 0..MaxJudgeFaults
        /\ fileFaults \in 0..MaxFileFaults /\ crashes \in 0..MaxCrashes
    OBVIOUS
  <2> HIDE EvaluationAssumption DEF Init
  <2>9. QED
    BY <2>1, <2>2, <2>3, <2>4, <2>5, <2>6, <2>7, <2>8 DEF TypeOK
<1>6. PassOfEvaluator
  BY <1>2, <1>3, <1>4 DEF PassOfEvaluator, IsInjective, NoJob
<1>7. EntriesBacked
  BY <1>3 DEF EntriesBacked, Backed, NoJob
<1>8. CountedOnce /\ JudgedFiled /\ ClosingSaved
  BY DEF CountedOnce, JudgedFiled, ClosingSaved, InPass
<1>9. QED
  BY <1>1, <1>5, <1>6, <1>7, <1>8 DEF EvaluationInv

(* The operator starts the command. *)
LEMMA StartRunInv == ASSUME EvaluationInv, StartRun PROVE EvaluationInv'
<1>1. /\ mode = "down" /\ mode' = "between" /\ turn' = 1
      /\ runs' = (IF runs < MaxRuns THEN runs + 1 ELSE runs)
      /\ UNCHANGED <<poolVars, evals, file, summary, progress, job, counters,
                     judgeFaults, fileFaults, crashes>>
  BY DEF StartRun
<1> USE DEF EvaluationInv
<1>2. PoolInv'
  BY <1>1, StutterInv
<1>3. TypeOK'
  <2>1. turn' \in 1..Len(Evaluators)
    BY <1>1, EvaluationAssumption
  <2>2. runs' \in 0..MaxRuns
    <3>1. runs \in 0..MaxRuns /\ MaxRuns \in Nat
      BY BoundsTyped
    <3>2. runs' = runs \/ (runs < MaxRuns /\ runs' = runs + 1)
      BY <1>1
    <3> HIDE DEF EvaluationInv
    <3>3. QED
      BY <3>1, <3>2
  <2>3. Counted' = Counted
    BY <1>1 DEF Counted, counters
  <2>4. QED
    BY <1>1, <1>2, <2>1, <2>2, <2>3 DEF TypeOK, PoolInv, poolVars, counters
<1>4. PassOfEvaluator'
  BY <1>1 DEF PassOfEvaluator, poolVars
<1>5. EntriesBacked'
  BY <1>1 DEF EntriesBacked, Backed
<1>6. CountedOnce' /\ JudgedFiled' /\ ClosingSaved'
  BY <1>1 DEF CountedOnce, JudgedFiled, ClosingSaved, InPass
<1>7. QED
  BY <1>2, <1>3, <1>4, <1>5, <1>6

(* The process ends, by a crash or by an error of the main flow. *)
LEMMA ProcessEndsInv ==
  ASSUME EvaluationInv, ProcessEnds, UNCHANGED <<evals, file, summary>>,
         runs' \in 0..MaxRuns, judgeFaults' \in 0..MaxJudgeFaults,
         fileFaults' \in 0..MaxFileFaults, crashes' \in 0..MaxCrashes
  PROVE  EvaluationInv'
<1>1. /\ mode' = "down" /\ turn' = 1 /\ PoolInit' /\ job' = [w \in Flow |-> NoJob]
      /\ progress' = {} /\ judged' = {} /\ failed' = 0
  BY DEF ProcessEnds, PoolInit
<1> USE DEF EvaluationInv
<1>2. PoolInv'
  BY <1>1, InitInv, PTL
<1>3. /\ tasks' = << >> /\ phase' = "idle" /\ \A w \in Worker : index'[w] = 0
      /\ \A w \in Flow : job'[w] = NoJob
      /\ Worker \subseteq Flow /\ Main \in Flow
  BY <1>1, Flows DEF PoolInit
<1>4. TypeOK'
  <2>1. job' \in [Flow -> Job]
    BY <1>1, JobTypes
  <2>2. \A w \in Worker : job'[w].stage # "none" <=> index'[w] # 0
    BY <1>3 DEF NoJob
  <2>3. Counted' \in 0..Len(tasks')
    <3>1. Cardinality({}) = 0
      BY FS_EmptySet
    <3>2. QED
      BY <1>1, <1>3, <3>1 DEF Counted
  <2>4. turn' \in 1..Len(Evaluators)
    BY <1>1, EvaluationAssumption
  <2>5. PoolTypeOK'
    BY <1>2 DEF PoolInv
  <2>6. /\ mode' \in {"down", "between", "pass", "closing"}
        /\ progress' \subseteq Entry /\ judged' \subseteq ToSet(tasks') /\ failed' \in Nat
    BY <1>1
  <2>7. QED
    BY <2>1, <2>2, <2>3, <2>4, <2>5, <2>6 DEF TypeOK
<1>5. PassOfEvaluator'
  <2>1. IsInjective(tasks')
    BY <1>3 DEF IsInjective
  <2>2. \A w \in Flow : job'[w].stage = "none"
    BY <1>3 DEF NoJob
  <2>3. mode' = "down" /\ phase' = "idle" /\ tasks' = << >>
    BY <1>1, <1>3
  <2>4. QED
    BY <1>3, <2>1, <2>2, <2>3 DEF PassOfEvaluator
<1>6. EntriesBacked'
  BY <1>1, <1>3 DEF EntriesBacked, Backed, NoJob
<1>7. CountedOnce' /\ JudgedFiled' /\ ClosingSaved'
  BY <1>1 DEF CountedOnce, JudgedFiled, ClosingSaved, InPass
<1>8. QED
  BY <1>2, <1>4, <1>5, <1>6, <1>7

(* A crash may come at any point. *)
LEMMA CrashInv == ASSUME EvaluationInv, Crash PROVE EvaluationInv'
<1>1. crashes' \in 0..MaxCrashes
  <2>1. crashes \in 0..MaxCrashes /\ MaxCrashes \in Nat
    BY BoundsTyped DEF EvaluationInv
  <2>2. crashes < MaxCrashes /\ crashes' = crashes + 1
    BY DEF Crash
  <2>3. QED
    BY <2>1, <2>2
<1>2. QED
  BY <1>1, ProcessEndsInv DEF Crash, EvaluationInv, TypeOK

(* The turn passes to the next evaluator, or the command is done. *)
LEMMA NextTurnStep ==
  ASSUME NextTurn, turn \in 1..Len(Evaluators)
  PROVE  turn' \in 1..Len(Evaluators) /\ mode' \in {"between", "down"}
<1>1. Len(Evaluators) \in Nat /\ Len(Evaluators) > 0
  BY EvaluationAssumption
<1>2. CASE turn < Len(Evaluators)
  BY <1>1, <1>2 DEF NextTurn
<1>3. CASE ~(turn < Len(Evaluators))
  BY <1>1, <1>3 DEF NextTurn
<1>4. QED
  BY <1>2, <1>3

(* A step that ends or skips a pass once the workers are done. *)
LEMMA TurnInv ==
  ASSUME EvaluationInv, NextTurn, mode # "pass", UNCHANGED <<poolVars, counters, bounds>>,
         \A f \in evals : f.whole => f \in evals',
         evals' \subseteq [result : Result, evaluator : ToSet(Evaluators), whole : BOOLEAN],
         file' \in [kind : {"none", "empty", "ok", "mixed"}, entries : SUBSET Entry],
         summary' \subseteq [result : Result, evaluator : ToSet(Evaluators)],
         progress' \subseteq Entry, Backed(file'.entries), Backed(progress'),
         job' = [job EXCEPT ![Main] = NoJob] \/ (job' = job /\ job[Main].stage = "none")
  PROVE  EvaluationInv'
<1> USE DEF EvaluationInv
<1>1. turn' \in 1..Len(Evaluators) /\ mode' \in {"between", "down"}
  BY NextTurnStep DEF TypeOK
<1>2. UNCHANGED <<poolVars, judged, failed, bounds>>
  BY DEF counters
<1>3. PoolInv'
  BY <1>2, StutterInv
<1>4. /\ job' \in [Flow -> Job] /\ job'[Main].stage = "none"
      /\ \A w \in Worker : job'[w] = job[w]
      /\ \A w \in Flow : job'[w] = NoJob \/ job'[w] = job[w]
  <2>1. job \in [Flow -> Job] /\ NoJob \in Job /\ NoJob.stage = "none"
    BY JobTypes DEF TypeOK, NoJob
  <2>2. Main \notin Worker /\ Main \in Flow /\ Worker \subseteq Flow
    BY Flows
  <2> HIDE DEF EvaluationInv
  <2>3. CASE job' = [job EXCEPT ![Main] = NoJob]
    BY <2>1, <2>2, <2>3
  <2>4. CASE job' = job /\ job[Main].stage = "none"
    BY <2>1, <2>2, <2>4
  <2>5. QED
    BY <2>3, <2>4
<1>5. TypeOK'
  <2>1. Counted' = Counted
    BY <1>2 DEF Counted
  <2>2. PoolTypeOK'
    BY <1>3 DEF PoolInv
  <2>3. /\ tasks' = tasks /\ index' = index /\ judged' = judged /\ failed' = failed
        /\ runs' = runs /\ judgeFaults' = judgeFaults /\ fileFaults' = fileFaults
        /\ crashes' = crashes
    BY <1>2 DEF poolVars, bounds
  <2>4. \A w \in Worker : job'[w].stage # "none" <=> index'[w] # 0
    BY <1>4, <2>3 DEF TypeOK
  <2>5. /\ judged' \subseteq ToSet(tasks') /\ failed' \in Nat /\ Counted' \in 0..Len(tasks')
        /\ runs' \in 0..MaxRuns /\ judgeFaults' \in 0..MaxJudgeFaults
        /\ fileFaults' \in 0..MaxFileFaults /\ crashes' \in 0..MaxCrashes
    BY <2>1, <2>3 DEF TypeOK
  <2>6. mode' \in {"down", "between", "pass", "closing"}
    BY <1>1
  <2> HIDE DEF EvaluationInv
  <2>7. QED
    BY <1>1, <1>4, <2>2, <2>4, <2>5, <2>6 DEF TypeOK
<1>6. PassOfEvaluator'
  <2>1. phase # "active" /\ (phase = "idle" => tasks = << >>) /\ IsInjective(tasks)
        /\ \A w \in Worker : job[w].stage # "summary"
    BY DEF PassOfEvaluator
  <2>2. phase' = phase /\ tasks' = tasks
    BY <1>2 DEF poolVars
  <2>3. \A w \in Worker : job'[w].stage # "summary"
    BY <1>4, <2>1
  <2> HIDE DEF EvaluationInv
  <2>4. QED
    BY <1>1, <1>4, <2>1, <2>2, <2>3 DEF PassOfEvaluator
<1>7. EntriesBacked'
  <2> DEFINE whole(e) == [result |-> e.result, evaluator |-> e.evaluator, whole |-> TRUE]
  <2>1. \A e : whole(e) \in evals => whole(e) \in evals'
    OBVIOUS
  <2> HIDE DEF whole
  <2>2. \A e \in file'.entries \cup progress' : e.ok => whole(e) \in evals'
    BY <2>1 DEF Backed, whole
  <2>3. \A w \in Flow : \A e \in job[w].snapshot : e.ok => whole(e) \in evals'
    BY <2>1 DEF EntriesBacked, Backed, whole
  <2>4. \A w \in Flow : \A e \in job'[w].snapshot : e.ok => whole(e) \in evals'
    BY <1>4, <2>3 DEF NoJob
  <2>5. QED
    BY <2>2, <2>4 DEF EntriesBacked, Backed, whole
<1>8. CountedOnce' /\ JudgedFiled' /\ ClosingSaved'
  BY <1>1 DEF CountedOnce, JudgedFiled, ClosingSaved, InPass
<1>9. QED
  BY <1>3, <1>5, <1>6, <1>7, <1>8

(* What the progress file gives back is backed. *)
LEMMA LoadedBacked ==
  ASSUME EvaluationInv
  PROVE  LoadedProgress \subseteq Entry /\ Backed(LoadedProgress)
BY DEF EvaluationInv, TypeOK, EntriesBacked, LoadedProgress, Backed

(* A pass begins with the results that have no file by the evaluator, and   *)
(* with nothing counted.                                                   *)
LEMMA BeginPassInv == ASSUME EvaluationInv, BeginPass PROVE EvaluationInv'
<1> USE DEF EvaluationInv
<1>1. /\ mode = "between" /\ progress' = LoadedProgress
      /\ UNCHANGED <<evals, file, summary, bounds>>
  BY DEF BeginPass
<1>2. PICK pending \in Batches :
        /\ Lists(ResultOrder, Pending, pending)
        /\ IF pending = << >>
           THEN NextTurn /\ UNCHANGED <<poolVars, job, counters>>
           ELSE /\ mode' = "pass" /\ judged' = {} /\ failed' = 0
                /\ Call(pending)
                /\ job' = [w \in Flow |-> IF w = Main \/ index'[w] = 0 THEN NoJob
                                          ELSE [stage |-> "judge", attempt |-> 1, snapshot |-> {}]]
                /\ UNCHANGED turn
  BY DEF BeginPass
<1>3. LoadedProgress \subseteq Entry /\ Backed(LoadedProgress)
  BY LoadedBacked
<1>4. CASE pending = << >>
  <2>1. NextTurn /\ UNCHANGED <<poolVars, job, counters>> /\ job[Main].stage = "none"
    BY <1>1, <1>2, <1>4 DEF PassOfEvaluator
  <2>2. Backed(file'.entries) /\ Backed(progress')
    BY <1>1, <1>3 DEF EntriesBacked
  <2>3. QED
    BY <1>1, <1>3, <2>1, <2>2, TurnInv DEF TypeOK
<1>5. CASE pending # << >>
  <2>1. /\ mode' = "pass" /\ judged' = {} /\ failed' = 0 /\ Call(pending) /\ turn' = turn
        /\ job' = [w \in Flow |-> IF w = Main \/ index'[w] = 0 THEN NoJob
                                  ELSE [stage |-> "judge", attempt |-> 1, snapshot |-> {}]]
    BY <1>2, <1>5
  <2>2. PoolInv'
    BY <2>1, CallInv
  <2>3. /\ tasks' = pending /\ phase' = "active"
        /\ results' = [i \in 1..Len(pending) |-> "unset"]
    BY <2>1 DEF Call
  <2>4. pending \in Seq(Task) /\ IsInjective(pending) /\ Len(pending) \in Nat
        /\ \A i \in 1..Len(pending) : pending[i] \in Pending
    <3>1. pending \in Seq(Task)
      BY PoolAssumption
    <3>2. IsInjective(pending)
      BY <1>2, <3>1, ListsInjective, EvaluationAssumption
    <3>3. QED
      BY <1>2, <3>1, <3>2 DEF Lists
  <2>5. /\ job' \in [Flow -> Job] /\ job'[Main].stage = "none"
        /\ \A w \in Worker : job'[w].stage = IF index'[w] = 0 THEN "none" ELSE "judge"
        /\ \A w \in Flow : job'[w].snapshot = {}
    BY <2>1, Flows, JobTypes DEF NoJob
  <2>6. Cardinality({}) = 0 /\ Counted' = 0
    BY <2>1, FS_EmptySet DEF Counted
  <2>7. TypeOK'
    <3>1. \A w \in Worker : job'[w].stage # "none" <=> index'[w] # 0
      BY <2>5
    <3>2. PoolTypeOK'
      BY <2>2 DEF PoolInv
    <3>3. Counted' \in 0..Len(tasks')
      BY <2>3, <2>4, <2>6
    <3>4. /\ mode' = "pass" /\ progress' \subseteq Entry /\ judged' = {} /\ failed' \in Nat
          /\ UNCHANGED <<turn, evals, file, summary, runs, judgeFaults, fileFaults, crashes>>
      BY <1>1, <1>3, <2>1 DEF bounds
    <3>5. QED
      BY <2>5, <3>1, <3>2, <3>3, <3>4 DEF TypeOK
  <2>8. PassOfEvaluator'
    <3>1. mode' = "pass" /\ phase' = "active"
      BY <2>1, <2>3
    <3>2. tasks' = pending /\ IsInjective(tasks')
      BY <2>3, <2>4
    <3>3. \A w \in Worker : job'[w].stage # "summary"
      BY <2>5
    <3>4. job'[Main].stage = "none"
      BY <2>5
    <3>5. QED
      BY <3>1, <3>2, <3>3, <3>4 DEF PassOfEvaluator
  <2>9. EntriesBacked'
    BY <1>1, <1>3, <2>5 DEF EntriesBacked, Backed
  <2>10. CountedOnce'
    <3>1. Done' = {}
      <4> SUFFICES ASSUME NEW i \in 1..taskIndex'
                   PROVE  \E w \in Worker : index'[w] = i /\ job'[w].stage = "judge"
        BY DEF Done
      <4>1. i \in 1..Len(tasks') /\ i # 0 /\ i <= taskIndex'
        BY <2>2, <2>3, <2>4 DEF PoolInv, PoolTypeOK
      <4>2. results'[i] = "unset"
        BY <2>3, <4>1
      <4>3. PICK w \in Worker : index'[w] = i
        BY <2>2, <4>1, <4>2 DEF PoolInv, NoTaskDropped
      <4>4. QED
        BY <2>5, <4>1, <4>3
    <3>2. QED
      BY <2>1, <2>5, <2>6, <3>1 DEF CountedOnce
  <2>11. JudgedFiled'
    <3>1. \A i \in 1..Len(pending) : ~Filed(pending[i])'
      <4>1. \A i \in 1..Len(pending) : ~Filed(pending[i])
        BY <2>4 DEF Pending, IsEvaluationCompleted, Filed
      <4>2. QED
        BY <1>1, <2>1, <4>1 DEF Filed, Evaluator
    <3>2. QED
      BY <2>3, <2>5, <3>1 DEF JudgedFiled, Filed
  <2>12. ClosingSaved'
    BY <2>1 DEF ClosingSaved
  <2>13. QED
    BY <2>2, <2>7, <2>8, <2>9, <2>10, <2>11, <2>12
<1>6. QED
  BY <1>4, <1>5

(* The summary is written and the turn passes on. *)
LEMMA SummaryWrittenInv == ASSUME EvaluationInv, SummaryWritten PROVE EvaluationInv'
<1> USE DEF EvaluationInv
<1>1. /\ job[Main].stage = "summary"
      /\ summary' = {[result |-> r, evaluator |-> Evaluator] : r \in judged}
      /\ job' = [job EXCEPT ![Main] = NoJob] /\ NextTurn
      /\ UNCHANGED <<poolVars, evals, file, progress, counters, bounds>>
  BY DEF SummaryWritten
<1>2. mode # "pass"
  BY <1>1 DEF PassOfEvaluator
<1>3. summary' \subseteq [result : Result, evaluator : ToSet(Evaluators)]
  <2>1. Evaluator \in ToSet(Evaluators)
    BY EvaluatorTyped DEF TypeOK
  <2>2. judged \subseteq Result
    <3>1. judged \subseteq ToSet(tasks) /\ tasks \in Seq(Result)
      BY EvaluationAssumption DEF TypeOK, PoolTypeOK
    <3>2. ToSet(tasks) \subseteq Result
      BY <3>1 DEF ToSet
    <3>3. QED
      BY <3>1, <3>2
  <2>3. QED
    BY <1>1, <2>1, <2>2
<1>4. Backed(file'.entries) /\ Backed(progress')
  BY <1>1 DEF EntriesBacked
<1>5. QED
  BY <1>1, <1>2, <1>3, <1>4, TurnInv DEF TypeOK

(* The pool returns. *)
LEMMA PoolReturnsInv == ASSUME EvaluationInv, PoolReturns PROVE EvaluationInv'
<1>1. /\ Return /\ phase = "active" /\ phase' = "returned"
      /\ UNCHANGED <<tasks, taskIndex, pc, index, results>>
      /\ UNCHANGED <<mode, turn, evals, file, summary, progress, job, judged, failed, bounds>>
  BY DEF PoolReturns, Return, counters
<1> USE DEF EvaluationInv
<1>2. PoolInv'
  BY <1>1, ReturnInv
<1>3. Counted' = Counted /\ Evaluator' = Evaluator
  BY <1>1 DEF Counted, Evaluator
<1>4. TypeOK'
  BY <1>1, <1>2, <1>3 DEF TypeOK, PoolInv, bounds
<1>5. PassOfEvaluator' /\ EntriesBacked' /\ ClosingSaved'
  BY <1>1 DEF PassOfEvaluator, EntriesBacked, Backed, ClosingSaved
<1>6. CountedOnce'
  BY <1>1, <1>3 DEF CountedOnce, Done, ResultOf, InPass
<1>7. JudgedFiled'
  BY <1>1, <1>3 DEF JudgedFiled, Recorded, Entered, Filed, ResultOf, InPass
<1>8. QED
  BY <1>2, <1>4, <1>5, <1>6, <1>7

(* The main flow starts the save that closes the pass. *)
LEMMA ClosePassInv == ASSUME EvaluationInv, ClosePass PROVE EvaluationInv'
<1>1. /\ mode = "pass" /\ phase = "returned" /\ mode' = "closing"
      /\ job' = [job EXCEPT ![Main] = [stage |-> "mkdir", attempt |-> 0, snapshot |-> {}]]
      /\ UNCHANGED <<poolVars, turn, evals, file, summary, progress, judged, failed, bounds>>
  BY DEF ClosePass, counters
<1> USE DEF EvaluationInv
<1>2. PoolInv'
  BY <1>1, StutterInv
<1>3. Counted' = Counted /\ Evaluator' = Evaluator
  BY <1>1 DEF Counted, Evaluator
<1>4. /\ job' \in [Flow -> Job] /\ job'[Main] = [stage |-> "mkdir", attempt |-> 0, snapshot |-> {}]
      /\ \A w \in Worker : job'[w] = job[w]
      /\ \A w \in Flow : job'[w] = job[w] \/ job'[w].snapshot = {}
  <2>1. job \in [Flow -> Job]
    BY DEF TypeOK
  <2>2. QED
    BY <1>1, <2>1, Flows, JobTypes
<1>5. TypeOK'
  BY <1>1, <1>2, <1>3, <1>4 DEF TypeOK, PoolInv, poolVars, bounds
<1>6. PassOfEvaluator' /\ ClosingSaved'
  BY <1>1, <1>4 DEF PassOfEvaluator, ClosingSaved, poolVars
<1>7. EntriesBacked'
  BY <1>1, <1>4 DEF EntriesBacked, Backed
<1>8. CountedOnce'
  <2>1. Done' = Done
    BY <1>1, <1>4 DEF Done, poolVars
  <2>2. QED
    BY <1>1, <1>3, <1>4, <2>1 DEF CountedOnce, ResultOf, InPass, poolVars
<1>9. JudgedFiled'
  BY <1>1, <1>3, <1>4 DEF JudgedFiled, Recorded, Entered, Filed, ResultOf, InPass, poolVars
<1>10. QED
  BY <1>2, <1>5, <1>6, <1>7, <1>8, <1>9

(* Where a save of the progress can be: a worker's in its pass, the main    *)
(* flow's while it closes the pass.                                        *)
LEMMA SavingFlow ==
  ASSUME EvaluationInv, NEW w \in Flow, job[w].stage \in {"mkdir", "truncate", "overwrite"}
  PROVE  /\ w \in Worker => mode = "pass" /\ phase = "active"
         /\ w = Main => mode = "closing"
         /\ w \in Worker \/ w = Main
BY Flows, BusyFlow DEF EvaluationInv, PassOfEvaluator

(* A save turns the progress object into text, or truncates the file. *)
LEMMA SaveStepInv ==
  ASSUME EvaluationInv, NEW w \in Flow, TakeSnapshot(w) \/ TruncateProgress(w)
  PROVE  EvaluationInv'
<1> USE DEF EvaluationInv
<1>1. /\ UNCHANGED <<poolVars, mode, turn, evals, summary, progress, judged, failed, bounds>>
      /\ \/ /\ job[w].stage = "mkdir" /\ file' = file
            /\ job' = [job EXCEPT ![w].stage = "truncate", ![w].snapshot = progress]
         \/ /\ job[w].stage = "truncate" /\ file' = [kind |-> "empty", entries |-> {}]
            /\ job' = [job EXCEPT ![w].stage = "overwrite"]
  BY DEF TakeSnapshot, TruncateProgress, counters
<1>2. PoolInv'
  BY <1>1, StutterInv
<1>3. Counted' = Counted /\ Evaluator' = Evaluator
  BY <1>1 DEF Counted, Evaluator
<1>4. job \in [Flow -> Job] /\ progress \subseteq Entry
  BY DEF TypeOK
<1>5. /\ job' \in [Flow -> Job]
      /\ \A v \in Flow \ {w} : job'[v] = job[v]
      /\ \/ /\ job[w].stage = "mkdir" /\ job'[w].stage = "truncate" /\ job'[w].snapshot = progress
         \/ /\ job[w].stage = "truncate" /\ job'[w].stage = "overwrite"
            /\ job'[w].snapshot = job[w].snapshot
  <2>1. CASE job' = [job EXCEPT ![w].stage = "truncate", ![w].snapshot = progress]
    BY <1>1, <1>4, <2>1 DEF Job, Stage
  <2>2. CASE job' = [job EXCEPT ![w].stage = "overwrite"]
    BY <1>1, <1>4, <2>2 DEF Job, Stage
  <2>3. QED
    BY <1>1, <2>1, <2>2
<1>6. Worker \subseteq Flow /\ Main \in Flow /\ Main \notin Worker
  BY Flows
<1>7. /\ w \in Worker => mode = "pass"
      /\ w = Main => mode = "closing"
      /\ w \in Worker \/ w = Main
  BY <1>1, SavingFlow
<1>8. TypeOK'
  <2>1. \A v \in Worker : job'[v].stage # "none" <=> index'[v] # 0
    BY <1>1, <1>5, <1>6 DEF TypeOK, poolVars
  <2>2. file' \in [kind : {"none", "empty", "ok", "mixed"}, entries : SUBSET Entry]
    BY <1>1 DEF TypeOK
  <2>3. QED
    BY <1>1, <1>2, <1>3, <1>5, <2>1, <2>2 DEF TypeOK, PoolInv, poolVars, bounds
<1>9. PassOfEvaluator'
  <2>1. job'[Main].stage = job[Main].stage
        \/ (mode = "closing" /\ job'[Main].stage \in {"truncate", "overwrite"})
    BY <1>5, <1>6, <1>7
  <2>2. \A v \in Worker : job'[v].stage # "summary"
    BY <1>5, <1>6 DEF PassOfEvaluator
  <2>3. QED
    BY <1>1, <2>1, <2>2 DEF PassOfEvaluator, poolVars
<1>10. EntriesBacked'
  <2>1. \A v \in Flow : job'[v].snapshot = job[v].snapshot \/ job'[v].snapshot = progress
    BY <1>5
  <2>2. file' = file \/ file'.entries = {}
    BY <1>1
  <2>3. QED
    BY <1>1, <2>1, <2>2 DEF EntriesBacked, Backed
<1>11. Done' = Done
  BY <1>1, <1>5, <1>6 DEF Done, poolVars
<1>12. CountedOnce'
  <2>1. \A v \in Worker : job'[v].stage \in {"judge", "open", "write"} => job'[v] = job[v]
    BY <1>5, <1>6
  <2>2. QED
    BY <1>1, <1>3, <1>11, <2>1 DEF CountedOnce, ResultOf, InPass, poolVars
<1>13. JudgedFiled'
  <2>1. \A v \in Worker : job'[v].stage \in {"mkdir", "truncate", "overwrite"} =>
                            job[v].stage \in {"mkdir", "truncate", "overwrite"}
    BY <1>5, <1>6
  <2>2. QED
    BY <1>1, <1>3, <2>1 DEF JudgedFiled, Recorded, Entered, Filed, ResultOf, InPass, poolVars
<1>14. ClosingSaved'
  <2>1. CASE w = Main
    BY <1>1, <1>5, <2>1 DEF ClosingSaved, poolVars
  <2>2. CASE w # Main
    BY <1>1, <1>7, <2>2 DEF ClosingSaved
  <2>3. QED
    BY <2>1, <2>2
<1>15. QED
  BY <1>2, <1>8, <1>9, <1>10, <1>12, <1>13, <1>14

(* Writing over the file keeps its entries backed and its type. *)
LEMMA OverwriteStep ==
  ASSUME EvaluationInv, NEW w \in Flow, file' = Overwrite(job[w].snapshot)
  PROVE  /\ file' \in [kind : {"none", "empty", "ok", "mixed"}, entries : SUBSET Entry]
         /\ Backed(file'.entries)
<1>1. job[w].snapshot \subseteq Entry
  BY DEF EvaluationInv, TypeOK, Job
<1>2. file'.entries = job[w].snapshot \/ file'.entries = file.entries
  BY DEF Overwrite
<1>3. QED
  BY <1>1, <1>2 DEF EvaluationInv, TypeOK, EntriesBacked, Backed, Overwrite

(* The main flow's save is done. *)
LEMMA MainWrittenInv ==
  ASSUME EvaluationInv, ProgressWritten(Main)
  PROVE  EvaluationInv'
<1> USE DEF EvaluationInv
<1>1. /\ job[Main].stage = "overwrite" /\ file' = Overwrite(job[Main].snapshot)
      /\ IF judged = {} THEN NextTurn ELSE UNCHANGED <<mode, turn>>
      /\ job' = [job EXCEPT ![Main] = IF judged = {} THEN NoJob ELSE [NoJob EXCEPT !.stage = "summary"]]
      /\ UNCHANGED <<poolVars, evals, summary, progress, judged, failed, bounds>>
  BY DEF ProgressWritten, counters
<1>2. mode = "closing" /\ Main \in Flow /\ Main \notin Worker /\ Worker \subseteq Flow
  BY <1>1, Flows DEF PassOfEvaluator
<1>3. /\ file' \in [kind : {"none", "empty", "ok", "mixed"}, entries : SUBSET Entry]
      /\ Backed(file'.entries)
  BY <1>1, <1>2, OverwriteStep
<1>4. CASE judged = {}
  <2>1. NextTurn /\ job' = [job EXCEPT ![Main] = NoJob]
    BY <1>1, <1>4
  <2>2. Backed(progress')
    BY <1>1 DEF EntriesBacked
  <2>3. QED
    BY <1>1, <1>2, <1>3, <2>1, <2>2, TurnInv DEF TypeOK, counters
<1>5. CASE judged # {}
  <2>1. mode' = mode /\ turn' = turn /\ job' = [job EXCEPT ![Main] = [NoJob EXCEPT !.stage = "summary"]]
    BY <1>1, <1>5
  <2>2. /\ job' \in [Flow -> Job] /\ job'[Main].stage = "summary"
        /\ \A w \in Worker : job'[w] = job[w]
        /\ \A w \in Flow : job'[w] = job[w] \/ job'[w].snapshot = {}
    <3>1. job \in [Flow -> Job]
      BY DEF TypeOK
    <3>2. QED
      BY <1>2, <2>1, <3>1, JobTypes DEF NoJob
  <2>3. PoolInv'
    BY <1>1, StutterInv
  <2>4. Counted' = Counted /\ Evaluator' = Evaluator
    BY <1>1, <2>1 DEF Counted, Evaluator
  <2>5. TypeOK'
    BY <1>1, <1>3, <2>1, <2>2, <2>3, <2>4 DEF TypeOK, PoolInv, poolVars, bounds
  <2>6. PassOfEvaluator'
    BY <1>1, <1>2, <2>1, <2>2 DEF PassOfEvaluator, poolVars
  <2>7. EntriesBacked'
    BY <1>1, <1>3, <2>2 DEF EntriesBacked, Backed
  <2>8. CountedOnce'
    <3>1. Done' = Done
      BY <1>1, <2>2 DEF Done, poolVars
    <3>2. QED
      BY <1>1, <2>1, <2>2, <2>4, <3>1 DEF CountedOnce, ResultOf, InPass, poolVars
  <2>9. JudgedFiled'
    BY <1>1, <2>1, <2>2, <2>4 DEF JudgedFiled, Recorded, Entered, Filed, ResultOf, InPass, poolVars
  <2>10. ClosingSaved'
    BY <1>1, <1>2, <2>1, <2>2 DEF ClosingSaved, Overwrite, poolVars
  <2>11. QED
    BY <2>3, <2>5, <2>6, <2>7, <2>8, <2>9, <2>10
<1>6. QED
  BY <1>4, <1>5

-----------------------------------------------------------------------------
(* A step of worker w leaves alone what the others hold and do. *)
Others(w) ==
  /\ job'[Main] = job[Main]
  /\ \A v \in Worker \ {w} :
       /\ index'[v] = index[v] /\ job'[v].stage = job[v].stage
       /\ job[v].stage # "none" => job'[v] = job[v]

(* Worker w keeps its result and has stopped judging it. *)
Keeps(w) ==
  /\ index'[w] = index[w] /\ taskIndex' = taskIndex /\ results' = results
  /\ job'[w].stage \notin {"none", "judge"}

(* Worker w lets go of its result, and judges the next one or has none. *)
Goes(w) ==
  \/ index'[w] = 0 /\ taskIndex' = taskIndex /\ job'[w].stage = "none"
  \/ /\ MoreTasks
     /\ index'[w] = taskIndex + 1 /\ taskIndex' = taskIndex + 1 /\ job'[w].stage = "judge"

(* The jobs after a worker has gone round its loop. *)
LEMMA AfterPool ==
  ASSUME EvaluationInv, PoolInv', NEW w \in Worker, Moves(w), tasks' = tasks, JobsAfterPool(w)
  PROVE  /\ job' \in [Flow -> Job]
         /\ \A v \in Worker : job'[v].stage # "none" <=> index'[v] # 0
         /\ \A v \in Flow : job'[v].snapshot = {} \/ job'[v].snapshot = job[v].snapshot
         /\ Others(w) /\ Goes(w)
<1> DEFINE fresh == [stage |-> "judge", attempt |-> 1, snapshot |-> {}]
<1>1. /\ index \in [Worker -> 0..Len(tasks)] /\ index' \in [Worker -> 0..Len(tasks)]
      /\ taskIndex \in Nat /\ taskIndex' \in Nat
      /\ job \in [Flow -> Job] /\ \A v \in Worker : job[v].stage # "none" <=> index[v] # 0
  <2>1. job \in [Flow -> Job] /\ \A v \in Worker : job[v].stage # "none" <=> index[v] # 0
    BY DEF EvaluationInv, TypeOK
  <2>2. index \in [Worker -> 0..Len(tasks)] /\ taskIndex \in Nat
    BY DEF EvaluationInv, PoolInv, PoolTypeOK
  <2>3. index' \in [Worker -> 0..Len(tasks)] /\ taskIndex' \in Nat
    BY DEF PoolInv, PoolTypeOK
  <2>4. QED
    BY <2>1, <2>2, <2>3
<1>2. job' = [v \in Flow |-> IF v # Main /\ index'[v] = 0 THEN NoJob
                             ELSE IF v = Main \/ (v # w /\ index'[v] = index[v]) THEN job[v]
                             ELSE fresh]
  BY DEF JobsAfterPool
<1>3. Main \notin Worker /\ Flow = Worker \cup {Main}
  BY Flows
<1>4. \A v \in Worker \ {w} : index'[v] = index[v]
  BY <1>1 DEF Moves
<1>5. \/ index'[w] = 0 /\ taskIndex' = taskIndex
      \/ MoreTasks /\ index'[w] = taskIndex + 1 /\ taskIndex' = taskIndex + 1
  BY <1>1 DEF Moves
<1>6. job'[Main] = job[Main]
  BY <1>2, <1>3
<1>7. \A v \in Worker \ {w} : \/ index'[v] = 0 /\ job'[v] = NoJob
                              \/ index'[v] # 0 /\ job'[v] = job[v]
  BY <1>2, <1>3, <1>4
<1>8. \/ index'[w] = 0 /\ job'[w] = NoJob
      \/ index'[w] # 0 /\ job'[w] = fresh
  BY <1>2, <1>3
<1>9. job' \in [Flow -> Job]
  <2>1. NoJob \in Job /\ fresh \in Job
    BY JobTypes
  <2>2. QED
    BY <1>1, <1>2, <2>1
<1>10. \A v \in Worker : job'[v].stage # "none" <=> index'[v] # 0
  BY <1>1, <1>4, <1>7, <1>8 DEF NoJob
<1>11. Others(w)
  BY <1>1, <1>4, <1>6, <1>7 DEF Others, NoJob
<1>12. Goes(w)
  BY <1>1, <1>5, <1>8 DEF Goes, NoJob
<1>13. \A v \in Flow : job'[v].snapshot = {} \/ job'[v].snapshot = job[v].snapshot
  BY <1>3, <1>6, <1>7, <1>8 DEF NoJob
<1>14. QED
  BY <1>9, <1>10, <1>11, <1>12, <1>13

(* The positions done: one more when w was judging. *)
LEMMA DoneStep ==
  ASSUME EvaluationInv, NEW w \in Worker, Others(w), Keeps(w) \/ Goes(w)
  PROVE  /\ job[w].stage # "judge" => Done' = Done
         /\ job[w].stage = "judge" => Done' = Done \cup {index[w]} /\ index[w] \notin Done
<1>1. /\ taskIndex \in Nat /\ \A v \in Worker : index[v] \in Nat /\ index[v] <= taskIndex
      /\ \A v \in Worker : index[v] # 0 /\ index[v] = index[w] => v = w
      /\ \A v \in Worker : job[v].stage # "none" <=> index[v] # 0
  BY DEF EvaluationInv, TypeOK, PoolInv, PoolTypeOK, HeldTasks, NoSharedTask
<1> DEFINE busy(i) == \E v \in Worker : index[v] = i /\ job[v].stage = "judge"
           busyNext(i) == \E v \in Worker : index'[v] = i /\ job'[v].stage = "judge"
<1>2. Done = {i \in 1..taskIndex : ~busy(i)} /\ Done' = {i \in 1..taskIndex' : ~busyNext(i)}
  BY DEF Done
<1>3. taskIndex' = taskIndex \/ (taskIndex' = taskIndex + 1 /\ busyNext(taskIndex + 1))
  BY DEF Keeps, Goes
<1>4. ASSUME NEW i \in 1..taskIndex
      PROVE  busyNext(i) <=> busy(i) /\ ~(job[w].stage = "judge" /\ i = index[w])
  <2>1. ~(index'[w] = i /\ job'[w].stage = "judge")
    BY <1>1 DEF Keeps, Goes
  <2>2. busyNext(i) <=> \E v \in Worker \ {w} : index[v] = i /\ job[v].stage = "judge"
    BY <2>1 DEF Others
  <2>3. \A v \in Worker \ {w} : index[v] = i => ~(job[w].stage = "judge" /\ i = index[w])
    BY <1>1
  <2>4. QED
    BY <2>2, <2>3
<1>5. job[w].stage = "judge" => index[w] \in 1..taskIndex /\ busy(index[w])
  BY <1>1
<1> HIDE DEF busy, busyNext
<1>6. QED
  BY <1>1, <1>2, <1>3, <1>4, <1>5

(* The counters after a step of worker w: nothing is counted, or the result *)
(* w was judging is, as judged or as failed.                               *)
Counts(w) ==
  \/ job[w].stage # "judge" /\ UNCHANGED <<judged, failed>>
  \/ job[w].stage = "judge" /\ judged' = judged /\ failed' = failed + 1
  \/ job[w].stage = "judge" /\ judged' = judged \cup {ResultOf(w)} /\ failed' = failed

(* Every result is counted once, at the position it was claimed at. *)
LEMMA CountsStep ==
  ASSUME EvaluationInv, NEW w \in Worker, mode = "pass", UNCHANGED tasks, taskIndex' <= Len(tasks),
         Others(w), Keeps(w) \/ Goes(w), Counts(w),
         job'[w].stage \in {"open", "write"} => ResultOf(w) \in judged'
  PROVE  CountedOnce' /\ failed' \in Nat /\ judged' \subseteq ToSet(tasks') /\ Counted' \in 0..Len(tasks')
<1> USE DEF EvaluationInv
<1>1. /\ taskIndex \in Nat /\ taskIndex' \in Nat /\ taskIndex <= taskIndex' /\ taskIndex <= Len(tasks)
      /\ tasks \in Seq(Task) /\ Len(tasks) \in Nat /\ DOMAIN tasks = 1..Len(tasks)
      /\ failed \in Nat /\ judged \subseteq ToSet(tasks) /\ InPass
  <2>1. /\ taskIndex \in Nat /\ taskIndex <= Len(tasks) /\ tasks \in Seq(Task)
        /\ Len(tasks) \in Nat /\ DOMAIN tasks = 1..Len(tasks)
        /\ failed \in Nat /\ judged \subseteq ToSet(tasks)
    BY DEF TypeOK, PoolTypeOK
  <2>2. taskIndex' = taskIndex \/ taskIndex' = taskIndex + 1
    BY DEF Keeps, Goes
  <2>3. InPass
    BY DEF InPass
  <2> HIDE DEF EvaluationInv
  <2>4. QED
    BY <2>1, <2>2, <2>3
<1>2. /\ Counted = Cardinality(Done) /\ judged \subseteq {tasks[i] : i \in 1..taskIndex}
      /\ \A v \in Worker : /\ job[v].stage = "judge" => ResultOf(v) \notin judged
                           /\ job[v].stage \in {"open", "write"} => ResultOf(v) \in judged
  BY <1>1 DEF CountedOnce
<1>3. \A i, k \in 1..Len(tasks) : tasks[i] = tasks[k] => i = k
  BY <1>1 DEF PassOfEvaluator, IsInjective
<1>4. \A v \in Worker : job[v].stage # "none" =>
        index[v] \in 1..taskIndex /\ index[v] \in 1..Len(tasks) /\ ResultOf(v) = tasks[index[v]]
  BY BusyFlow
<1>5. IsFiniteSet(judged) /\ Cardinality(judged) \in Nat
  <2>1. IsFiniteSet(judged)
    BY <1>1, FiniteRange, FS_Subset
  <2>2. QED
    BY <2>1, FS_CardinalityType
<1>6. IsFiniteSet(Done) /\ IsFiniteSet(Done') /\ Cardinality(Done') <= Len(tasks) /\ Cardinality(Done') \in Nat
  <2>1. Done \subseteq 1..taskIndex /\ Done' \subseteq 1..taskIndex'
    BY DEF Done
  <2>2. /\ IsFiniteSet(1..taskIndex) /\ IsFiniteSet(1..taskIndex')
        /\ Cardinality(1..taskIndex') <= taskIndex'
    <3>1. 1 \in Int /\ taskIndex \in Int /\ taskIndex' \in Int /\ taskIndex' >= 0
      BY <1>1
    <3>2. Cardinality(1..taskIndex') = IF 1 > taskIndex' THEN 0 ELSE taskIndex' - 1 + 1
      BY <3>1, FS_Interval
    <3>3. IsFiniteSet(1..taskIndex) /\ IsFiniteSet(1..taskIndex')
      BY <3>1, FS_Interval
    <3>4. QED
      BY <3>1, <3>2, <3>3
  <2>3. IsFiniteSet(Done) /\ IsFiniteSet(Done')
    BY <2>1, <2>2, FS_Subset
  <2>4. Cardinality(Done') <= Cardinality(1..taskIndex')
    BY <2>1, <2>2, FS_Subset
  <2>5. Cardinality(Done') \in Nat /\ Cardinality(1..taskIndex') \in Nat
    BY <2>2, <2>3, FS_CardinalityType
  <2>6. QED
    BY <1>1, <2>2, <2>3, <2>4, <2>5
<1>7. judged' \subseteq {tasks[i] : i \in 1..taskIndex} /\ failed' \in Nat
  BY <1>1, <1>2, <1>4 DEF Counts
<1>8. Counted' = Cardinality(Done')
  <2>1. CASE job[w].stage # "judge"
    <3>1. Done' = Done /\ judged' = judged /\ failed' = failed
      BY <2>1, DoneStep DEF Counts
    <3>2. QED
      BY <1>2, <3>1 DEF Counted
  <2>2. CASE job[w].stage = "judge"
    <3>1. Done' = Done \cup {index[w]} /\ index[w] \notin Done
      BY <2>2, DoneStep
    <3>2. Cardinality(Done') = Cardinality(Done) + 1
      BY <1>6, <3>1, FS_AddElement
    <3>3. Cardinality(judged \cup {ResultOf(w)}) = Cardinality(judged) + 1
      BY <1>2, <1>5, <2>2, FS_AddElement
    <3>4. Counted' = Counted + 1
      <4>1. CASE judged' = judged /\ failed' = failed + 1
        BY <1>1, <1>5, <4>1 DEF Counted
      <4>2. CASE judged' = judged \cup {ResultOf(w)} /\ failed' = failed
        BY <1>1, <1>5, <3>3, <4>2 DEF Counted
      <4>3. QED
        BY <2>2, <4>1, <4>2 DEF Counts
    <3>5. QED
      BY <1>2, <3>2, <3>4
  <2>3. QED
    BY <2>1, <2>2
<1>9. judged' \subseteq {tasks'[i] : i \in 1..taskIndex'}
  BY <1>1, <1>7
<1>10. ASSUME NEW v \in Worker
       PROVE  /\ job'[v].stage = "judge" => ResultOf(v)' \notin judged'
              /\ job'[v].stage \in {"open", "write"} => ResultOf(v)' \in judged'
  <2>1. CASE v = w
    <3>1. CASE Keeps(w)
      BY <2>1, <3>1 DEF Keeps, ResultOf
    <3>2. CASE Goes(w)
      <4>1. taskIndex + 1 \in 1..Len(tasks) => tasks[taskIndex + 1] \notin judged'
        BY <1>1, <1>3, <1>7
      <4>2. QED
        BY <1>1, <2>1, <3>2, <4>1 DEF Goes, ResultOf, MoreTasks
    <3>3. QED
      BY <3>1, <3>2
  <2>2. CASE v # w
    <3>1. job'[v].stage = job[v].stage /\ ResultOf(v)' = ResultOf(v)
      BY <2>2 DEF Others, ResultOf
    <3>2. job[v].stage = "judge" /\ job[w].stage = "judge" => ResultOf(v) # ResultOf(w)
      BY <1>3, <1>4, <2>2 DEF PoolInv, NoSharedTask
    <3>3. QED
      BY <1>2, <3>1, <3>2 DEF Counts
  <2>3. QED
    BY <2>1, <2>2
<1>11. CountedOnce'
  BY <1>8, <1>9, <1>10 DEF CountedOnce
<1>12. judged' \subseteq ToSet(tasks')
  BY <1>1, <1>7 DEF ToSet
<1>13. Counted' \in 0..Len(tasks')
  BY <1>1, <1>6, <1>8
<1>14. QED
  BY <1>7, <1>11, <1>12, <1>13

(* What is judged, filed and entered after a step of worker w. *)
LEMMA JudgedFiledStep ==
  ASSUME EvaluationInv, NEW w \in Worker, mode = "pass", UNCHANGED <<mode, turn, tasks>>,
         Others(w), Keeps(w) \/ Goes(w), Counts(w), NEW r, r = ResultOf(w),
         \A f \in evals : f.whole => f \in evals',
         \A f \in evals' : f.whole =>
           f \in evals \/ (job[w].stage = "write" /\ f = EvalFile(w, TRUE)),
         progress \subseteq progress',
         job'[w].stage \in {"mkdir", "truncate", "overwrite"} => Recorded(r)',
         \/ results' = results
         \/ job[w].stage # "none" /\ results' = [results EXCEPT ![index[w]] = "error"]
         \/ job[w].stage # "none" /\ results' = [results EXCEPT ![index[w]] = "value"] /\ Recorded(r)'
  PROVE  JudgedFiled'
<1> USE DEF EvaluationInv
<1>1. /\ taskIndex \in Nat /\ taskIndex <= Len(tasks) /\ Len(tasks) \in Nat
      /\ results \in [1..Len(tasks) -> Outcome] /\ InPass /\ Evaluator' = Evaluator
  BY DEF TypeOK, PoolTypeOK, InPass, Evaluator
<1>2. /\ \A i \in 1..Len(tasks) : Filed(tasks[i]) => tasks[i] \in judged
      /\ \A i \in 1..Len(tasks) : results[i] = "value" => Recorded(tasks[i])
      /\ \A v \in Worker : job[v].stage \in {"mkdir", "truncate", "overwrite"} => Recorded(ResultOf(v))
      /\ \A v \in Worker : job[v].stage \in {"open", "write"} => ResultOf(v) \in judged
  BY <1>1 DEF JudgedFiled, CountedOnce
<1>3. \A i, k \in 1..Len(tasks) : tasks[i] = tasks[k] => i = k
  <2>1. tasks \in Seq(Task) /\ IsInjective(tasks)
    BY DEF PassOfEvaluator, TypeOK, PoolTypeOK
  <2>2. QED
    BY <2>1 DEF IsInjective
<1>4. \A v \in Worker : job[v].stage # "none" =>
        index[v] \in 1..Len(tasks) /\ ResultOf(v) = tasks[index[v]] /\ results[index[v]] = "unset"
  BY BusyFlow
<1>5. judged \subseteq judged' /\ \A x \in judged' : x \in judged \/ (job[w].stage # "none" /\ x = r)
  BY DEF Counts
<1>6. \A x : (Filed(x) => Filed(x)') /\ (Entered(x) => Entered(x)')
  BY <1>1 DEF Filed, Entered
<1>7. \A x : x # r /\ Recorded(x) => Recorded(x)'
  BY <1>5, <1>6 DEF Recorded
<1>8. \A x : Filed(x)' => Filed(x) \/ (x = r /\ job[w].stage = "write")
  BY <1>1 DEF Filed, EvalFile
<1>9. ASSUME NEW i \in 1..Len(tasks)
      PROVE  /\ Filed(tasks[i])' => tasks[i] \in judged'
             /\ results'[i] = "value" => Recorded(tasks[i])'
  <2>1. Filed(tasks[i])' => tasks[i] \in judged'
    BY <1>2, <1>5, <1>8
  <2>2. ASSUME results'[i] = "value"
        PROVE  Recorded(tasks[i])'
    <3>1. CASE job[w].stage # "none" /\ i = index[w]
      <4>1. tasks[i] = r /\ results[i] = "unset"
        BY <1>4, <3>1
      <4>2. Recorded(r)'
        BY <1>1, <1>4, <2>2, <3>1, <4>1
      <4>3. QED
        BY <4>1, <4>2 DEF Recorded, Filed, Entered
    <3>2. CASE job[w].stage # "none" /\ i # index[w]
      <4>1. results[i] = "value" /\ tasks[i] # r
        BY <1>1, <1>3, <1>4, <2>2, <3>2
      <4>2. Recorded(tasks[i])
        BY <1>2, <4>1
      <4>3. QED
        BY <1>7, <4>1, <4>2 DEF Recorded, Filed, Entered
    <3>3. CASE job[w].stage = "none"
      <4>1. results[i] = "value" /\ judged' = judged
        BY <2>2, <3>3 DEF Counts
      <4>2. Recorded(tasks[i])
        BY <1>2, <4>1
      <4>3. QED
        BY <1>6, <4>1, <4>2 DEF Recorded, Filed, Entered
    <3>4. QED
      BY <3>1, <3>2, <3>3
  <2>3. QED
    BY <2>1, <2>2
<1>10. ASSUME NEW v \in Worker, job'[v].stage \in {"mkdir", "truncate", "overwrite"}
       PROVE  Recorded(ResultOf(v))'
  <2>1. CASE v = w
    <3>1. ResultOf(w)' = r
      BY <1>10, <2>1 DEF Keeps, Goes, ResultOf
    <3>2. QED
      BY <1>10, <2>1, <3>1 DEF Recorded, Filed, Entered
  <2>2. CASE v # w
    <3>1. job[v].stage = job'[v].stage /\ ResultOf(v)' = ResultOf(v)
      BY <2>2 DEF Others, ResultOf
    <3>2. Recorded(ResultOf(v))
      BY <1>2, <1>10, <3>1
    <3>3. job[w].stage # "none" => ResultOf(v) # r
      BY <1>3, <1>4, <1>10, <2>2, <3>1 DEF PoolInv, NoSharedTask
    <3>4. job[w].stage = "none" => judged' = judged
      BY DEF Counts
    <3>5. QED
      BY <1>6, <1>7, <3>1, <3>2, <3>3, <3>4 DEF Recorded, Filed, Entered
  <2>3. QED
    BY <2>1, <2>2
<1>11. QED
  BY <1>9, <1>10 DEF JudgedFiled, Recorded, Filed, Entered

(* What a step of worker w preserves of the rest. *)
LEMMA WorkerInv ==
  ASSUME EvaluationInv, NEW w \in Worker, mode = "pass", phase' = "active", PoolInv',
         UNCHANGED <<mode, turn, tasks, summary, runs, crashes>>,
         judgeFaults' \in 0..MaxJudgeFaults, fileFaults' \in 0..MaxFileFaults,
         job' \in [Flow -> Job], \A v \in Worker : job'[v].stage # "none" <=> index'[v] # 0,
         \A v \in Flow : job'[v].snapshot = {} \/ job'[v].snapshot = job[v].snapshot,
         job'[w].stage # "summary", Others(w), Keeps(w) \/ Goes(w), Counts(w),
         evals' \subseteq [result : Result, evaluator : ToSet(Evaluators), whole : BOOLEAN],
         \A f \in evals : f.whole => f \in evals',
         file' \in [kind : {"none", "empty", "ok", "mixed"}, entries : SUBSET Entry],
         Backed(file'.entries), progress' \subseteq Entry,
         \A e \in progress' : e \in progress \/ (e.ok =>
           [result |-> e.result, evaluator |-> e.evaluator, whole |-> TRUE] \in evals'),
         job'[w].stage \in {"open", "write"} => ResultOf(w) \in judged',
         JudgedFiled'
  PROVE  EvaluationInv'
<1> USE DEF EvaluationInv
<1>1. taskIndex' <= Len(tasks)
  BY DEF PoolInv, PoolTypeOK
<1>2. CountedOnce' /\ failed' \in Nat /\ judged' \subseteq ToSet(tasks') /\ Counted' \in 0..Len(tasks')
  BY <1>1, CountsStep
<1>3. TypeOK'
  BY <1>2 DEF TypeOK, PoolInv
<1>4. PassOfEvaluator'
  BY DEF PassOfEvaluator, Others
<1>5. EntriesBacked'
  <2> DEFINE whole(e) == [result |-> e.result, evaluator |-> e.evaluator, whole |-> TRUE]
  <2>1. \A e : whole(e) \in evals => whole(e) \in evals'
    OBVIOUS
  <2> HIDE DEF whole
  <2>2. \A e \in file'.entries \cup progress : e.ok => whole(e) \in evals'
    BY <2>1 DEF EntriesBacked, Backed, whole
  <2>3. \A e \in progress' : e.ok => whole(e) \in evals'
    BY <2>2 DEF whole
  <2>4. \A v \in Flow : \A e \in job[v].snapshot : e.ok => whole(e) \in evals'
    BY <2>1 DEF EntriesBacked, Backed, whole
  <2>5. \A v \in Flow : \A e \in job'[v].snapshot : e.ok => whole(e) \in evals'
    BY <2>4
  <2>6. QED
    BY <2>2, <2>3, <2>5 DEF EntriesBacked, Backed, whole
<1>6. ClosingSaved'
  BY DEF ClosingSaved
<1>7. QED
  BY <1>2, <1>3, <1>4, <1>5, <1>6

(* Worker w goes on to another stage with the same result. *)
LEMMA StayStep ==
  ASSUME EvaluationInv, NEW w \in Worker, job[w].stage # "none", UNCHANGED poolVars,
         NEW j \in Job, j.stage \notin {"none", "judge"}, job' = [job EXCEPT ![w] = j],
         j.snapshot = {} \/ j.snapshot = job[w].snapshot
  PROVE  /\ PoolInv' /\ phase' = "active" /\ tasks' = tasks /\ results' = results
         /\ job' \in [Flow -> Job]
         /\ \A v \in Worker : job'[v].stage # "none" <=> index'[v] # 0
         /\ \A v \in Flow : job'[v].snapshot = {} \/ job'[v].snapshot = job[v].snapshot
         /\ Others(w) /\ Keeps(w) /\ job'[w] = j
<1>1. PoolInv' /\ phase = "active"
  BY StutterInv, BusyFlow DEF EvaluationInv
<1>2. UNCHANGED <<phase, tasks, taskIndex, index, results>>
  BY DEF poolVars
<1>3. job \in [Flow -> Job] /\ \A v \in Worker : job[v].stage # "none" <=> index[v] # 0
  BY DEF EvaluationInv, TypeOK
<1>4. Main \notin Worker /\ Main \in Flow /\ Worker \subseteq Flow
  BY Flows
<1>5. /\ job' \in [Flow -> Job] /\ job'[w] = j
      /\ \A v \in Flow \ {w} : job'[v] = job[v]
  BY <1>3, <1>4
<1>6. QED
  BY <1>1, <1>2, <1>3, <1>4, <1>5 DEF Others, Keeps

(* The promise of worker w settles and w goes round its loop. *)
LEMMA GoStep ==
  ASSUME EvaluationInv, NEW w \in Worker, NEW outcome \in {"value", "error"}, NEW pause \in Nat,
         Settle(w, outcome, pause), JobsAfterPool(w)
  PROVE  /\ PoolInv' /\ phase' = "active" /\ tasks' = tasks
         /\ results' = [results EXCEPT ![index[w]] = outcome]
         /\ job' \in [Flow -> Job]
         /\ \A v \in Worker : job'[v].stage # "none" <=> index'[v] # 0
         /\ \A v \in Flow : job'[v].snapshot = {} \/ job'[v].snapshot = job[v].snapshot
         /\ Others(w) /\ Goes(w) /\ job'[w].stage \in {"none", "judge"}
<1>1. PoolInv'
  BY SettleInv DEF EvaluationInv
<1>2. /\ phase' = "active" /\ tasks' = tasks /\ Moves(w)
      /\ results' = [results EXCEPT ![index[w]] = outcome]
  BY SettleStep DEF EvaluationInv
<1>3. QED
  BY <1>1, <1>2, AfterPool DEF Goes

(* The result is counted: worker w saves the progress or resolves. *)
LEMMA DueStep ==
  ASSUME EvaluationInv, NEW w \in Worker, job[w].stage # "none", NEW total, SaveIfDue(w, total)
  PROVE  /\ PoolInv' /\ phase' = "active" /\ tasks' = tasks
         /\ results' = results \/ results' = [results EXCEPT ![index[w]] = "value"]
         /\ job' \in [Flow -> Job]
         /\ \A v \in Worker : job'[v].stage # "none" <=> index'[v] # 0
         /\ \A v \in Flow : job'[v].snapshot = {} \/ job'[v].snapshot = job[v].snapshot
         /\ Others(w) /\ (Keeps(w) \/ Goes(w)) /\ job'[w].stage \in {"none", "judge", "mkdir"}
<1> DEFINE j == [stage |-> "mkdir", attempt |-> 0, snapshot |-> {}]
<1>1. CASE job' = [job EXCEPT ![w] = j] /\ UNCHANGED poolVars
  <2>1. j \in Job /\ j.stage = "mkdir" /\ j.snapshot = {}
    BY JobTypes
  <2> HIDE DEF j
  <2>2. QED
    BY <1>1, <2>1, StayStep
<1>2. CASE Resolve(w) /\ JobsAfterPool(w)
  BY <1>2, GoStep, PoolAssumption DEF Resolve
<1>3. QED
  BY <1>1, <1>2 DEF SaveIfDue

(* The evaluator has answered: the result is counted as judged. *)
LEMMA JudgeAnswersInv ==
  ASSUME EvaluationInv, NEW w \in Worker, JudgeAnswers(w)
  PROVE  EvaluationInv'
<1>1. /\ job[w].stage = "judge" /\ judged' = judged \cup {ResultOf(w)}
      /\ job' = [job EXCEPT ![w].stage = "open"]
      /\ UNCHANGED <<poolVars, mode, turn, evals, file, summary, progress, failed, bounds>>
  BY DEF JudgeAnswers
<1> DEFINE j == [job[w] EXCEPT !.stage = "open"]
<1>2. mode = "pass" /\ w \in Flow /\ job \in [Flow -> Job]
  BY <1>1, BusyFlow, Flows DEF EvaluationInv, TypeOK
<1>3. /\ j \in Job /\ j.stage = "open" /\ j.snapshot = job[w].snapshot
      /\ job' = [job EXCEPT ![w] = j]
  <2>1. job[w] \in Job
    BY <1>2
  <2>2. j \in Job /\ j.stage = "open" /\ j.snapshot = job[w].snapshot
    BY <2>1 DEF Job, Stage
  <2>3. QED
    BY <1>1, <2>2
<1> HIDE DEF j
<1>4. /\ PoolInv' /\ phase' = "active" /\ tasks' = tasks /\ results' = results
      /\ job' \in [Flow -> Job]
      /\ \A v \in Worker : job'[v].stage # "none" <=> index'[v] # 0
      /\ \A v \in Flow : job'[v].snapshot = {} \/ job'[v].snapshot = job[v].snapshot
      /\ Others(w) /\ Keeps(w) /\ job'[w].stage = "open"
  <2>1. job[w].stage = "judge" /\ j.stage \notin {"none", "judge"} /\ UNCHANGED poolVars
    BY <1>1, <1>3
  <2>2. QED
    BY <1>3, <2>1, StayStep
<1>5. Counts(w)
  BY <1>1 DEF Counts
<1>6. JudgedFiled'
  BY <1>1, <1>2, <1>4, <1>5, JudgedFiledStep
<1>7. Backed(file'.entries)
  BY <1>1 DEF EvaluationInv, EntriesBacked
<1>8. QED
  BY <1>1, <1>2, <1>4, <1>5, <1>6, <1>7, WorkerInv DEF EvaluationInv, TypeOK, bounds

(* An attempt that is not the last one only changes the attempt's number. *)
LEMMA RetryInv ==
  ASSUME EvaluationInv, NEW w \in Worker, job[w].stage = "judge", job[w].attempt < MaxAttempts,
         job' = [job EXCEPT ![w].attempt = @ + 1], judgeFaults' \in 0..MaxJudgeFaults,
         UNCHANGED <<poolVars, mode, turn, evals, file, summary, progress, judged, failed,
                     runs, fileFaults, crashes>>
  PROVE  EvaluationInv'
<1> USE DEF EvaluationInv
<1>1. job \in [Flow -> Job] /\ w \in Flow /\ Main \in Flow /\ Main \notin Worker /\ Worker \subseteq Flow
  BY Flows DEF TypeOK
<1>2. job[w].attempt + 1 \in 0..MaxAttempts
  <2>1. job[w].attempt \in 0..MaxAttempts /\ MaxAttempts \in Nat
    BY <1>1, EvaluationAssumption DEF Job
  <2> HIDE DEF EvaluationInv
  <2>2. QED
    BY <2>1
<1>3. /\ job' \in [Flow -> Job]
      /\ \A v \in Flow : job'[v].stage = job[v].stage /\ job'[v].snapshot = job[v].snapshot
  <2> DEFINE j == [job[w] EXCEPT !.attempt = @ + 1]
  <2> HIDE DEF EvaluationInv
  <2>1. job[w] \in Job
    BY <1>1
  <2>2. j \in Job /\ j.stage = job[w].stage /\ j.snapshot = job[w].snapshot
    BY <1>2, <2>1 DEF Job
  <2>3. job' = [job EXCEPT ![w] = j]
    OBVIOUS
  <2> HIDE DEF j
  <2>4. QED
    BY <1>1, <2>2, <2>3
<1>4. PoolInv'
  BY StutterInv
<1>5. Counted' = Counted /\ Evaluator' = Evaluator
  BY DEF Counted, Evaluator
<1>6. TypeOK'
  BY <1>1, <1>3, <1>4, <1>5 DEF TypeOK, PoolInv, poolVars
<1>7. PassOfEvaluator' /\ EntriesBacked'
  <2>1. PassOfEvaluator'
    BY <1>1, <1>3 DEF PassOfEvaluator, poolVars
  <2>2. EntriesBacked'
    BY <1>1, <1>3 DEF EntriesBacked, Backed
  <2>3. QED
    BY <2>1, <2>2
<1>8. CountedOnce'
  <2>1. Done' = Done
    BY <1>1, <1>3 DEF Done, poolVars
  <2>2. QED
    BY <1>1, <1>3, <1>5, <2>1 DEF CountedOnce, ResultOf, InPass, poolVars
<1>9. JudgedFiled'
  BY <1>1, <1>3, <1>5 DEF JudgedFiled, Recorded, Entered, Filed, ResultOf, InPass, poolVars
<1>10. ClosingSaved'
  BY <1>1, <1>3 DEF ClosingSaved, poolVars
<1>11. QED
  BY <1>4, <1>6, <1>7, <1>8, <1>9, <1>10

(* An attempt fails; the last one is recorded as a failure. *)
LEMMA AttemptFailsInv ==
  ASSUME EvaluationInv, NEW w \in Worker, AttemptFails(w)
  PROVE  EvaluationInv'
<1>1. /\ job[w].stage = "judge"
      /\ \/ judgeFaults < MaxJudgeFaults /\ judgeFaults' = judgeFaults + 1
         \/ judgeFaults' = judgeFaults
      /\ UNCHANGED <<mode, turn, evals, file, summary, judged, runs, fileFaults, crashes>>
  BY DEF AttemptFails
<1>2. judgeFaults' \in 0..MaxJudgeFaults
  <2>1. judgeFaults \in 0..MaxJudgeFaults /\ MaxJudgeFaults \in Nat
    BY BoundsTyped DEF EvaluationInv
  <2>2. QED
    BY <1>1, <2>1
<1>3. CASE job[w].attempt < MaxAttempts
  BY <1>1, <1>2, <1>3, RetryInv DEF AttemptFails
<1>4. CASE ~(job[w].attempt < MaxAttempts)
  <2>1. /\ failed' = failed + 1 /\ progress' = progress \cup {EntryFor(w, FALSE)}
        /\ SaveIfDue(w, Counted + 1)
    BY <1>4 DEF AttemptFails
  <2>2. mode = "pass" /\ ResultOf(w) \in Result
    BY <1>1, BusyFlow
  <2>3. /\ PoolInv' /\ phase' = "active" /\ tasks' = tasks
        /\ results' = results \/ results' = [results EXCEPT ![index[w]] = "value"]
        /\ job' \in [Flow -> Job]
        /\ \A v \in Worker : job'[v].stage # "none" <=> index'[v] # 0
        /\ \A v \in Flow : job'[v].snapshot = {} \/ job'[v].snapshot = job[v].snapshot
        /\ Others(w) /\ (Keeps(w) \/ Goes(w)) /\ job'[w].stage \in {"none", "judge", "mkdir"}
    BY <1>1, <2>1, DueStep
  <2>4. EntryFor(w, FALSE) \in Entry
    BY <2>2, EvaluatorTyped DEF EvaluationInv, TypeOK, EntryFor, Entry
  <2>5. Counts(w)
    BY <1>1, <2>1 DEF Counts
  <2>6. ASSUME NEW r, r = ResultOf(w)
        PROVE  Recorded(r)'
    <3>1. r \notin judged'
      BY <1>1, <2>2, <2>6 DEF EvaluationInv, CountedOnce, InPass
    <3>2. [result |-> r, evaluator |-> Evaluator', ok |-> FALSE] \in progress'
      BY <1>1, <2>1, <2>6 DEF EntryFor, Evaluator
    <3>3. QED
      BY <3>1, <3>2 DEF Recorded, Entered, Filed
  <2>7. JudgedFiled'
    BY <1>1, <2>1, <2>2, <2>3, <2>5, <2>6, JudgedFiledStep
  <2>8. Backed(file'.entries) /\ \A e \in progress' : e \in progress \/ ~e.ok
    BY <1>1, <2>1 DEF EvaluationInv, EntriesBacked, EntryFor
  <2>9. progress' \subseteq Entry
    BY <2>1, <2>4 DEF EvaluationInv, TypeOK
  <2>10. QED
    BY <1>1, <1>2, <2>2, <2>3, <2>5, <2>7, <2>8, <2>9, WorkerInv DEF EvaluationInv, TypeOK
<1>5. QED
  BY <1>3, <1>4

(* The evaluation file is created. *)
LEMMA OpenEvaluationInv ==
  ASSUME EvaluationInv, NEW w \in Worker, OpenEvaluation(w)
  PROVE  EvaluationInv'
<1>1. /\ job[w].stage = "open" /\ evals' = evals \cup {EvalFile(w, FALSE)}
      /\ job' = [job EXCEPT ![w].stage = "write"]
      /\ UNCHANGED <<poolVars, mode, turn, file, summary, progress, judged, failed, bounds>>
  BY DEF OpenEvaluation, counters
<1> DEFINE j == [job[w] EXCEPT !.stage = "write"]
<1>2. mode = "pass" /\ w \in Flow /\ job \in [Flow -> Job] /\ ResultOf(w) \in Result
  <2>1. mode = "pass" /\ ResultOf(w) \in Result
    BY <1>1, BusyFlow
  <2>2. QED
    BY <2>1, Flows DEF EvaluationInv, TypeOK
<1>3. /\ j \in Job /\ j.stage = "write" /\ j.snapshot = job[w].snapshot
      /\ job' = [job EXCEPT ![w] = j]
  <2>1. job[w] \in Job
    BY <1>2
  <2>2. j \in Job /\ j.stage = "write" /\ j.snapshot = job[w].snapshot
    BY <2>1 DEF Job, Stage
  <2>3. QED
    BY <1>1, <2>2
<1> HIDE DEF j
<1>4. /\ PoolInv' /\ phase' = "active" /\ tasks' = tasks /\ results' = results
      /\ job' \in [Flow -> Job]
      /\ \A v \in Worker : job'[v].stage # "none" <=> index'[v] # 0
      /\ \A v \in Flow : job'[v].snapshot = {} \/ job'[v].snapshot = job[v].snapshot
      /\ Others(w) /\ Keeps(w) /\ job'[w].stage = "write"
  <2>1. job[w].stage # "none" /\ j.stage \notin {"none", "judge"} /\ UNCHANGED poolVars
    BY <1>1, <1>3
  <2>2. QED
    BY <1>3, <2>1, StayStep
<1>5. Counts(w)
  BY <1>1 DEF Counts
<1>6. EvalFile(w, FALSE).whole = FALSE
      /\ EvalFile(w, FALSE) \in [result : Result, evaluator : ToSet(Evaluators), whole : BOOLEAN]
  BY <1>2, EvaluatorTyped DEF EvalFile, EvaluationInv, TypeOK
<1>7. JudgedFiled'
  BY <1>1, <1>2, <1>4, <1>5, <1>6, JudgedFiledStep
<1>8. Backed(file'.entries) /\ ResultOf(w) \in judged'
  BY <1>1, <1>2 DEF EvaluationInv, EntriesBacked, CountedOnce, InPass
<1>9. QED
  BY <1>1, <1>2, <1>4, <1>5, <1>6, <1>7, <1>8, WorkerInv DEF EvaluationInv, TypeOK, bounds

(* The evaluation file is whole, and only then its result is entered. *)
LEMMA EvaluationWrittenInv ==
  ASSUME EvaluationInv, NEW w \in Worker, EvaluationWritten(w)
  PROVE  EvaluationInv'
<1> DEFINE new == EvalFile(w, TRUE)
<1>1. /\ job[w].stage = "write" /\ evals' = (evals \ {EvalFile(w, FALSE)}) \cup {new}
      /\ progress' = progress \cup {EntryFor(w, TRUE)}
      /\ SaveIfDue(w, Counted)
      /\ UNCHANGED <<mode, turn, file, summary, judged, failed, bounds>>
  BY DEF EvaluationWritten, counters
<1>2. mode = "pass" /\ ResultOf(w) \in Result
  BY <1>1, BusyFlow
<1>3. /\ PoolInv' /\ phase' = "active" /\ tasks' = tasks
      /\ results' = results \/ results' = [results EXCEPT ![index[w]] = "value"]
      /\ job' \in [Flow -> Job]
      /\ \A v \in Worker : job'[v].stage # "none" <=> index'[v] # 0
      /\ \A v \in Flow : job'[v].snapshot = {} \/ job'[v].snapshot = job[v].snapshot
      /\ Others(w) /\ (Keeps(w) \/ Goes(w)) /\ job'[w].stage \in {"none", "judge", "mkdir"}
  BY <1>1, DueStep
<1>4. /\ EntryFor(w, TRUE) = [result |-> ResultOf(w), evaluator |-> Evaluator, ok |-> TRUE]
      /\ new = [result |-> ResultOf(w), evaluator |-> Evaluator, whole |-> TRUE]
      /\ EvalFile(w, FALSE).whole = FALSE
      /\ EntryFor(w, TRUE) \in Entry
      /\ new \in [result : Result, evaluator : ToSet(Evaluators), whole : BOOLEAN]
  BY <1>2, EvaluatorTyped DEF EvaluationInv, TypeOK, EntryFor, EvalFile, Entry
<1>5. Counts(w)
  BY <1>1 DEF Counts
<1>6. /\ \A f \in evals : f.whole => f \in evals'
      /\ \A f \in evals' : f.whole => f \in evals \/ (job[w].stage = "write" /\ f = new)
      /\ evals' \subseteq [result : Result, evaluator : ToSet(Evaluators), whole : BOOLEAN]
      /\ new \in evals'
  BY <1>1, <1>4 DEF EvaluationInv, TypeOK
<1>7. ASSUME NEW r, r = ResultOf(w)
      PROVE  Recorded(r)'
  <2>1. Evaluator' = Evaluator
    BY <1>1 DEF Evaluator
  <2>2. Filed(r)' /\ Entered(r)'
    BY <1>1, <1>4, <1>6, <1>7, <2>1 DEF Filed, Entered
  <2>3. QED
    BY <2>2 DEF Recorded, Filed, Entered
<1>8. JudgedFiled'
  BY <1>1, <1>2, <1>3, <1>5, <1>6, <1>7, JudgedFiledStep
<1>9. Backed(file'.entries)
  BY <1>1 DEF EvaluationInv, EntriesBacked
<1>10. \A e \in progress' : e \in progress \/ (e.ok =>
         [result |-> e.result, evaluator |-> e.evaluator, whole |-> TRUE] \in evals')
  <2> DEFINE entry == EntryFor(w, TRUE)
             whole(e) == [result |-> e.result, evaluator |-> e.evaluator, whole |-> TRUE]
  <2>1. entry.result = ResultOf(w) /\ entry.evaluator = Evaluator
    BY DEF EntryFor
  <2>2. whole(entry) \in evals'
    BY <1>4, <1>6, <2>1
  <2>3. progress' = progress \cup {entry}
    BY <1>1
  <2> HIDE DEF whole, entry
  <2>4. \A e \in progress' : e \in progress \/ whole(e) \in evals'
    BY <2>2, <2>3
  <2>5. QED
    BY <2>4 DEF whole
<1>11. progress' \subseteq Entry
  BY <1>1, <1>4 DEF EvaluationInv, TypeOK
<1> HIDE DEF new
<1>12. /\ file' \in [kind : {"none", "empty", "ok", "mixed"}, entries : SUBSET Entry]
       /\ judgeFaults' \in 0..MaxJudgeFaults /\ fileFaults' \in 0..MaxFileFaults
       /\ UNCHANGED <<mode, turn, tasks, summary, runs, crashes>>
  BY <1>1, <1>3 DEF EvaluationInv, TypeOK, bounds
<1>13. QED
  BY <1>1, <1>2, <1>3, <1>5, <1>6, <1>8, <1>9, <1>10, <1>11, <1>12, WorkerInv

(* A worker's save is done, or one of its writes has failed. *)
LEMMA WorkerSettlesInv ==
  ASSUME EvaluationInv, NEW w \in Worker, ProgressWritten(w) \/ FileFault(w)
  PROVE  EvaluationInv'
<1>1. w # Main /\ w \in Flow
  BY Flows
<1>2. PICK outcome \in {"value", "error"}, pause \in Nat :
        /\ Settle(w, outcome, pause)
        /\ outcome = "value" => job[w].stage = "overwrite"
  <2>1. PauseAfterError \in Nat
    BY PoolAssumption DEF PauseAfterError
  <2>2. QED
    BY <1>1, <2>1, PoolAssumption DEF ProgressWritten, FileFault, Resolve, Reject
<1>3. /\ JobsAfterPool(w) /\ job[w].stage \notin {"none", "judge"}
      /\ UNCHANGED <<mode, turn, evals, summary, progress, judged, failed, runs, judgeFaults, crashes>>
      /\ file' = file \/ file' = Overwrite(job[w].snapshot)
      /\ fileFaults' = fileFaults \/ (fileFaults < MaxFileFaults /\ fileFaults' = fileFaults + 1)
  BY <1>1 DEF ProgressWritten, FileFault, counters, bounds
<1>4. mode = "pass"
  BY <1>3, BusyFlow
<1>5. /\ PoolInv' /\ phase' = "active" /\ tasks' = tasks
      /\ results' = [results EXCEPT ![index[w]] = outcome]
      /\ job' \in [Flow -> Job]
      /\ \A v \in Worker : job'[v].stage # "none" <=> index'[v] # 0
      /\ \A v \in Flow : job'[v].snapshot = {} \/ job'[v].snapshot = job[v].snapshot
      /\ Others(w) /\ Goes(w) /\ job'[w].stage \in {"none", "judge"}
  BY <1>2, <1>3, GoStep
<1>6. Counts(w)
  BY <1>3 DEF Counts
<1>7. ASSUME NEW r, r = ResultOf(w), outcome = "value"
      PROVE  Recorded(r)'
  <2>1. Recorded(r)
    BY <1>2, <1>4, <1>7 DEF EvaluationInv, JudgedFiled, InPass
  <2>2. QED
    BY <1>3, <2>1 DEF Recorded, Filed, Entered, Evaluator
<1>8. JudgedFiled'
  BY <1>3, <1>4, <1>5, <1>6, <1>7, JudgedFiledStep
<1>9. /\ file' \in [kind : {"none", "empty", "ok", "mixed"}, entries : SUBSET Entry]
      /\ Backed(file'.entries)
  <2>1. CASE file' = file
    <3>1. evals' = evals
      BY <1>3
    <3>2. QED
      BY <2>1, <3>1 DEF EvaluationInv, TypeOK, EntriesBacked, Backed
  <2>2. CASE file' = Overwrite(job[w].snapshot)
    BY <1>1, <2>2, OverwriteStep
  <2>3. QED
    BY <1>3, <2>1, <2>2
<1>10. fileFaults' \in 0..MaxFileFaults
  <2>1. fileFaults \in 0..MaxFileFaults /\ MaxFileFaults \in Nat
    BY EvaluationAssumption DEF EvaluationInv, TypeOK
  <2>2. QED
    BY <1>3, <2>1
<1>11. /\ evals' \subseteq [result : Result, evaluator : ToSet(Evaluators), whole : BOOLEAN]
       /\ judgeFaults' \in 0..MaxJudgeFaults /\ progress' \subseteq Entry
       /\ \A f \in evals : f.whole => f \in evals'
       /\ \A e \in progress' : e \in progress
  BY <1>3 DEF EvaluationInv, TypeOK
<1>12. UNCHANGED <<mode, turn, tasks, summary, runs, crashes>> /\ job'[w].stage \in {"none", "judge"}
  BY <1>3, <1>5
<1>13. QED
  BY <1>4, <1>5, <1>6, <1>8, <1>9, <1>10, <1>11, <1>12, WorkerInv

(* A worker that wakes claims a result or leaves. *)
LEMMA WakeWorkerInv ==
  ASSUME EvaluationInv, NEW w \in Worker, WakeWorker(w)
  PROVE  EvaluationInv'
<1>1. /\ Wake(w) /\ JobsAfterPool(w)
      /\ UNCHANGED <<mode, turn, evals, file, summary, progress, judged, failed, bounds>>
  BY DEF WakeWorker, counters
<1>2. PoolInv'
  BY <1>1, WakeInv DEF EvaluationInv
<1>3. /\ phase = "active" /\ index[w] = 0 /\ phase' = "active" /\ tasks' = tasks /\ results' = results
      /\ Moves(w)
  BY <1>1, WakeStep DEF EvaluationInv
<1>4. mode = "pass" /\ job[w].stage = "none"
  BY <1>3 DEF EvaluationInv, PassOfEvaluator, TypeOK
<1>5. /\ job' \in [Flow -> Job]
      /\ \A v \in Worker : job'[v].stage # "none" <=> index'[v] # 0
      /\ \A v \in Flow : job'[v].snapshot = {} \/ job'[v].snapshot = job[v].snapshot
      /\ Others(w) /\ Goes(w)
  BY <1>1, <1>2, <1>3, AfterPool
<1>6. Counts(w) /\ job'[w].stage \in {"none", "judge"}
  BY <1>1, <1>4, <1>5 DEF Counts, Goes
<1>7. JudgedFiled'
  BY <1>1, <1>3, <1>4, <1>5, <1>6, JudgedFiledStep
<1>8. Backed(file'.entries)
  <2>1. UNCHANGED <<file, evals>>
    BY <1>1
  <2>2. QED
    BY <2>1 DEF EvaluationInv, EntriesBacked, Backed
<1>9. /\ evals' \subseteq [result : Result, evaluator : ToSet(Evaluators), whole : BOOLEAN]
      /\ file' \in [kind : {"none", "empty", "ok", "mixed"}, entries : SUBSET Entry]
      /\ progress' \subseteq Entry
      /\ judgeFaults' \in 0..MaxJudgeFaults /\ fileFaults' \in 0..MaxFileFaults
      /\ \A f \in evals : f.whole => f \in evals'
      /\ \A e \in progress' : e \in progress
      /\ UNCHANGED <<mode, turn, summary, runs, crashes>>
  BY <1>1 DEF EvaluationInv, TypeOK, bounds
<1>10. QED
  BY <1>2, <1>3, <1>4, <1>5, <1>6, <1>7, <1>8, <1>9, WorkerInv

(* A write of the main flow fails and ends the command. *)
LEMMA MainFaultInv == ASSUME EvaluationInv, FileFault(Main) PROVE EvaluationInv'
<1>1. fileFaults' \in 0..MaxFileFaults
  <2>1. fileFaults \in 0..MaxFileFaults /\ MaxFileFaults \in Nat
    BY BoundsTyped DEF EvaluationInv
  <2>2. fileFaults < MaxFileFaults /\ fileFaults' = fileFaults + 1
    BY DEF FileFault
  <2>3. QED
    BY <2>1, <2>2
<1>2. QED
  BY <1>1, ProcessEndsInv DEF FileFault, EvaluationInv, TypeOK

(* A step that changes nothing. *)
LEMMA EvaluationStutter == ASSUME EvaluationInv, UNCHANGED vars PROVE EvaluationInv'
<1>1. UNCHANGED <<poolVars, mode, turn, evals, file, summary, progress, job, judged, failed, bounds>>
  BY DEF vars, counters
<1> USE DEF EvaluationInv
<1>2. PoolInv'
  BY <1>1, StutterInv
<1>3. Counted' = Counted /\ Evaluator' = Evaluator
  BY <1>1 DEF Counted, Evaluator
<1>4. TypeOK'
  BY <1>1, <1>2, <1>3 DEF TypeOK, PoolInv, poolVars, bounds
<1>5. PassOfEvaluator' /\ EntriesBacked' /\ ClosingSaved'
  BY <1>1 DEF PassOfEvaluator, EntriesBacked, Backed, ClosingSaved, poolVars
<1>6. CountedOnce'
  BY <1>1, <1>3 DEF CountedOnce, Done, ResultOf, InPass, poolVars
<1>7. JudgedFiled'
  BY <1>1, <1>3 DEF JudgedFiled, Recorded, Entered, Filed, ResultOf, InPass, poolVars
<1>8. QED
  BY <1>2, <1>4, <1>5, <1>6, <1>7

(* EvaluationInv is inductive. *)
LEMMA EvaluationStep == EvaluationInv /\ [Next]_vars => EvaluationInv'
<1> SUFFICES ASSUME EvaluationInv, [Next]_vars PROVE EvaluationInv'
  OBVIOUS
<1>1. CASE StartRun
  BY <1>1, StartRunInv
<1>2. CASE BeginPass
  BY <1>2, BeginPassInv
<1>3. CASE PoolReturns
  BY <1>3, PoolReturnsInv
<1>4. CASE ClosePass
  BY <1>4, ClosePassInv
<1>5. CASE SummaryWritten
  BY <1>5, SummaryWrittenInv
<1>6. CASE Crash
  BY <1>6, CrashInv
<1>7. ASSUME NEW w \in Flow, FlowStep(w) PROVE EvaluationInv'
  <2>1. CASE TakeSnapshot(w) \/ TruncateProgress(w)
    BY <2>1, SaveStepInv
  <2>2. CASE w = Main
    <3>1. Main \notin Worker
      BY Flows
    <3>2. TakeSnapshot(Main) \/ TruncateProgress(Main) \/ ProgressWritten(Main) \/ FileFault(Main)
      BY <1>7, <2>2, <3>1 DEF FlowStep, JudgeAnswers, AttemptFails, OpenEvaluation,
                              EvaluationWritten, WakeWorker
    <3>3. QED
      BY <2>1, <2>2, <3>2, MainWrittenInv, MainFaultInv
  <2>3. CASE w \in Worker
    <3>1. CASE JudgeAnswers(w)
      BY <2>3, <3>1, JudgeAnswersInv
    <3>2. CASE AttemptFails(w)
      BY <2>3, <3>2, AttemptFailsInv
    <3>3. CASE OpenEvaluation(w)
      BY <2>3, <3>3, OpenEvaluationInv
    <3>4. CASE EvaluationWritten(w)
      BY <2>3, <3>4, EvaluationWrittenInv
    <3>5. CASE ProgressWritten(w) \/ FileFault(w)
      BY <2>3, <3>5, WorkerSettlesInv
    <3>6. CASE WakeWorker(w)
      BY <2>3, <3>6, WakeWorkerInv
    <3>7. QED
      BY <1>7, <2>1, <3>1, <3>2, <3>3, <3>4, <3>5, <3>6 DEF FlowStep
  <2>4. QED
    BY <2>2, <2>3, Flows
<1>8. CASE UNCHANGED vars
  BY <1>8, EvaluationStutter
<1>9. QED
  BY <1>1, <1>2, <1>3, <1>4, <1>5, <1>6, <1>7, <1>8 DEF Next

-----------------------------------------------------------------------------
(* The inductive invariant holds throughout: the pool's own invariant, what *)
(* the counters count, that entries are backed by files, and that the save  *)
(* which closes a pass has progress.json to itself.                         *)
THEOREM EvaluationInvariant == Safety => []EvaluationInv
BY EvaluationInit, EvaluationStep, PTL DEF Safety

(* progress.json never promises an evaluation that is not there, in         *)
(* whatever order workers save and wherever the process dies.               *)
THEOREM ProgressBacked == Safety => []ProgressIsBacked
<1>1. EvaluationInv => ProgressIsBacked
  BY DEF EvaluationInv, EntriesBacked, ProgressIsBacked
<1>2. QED
  BY <1>1, EvaluationInvariant, PTL

(* A worker gets a result when a pass begins, or in going round its loop.   *)
LEMMA ClaimStep ==
  ASSUME EvaluationInv, [Next]_vars, NEW w \in Worker, index'[w] # 0,
         index[w] # index'[w] \/ phase # "active"
  PROVE  \/ BeginPass
         \/ /\ mode = "pass" /\ phase = "active" /\ turn' = turn /\ tasks' = tasks
            /\ \E v \in Worker : Moves(v)
<1> USE DEF EvaluationInv
<1>1. index[w] # 0 => phase = "active"
  BY BusyFlow DEF TypeOK
<1>2. CASE index' = index
  BY <1>1, <1>2
<1>3. CASE StartRun \/ PoolReturns \/ ClosePass \/ SummaryWritten \/ UNCHANGED vars
  BY <1>2, <1>3 DEF StartRun, PoolReturns, Return, ClosePass, SummaryWritten, vars, poolVars
<1>4. CASE Crash
  BY <1>4 DEF Crash, ProcessEnds
<1>5. ASSUME NEW v \in Worker, turn' = turn, NEW outcome, NEW pause,
             Settle(v, outcome, pause)
      PROVE  /\ mode = "pass" /\ phase = "active" /\ turn' = turn /\ tasks' = tasks
             /\ Moves(v)
  BY <1>5, SettleStep DEF PassOfEvaluator
<1>6. ASSUME NEW v \in Flow, FlowStep(v), index' # index
      PROVE  /\ mode = "pass" /\ phase = "active" /\ turn' = turn /\ tasks' = tasks
             /\ v \in Worker /\ Moves(v)
  <2>1. CASE JudgeAnswers(v) \/ OpenEvaluation(v) \/ TakeSnapshot(v) \/ TruncateProgress(v)
    BY <1>6, <2>1 DEF JudgeAnswers, OpenEvaluation, TakeSnapshot, TruncateProgress, poolVars
  <2>2. CASE AttemptFails(v)
    <3>1. v \in Worker /\ turn' = turn /\ Resolve(v)
      BY <1>6, <2>2 DEF AttemptFails, SaveIfDue, poolVars
    <3>2. QED
      BY <1>5, <3>1 DEF Resolve
  <2>3. CASE EvaluationWritten(v)
    <3>1. v \in Worker /\ turn' = turn /\ Resolve(v)
      BY <1>6, <2>3 DEF EvaluationWritten, SaveIfDue, poolVars
    <3>2. QED
      BY <1>5, <3>1 DEF Resolve
  <2>4. CASE ProgressWritten(v)
    <3>1. v # Main /\ turn' = turn /\ Resolve(v)
      BY <1>6, <2>4 DEF ProgressWritten, poolVars
    <3>2. QED
      BY <1>5, <3>1, Flows DEF Resolve
  <2>5. CASE FileFault(v) /\ v # Main
    <3>1. turn' = turn /\ Reject(v)
      BY <2>5 DEF FileFault
    <3>2. QED
      BY <1>5, <2>5, <3>1, Flows DEF Reject
  <2>6. CASE FileFault(v) /\ v = Main
    <3>1. \A u \in Worker : index'[u] = 0
      BY <2>6 DEF FileFault, ProcessEnds
    <3>2. QED
      BY <3>1
  <2>7. CASE WakeWorker(v)
    BY <2>7, WakeStep DEF WakeWorker, PassOfEvaluator
  <2>8. QED
    BY <1>6, <2>1, <2>2, <2>3, <2>4, <2>5, <2>6, <2>7 DEF FlowStep
<1>7. QED
  BY <1>2, <1>3, <1>4, <1>6 DEF Next

(* No evaluator model is asked again about a result it has judged: a result *)
(* that any worker starts on has no whole file by the evaluator.            *)
THEOREM JudgingNotRepeated == Safety => NoRepeatedJudging
<1>1. ASSUME EvaluationInv, EvaluationInv', [Next]_vars, NEW w \in Worker, index'[w] # 0,
             index[w] # index'[w] \/ phase # "active"
      PROVE  [result |-> tasks'[index'[w]], evaluator |-> Evaluators[turn'], whole |-> TRUE]
               \notin evals
  <2>1. CASE BeginPass
    <3>1. PICK pending \in Batches :
            /\ Lists(ResultOrder, Pending, pending)
            /\ IF pending = << >> THEN UNCHANGED poolVars
               ELSE Call(pending) /\ turn' = turn
      BY <2>1 DEF BeginPass
    <3>2. pending # << >>
      <4>1. mode # "pass"
        BY <2>1 DEF BeginPass
      <4>2. QED
        BY <1>1, <3>1, <4>1, IdleWorkers DEF poolVars
    <3>3. tasks' = pending /\ turn' = turn
      BY <3>1, <3>2 DEF Call
    <3>4. index'[w] \in DOMAIN pending
      BY <1>1, <3>3, PoolAssumption DEF EvaluationInv, PoolInv, PoolTypeOK
    <3>5. ~IsEvaluationCompleted(pending[index'[w]], Evaluator)
      BY <3>1, <3>4 DEF Lists, Pending
    <3>6. QED
      BY <3>3, <3>5 DEF IsEvaluationCompleted, Evaluator
  <2>2. ASSUME NEW v \in Worker, mode = "pass", phase = "active", turn' = turn, tasks' = tasks,
               Moves(v)
        PROVE  [result |-> tasks'[index'[w]], evaluator |-> Evaluators[turn'], whole |-> TRUE]
                 \notin evals
    <3>1. taskIndex \in Nat /\ Len(tasks) \in Nat /\ taskIndex <= Len(tasks)
          /\ index \in [Worker -> 0..Len(tasks)]
      BY <1>1 DEF EvaluationInv, PoolInv, PoolTypeOK
    <3>2. index'[w] = taskIndex + 1 /\ taskIndex + 1 \in 1..Len(tasks)
      BY <1>1, <2>2, <3>1 DEF Moves, MoreTasks
    <3>3. \A i, k \in 1..Len(tasks) : tasks[i] = tasks[k] => i = k
      <4>1. tasks \in Seq(Task) /\ IsInjective(tasks)
        BY <1>1 DEF EvaluationInv, PassOfEvaluator, PoolInv, PoolTypeOK
      <4>2. QED
        BY <4>1 DEF IsInjective
    <3>4. tasks[taskIndex + 1] \notin judged
      <4>1. judged \subseteq {tasks[i] : i \in 1..taskIndex}
        BY <1>1, <2>2 DEF EvaluationInv, CountedOnce, InPass
      <4>2. \A i \in 1..taskIndex : i \in 1..Len(tasks) /\ i # taskIndex + 1
        BY <3>1
      <4>3. \A i \in 1..taskIndex : tasks[i] # tasks[taskIndex + 1]
        BY <3>2, <3>3, <4>2
      <4>4. QED
        BY <4>1, <4>3
    <3>5. ~Filed(tasks[taskIndex + 1])
      BY <1>1, <2>2, <3>2, <3>4 DEF EvaluationInv, JudgedFiled, InPass
    <3>6. QED
      BY <2>2, <3>2, <3>5 DEF Filed, Evaluator
  <2>3. QED
    BY <1>1, <2>1, <2>2, ClaimStep
<1>2. EvaluationInv /\ EvaluationInv' /\ [Next]_vars
      => [\A w \in Worker : index'[w] # 0 /\ (index[w] # index'[w] \/ phase # "active") =>
            [result |-> tasks'[index'[w]], evaluator |-> Evaluators[turn'], whole |-> TRUE]
              \notin evals]_vars
  BY <1>1
<1>3. QED
  BY <1>2, EvaluationInvariant, PTL DEF Safety, NoRepeatedJudging

(* Once the pool has returned, every result has its outcome, and one whose  *)
(* promise resolved is recorded.                                           *)
LEMMA ReturnedRecorded ==
  ASSUME EvaluationInv, InPass, phase = "returned", NEW i \in 1..Len(tasks)
  PROVE  results[i] = "error" \/ (results[i] = "value" /\ Recorded(tasks[i]))
<1>1. results[i] # "unset"
  BY AllLeftAllSettled DEF EvaluationInv, PoolInv
<1>2. results[i] \in {"value", "error"}
  BY <1>1 DEF EvaluationInv, PoolInv, PoolTypeOK, Outcome
<1>3. QED
  BY <1>2 DEF EvaluationInv, JudgedFiled

(* A pass ends with the last step of the main flow in it.                   *)
LEMMA ClosingStep ==
  ASSUME EvaluationInv, [Next]_vars, PassClosed
  PROVE  mode = "closing" /\ (SummaryWritten \/ ProgressWritten(Main))
<1>1. fileFaults \in Nat /\ crashes \in Nat
  BY EvaluationAssumption DEF EvaluationInv, TypeOK
<1>2. mode \in {"pass", "closing"} /\ mode' \in {"between", "down"}
  BY DEF PassClosed
<1>3. ~StartRun /\ ~BeginPass /\ ~PoolReturns /\ ~ClosePass /\ ~Crash /\ ~UNCHANGED vars
  BY <1>1, <1>2 DEF StartRun, BeginPass, PoolReturns, ClosePass, Crash, vars, PassClosed
<1>4. ASSUME NEW w \in Flow, FlowStep(w)
      PROVE  w = Main /\ ProgressWritten(Main)
  <2>1. mode' # mode
    BY <1>2
  <2>2. ~JudgeAnswers(w) /\ ~AttemptFails(w) /\ ~OpenEvaluation(w) /\ ~EvaluationWritten(w)
    BY <2>1 DEF JudgeAnswers, AttemptFails, OpenEvaluation, EvaluationWritten
  <2>3. ~TakeSnapshot(w) /\ ~TruncateProgress(w) /\ ~WakeWorker(w)
    BY <2>1 DEF TakeSnapshot, TruncateProgress, WakeWorker
  <2>4. ~FileFault(w)
    <3>1. fileFaults' # fileFaults + 1
      BY <1>1 DEF PassClosed
    <3>2. QED
      BY <3>1 DEF FileFault
  <2>5. ProgressWritten(w)
    BY <1>4, <2>2, <2>3, <2>4 DEF FlowStep
  <2>6. w = Main
    BY <2>1, <2>5 DEF ProgressWritten
  <2>7. QED
    BY <2>5, <2>6
<1>5. SummaryWritten \/ ProgressWritten(Main)
  BY <1>3, <1>4 DEF Next
<1>6. job[Main].stage # "none"
  BY <1>5 DEF SummaryWritten, ProgressWritten
<1>7. QED
  BY <1>5, <1>6 DEF EvaluationInv, PassOfEvaluator

(* When a pass has been closed progress.json is readable and accounts for   *)
(* every result of it whose files could be written.                         *)
THEOREM ClosedPassRecorded == Safety => ClosedPassIsRecorded
<1>1. ASSUME EvaluationInv, [Next]_vars, PassClosed
      PROVE  /\ file'.kind = "ok"
             /\ \A i \in 1..Len(tasks) :
                  \/ results[i] = "error"
                  \/ \E ok \in BOOLEAN :
                       [result |-> tasks[i], evaluator |-> Evaluator, ok |-> ok] \in file'.entries
  <2>1. mode = "closing" /\ (SummaryWritten \/ ProgressWritten(Main))
    BY <1>1, ClosingStep
  <2>2. file' = [kind |-> "ok", entries |-> progress]
    <3>1. CASE SummaryWritten
      BY <1>1, <2>1, <3>1 DEF SummaryWritten, EvaluationInv, ClosingSaved
    <3>2. CASE ProgressWritten(Main)
      BY <1>1, <2>1, <3>2 DEF ProgressWritten, Overwrite, EvaluationInv, ClosingSaved
    <3>3. QED
      BY <2>1, <3>1, <3>2
  <2>3. ASSUME NEW i \in 1..Len(tasks)
        PROVE  results[i] = "error" \/ Entered(tasks[i])
    BY <1>1, <2>1, ReturnedRecorded DEF PassClosed, InPass, Recorded
  <2>4. QED
    BY <2>2, <2>3 DEF Entered
<1>2. EvaluationInv /\ [Next]_vars
      => [PassClosed => /\ file'.kind = "ok"
                        /\ \A i \in 1..Len(tasks) :
                             \/ results[i] = "error"
                             \/ \E ok \in BOOLEAN :
                                  [result |-> tasks[i], evaluator |-> Evaluator, ok |-> ok]
                                    \in file'.entries]_vars
  BY <1>1
<1>3. QED
  BY <1>2, EvaluationInvariant, PTL DEF Safety, ClosedPassIsRecorded

(* The summary of a pass lists the evaluations the pass left on disk, and   *)
(* besides them only judgements whose own file could not be written.        *)
THEOREM SummaryIsTrue == Safety => SummaryMatchesFiles
<1>1. ASSUME EvaluationInv, SummaryWritten, NEW i \in 1..Len(tasks)
      PROVE  LET listed == [result |-> tasks[i], evaluator |-> Evaluator] \in summary'
                 filed == [result |-> tasks[i], evaluator |-> Evaluator, whole |-> TRUE] \in evals
             IN  (filed => listed) /\ (listed => filed \/ results[i] = "error")
  <2>1. /\ summary' = {[result |-> r, evaluator |-> Evaluator] : r \in judged}
        /\ job[Main].stage = "summary"
    BY <1>1 DEF SummaryWritten
  <2>2. mode = "closing" /\ phase = "returned" /\ InPass
    BY <1>1, <2>1 DEF EvaluationInv, PassOfEvaluator, ClosingSaved, InPass
  <2>3. [result |-> tasks[i], evaluator |-> Evaluator] \in summary' <=> tasks[i] \in judged
    BY <2>1
  <2>4. Filed(tasks[i]) => tasks[i] \in judged
    BY <1>1, <2>2 DEF EvaluationInv, JudgedFiled
  <2>5. tasks[i] \in judged => Filed(tasks[i]) \/ results[i] = "error"
    BY <1>1, <2>2, ReturnedRecorded DEF Recorded
  <2>6. QED
    BY <2>3, <2>4, <2>5 DEF Filed
<1>2. EvaluationInv /\ [Next]_vars
      => [SummaryWritten =>
            \A i \in 1..Len(tasks) :
              LET listed == [result |-> tasks[i], evaluator |-> Evaluator] \in summary'
                  filed == [result |-> tasks[i], evaluator |-> Evaluator, whole |-> TRUE] \in evals
              IN  (filed => listed) /\ (listed => filed \/ results[i] = "error")]_vars
  BY <1>1
<1>3. QED
  BY <1>2, EvaluationInvariant, PTL DEF Safety, SummaryMatchesFiles

-----------------------------------------------------------------------------
(* Passes as resumable work.                                               *)

(* Two busy workers are busy with different results. *)
LEMMA ResultsDiffer ==
  ASSUME EvaluationInv, NEW v \in Worker, NEW w \in Worker, job[v].stage # "none",
         job[w].stage # "none", ResultOf(v) = ResultOf(w)
  PROVE  v = w
<1>1. index[v] \in 1..Len(tasks) /\ index[w] \in 1..Len(tasks) /\ tasks[index[v]] = tasks[index[w]]
  BY BusyFlow
<1>2. IsInjective(tasks) /\ DOMAIN tasks = 1..Len(tasks)
  BY DEF EvaluationInv, PassOfEvaluator, PoolInv, PoolTypeOK
<1>3. index[v] = index[w] /\ index[v] # 0
  <2>1. index[v] = index[w]
    BY <1>1, <1>2, Zenon DEF IsInjective
  <2>2. QED
    BY <1>1, <2>1
<1>4. QED
  BY <1>3 DEF EvaluationInv, PoolInv, NoSharedTask

(* A busy worker's result is none that waits to be claimed. *)
LEMMA BusyNotWaiting ==
  ASSUME EvaluationInv, NEW w \in Worker, job[w].stage # "none",
         NEW i \in 1..Len(tasks), i > taskIndex
  PROVE  tasks[i] # ResultOf(w)
<1>1. /\ index[w] \in 1..taskIndex /\ index[w] \in 1..Len(tasks)
      /\ taskIndex \in Nat /\ Len(tasks) \in Nat /\ ResultOf(w) = tasks[index[w]]
  BY BusyFlow
<1>2. i # index[w]
  BY <1>1
<1>3. IsInjective(tasks) /\ DOMAIN tasks = 1..Len(tasks)
  BY DEF EvaluationInv, PassOfEvaluator, PoolInv, PoolTypeOK
<1>4. tasks[i] # tasks[index[w]]
  BY <1>1, <1>2, <1>3, Zenon DEF IsInjective
<1>5. QED
  BY <1>1, <1>4

(* What is on its way is not whole. *)
LEMMA WorkedOnNotWhole == ASSUME EvaluationsClaimed, NEW k, WorkedOn(k) PROVE ~HasWhole(k)
<1>1. PICK w \in Worker :
        job[w].stage \in {"judge", "open", "write"} /\ <<ResultOf(w), Evaluator>> = k
  BY DEF WorkedOn
<1>2. CASE job[w].stage = "write"
  BY <1>1, <1>2 DEF EvaluationsClaimed
<1>3. CASE job[w].stage \in {"judge", "open"}
  <2>1. ~HasFile(k)
    BY <1>1, <1>3 DEF EvaluationsClaimed
  <2>2. QED
    BY <2>1 DEF HasFile
<1>4. QED
  BY <1>1, <1>2, <1>3

(* No evaluation a worker is on the way to is there already. *)
LEMMA NoneWorkedOnWhole == EvaluationsClaimed => (\A k : WorkedOn(k) => ~HasWhole(k))
BY WorkedOnNotWhole

(* The file of one evaluation stays as it is. *)
FileKept(k) == (HasFile(k)' <=> HasFile(k)) /\ (HasWhole(k)' <=> HasWhole(k))

(* One evaluation moves as work may, if its file stays as it is and nobody  *)
(* begins with it unless it has none.                                      *)
LEMMA EvaluationMoves ==
  ASSUME NEW k \in Result \X ToSet(Evaluators), EvaluationsClaimed, FileKept(k),
         WorkedOn(k)' => WorkedOn(k) \/ ~HasFile(k)
  PROVE  <<EvaluationProgress[k], EvaluationProgress'[k]>> \in Evaluations!Moves
<1>1. (WorkedOn(k) => ~HasWhole(k)) /\ (HasWhole(k) => HasFile(k))
  BY WorkedOnNotWhole DEF HasFile
<1>2. (HasFile(k)' <=> HasFile(k)) /\ (HasWhole(k)' <=> HasWhole(k))
  BY DEF FileKept
<1>3. EvaluationProgress[k] = IF WorkedOn(k) THEN IF HasFile(k) THEN "writing" ELSE "busy"
                              ELSE IF HasWhole(k) THEN "whole"
                              ELSE IF HasFile(k) THEN "torn" ELSE "absent"
  BY DEF EvaluationProgress
<1>4. EvaluationProgress'[k] = IF WorkedOn(k)' THEN IF HasFile(k)' THEN "writing" ELSE "busy"
                               ELSE IF HasWhole(k)' THEN "whole"
                               ELSE IF HasFile(k)' THEN "torn" ELSE "absent"
  BY DEF EvaluationProgress
<1>5. CASE WorkedOn(k) /\ WorkedOn(k)'
  <2>1. EvaluationProgress'[k] = EvaluationProgress[k]
        /\ EvaluationProgress[k] \in {"writing", "busy"}
    BY <1>2, <1>3, <1>4, <1>5
  <2>2. QED
    BY <2>1 DEF Evaluations!Moves, Evaluations!Status
<1>6. CASE WorkedOn(k) /\ ~WorkedOn(k)'
  <2>1. \/ EvaluationProgress[k] = "writing" /\ EvaluationProgress'[k] = "torn"
        \/ EvaluationProgress[k] = "busy" /\ EvaluationProgress'[k] = "absent"
    BY <1>1, <1>2, <1>3, <1>4, <1>6
  <2>2. QED
    BY <2>1 DEF Evaluations!Moves
<1>7. CASE ~WorkedOn(k) /\ WorkedOn(k)'
  <2>1. EvaluationProgress[k] = "absent" /\ EvaluationProgress'[k] = "busy"
    BY <1>1, <1>2, <1>3, <1>4, <1>7
  <2>2. QED
    BY <2>1 DEF Evaluations!Moves
<1>8. CASE ~WorkedOn(k) /\ ~WorkedOn(k)'
  <2>1. EvaluationProgress'[k] = EvaluationProgress[k]
        /\ EvaluationProgress[k] \in {"whole", "torn", "absent"}
    BY <1>2, <1>3, <1>4, <1>8
  <2>2. QED
    BY <2>1 DEF Evaluations!Moves, Evaluations!Status
<1>9. QED
  BY <1>5, <1>6, <1>7, <1>8

(* Evaluations that move as work may are a step of the abstract             *)
(* specification.                                                          *)
LEMMA WorkIfMoves ==
  ASSUME \A k \in Result \X ToSet(Evaluators) :
           <<EvaluationProgress[k], EvaluationProgress'[k]>> \in Evaluations!Moves
  PROVE  Evaluations!Work
<1>1. EvaluationProgress' = [k \in Result \X ToSet(Evaluators) |-> EvaluationProgress'[k]]
  BY DEF EvaluationProgress
<1>2. \A k \in Result \X ToSet(Evaluators) : EvaluationProgress'[k] \in Evaluations!Status
  BY DEF EvaluationProgress, Evaluations!Status
<1>3. QED
  BY <1>1, <1>2 DEF Evaluations!Work

(* Outside a pass no worker has a job, before and after a step. *)
LEMMA NobodyWorks == EvaluationInv => (mode # "pass" => \A w \in Worker : job[w].stage = "none")
BY IdleWorkers

(* A step that leaves the evaluation files alone and after which no pass    *)
(* runs: what was on its way is given up.                                  *)
LEMMA WorkStops ==
  ASSUME EvaluationInv', EvaluationsClaimed, evals' = evals, mode' # "pass"
  PROVE  EvaluationsClaimed' /\ Evaluations!Work
<1>1. \A w \in Worker : job'[w].stage = "none"
  <2>1. EvaluationInv' => (mode # "pass" => \A w \in Worker : job[w].stage = "none")'
    BY NobodyWorks, PTL
  <2>2. QED
    BY <2>1
<1>2. EvaluationsClaimed'
  BY <1>1 DEF EvaluationsClaimed
<1>3. ASSUME NEW k \in Result \X ToSet(Evaluators)
      PROVE  <<EvaluationProgress[k], EvaluationProgress'[k]>> \in Evaluations!Moves
  <2>1. FileKept(k)
    BY DEF FileKept, HasFile, HasWhole
  <2>2. ~WorkedOn(k)'
    BY <1>1 DEF WorkedOn
  <2>3. QED
    BY <2>1, <2>2, EvaluationMoves
<1>4. QED
  BY <1>2, <1>3, WorkIfMoves

(* A step that leaves files, jobs and results alone. *)
LEMMA NothingBegins ==
  ASSUME EvaluationsClaimed, UNCHANGED <<evals, job, tasks, index, taskIndex, turn, mode>>
  PROVE  EvaluationsClaimed' /\ Evaluations!Work
<1>1. /\ \A w \in Worker : ResultOf(w)' = ResultOf(w)
      /\ Evaluator' = Evaluator
  BY DEF ResultOf, Evaluator
<1>2. EvaluationsClaimed'
  BY <1>1 DEF EvaluationsClaimed, HasFile, HasWhole
<1>3. ASSUME NEW k \in Result \X ToSet(Evaluators)
      PROVE  <<EvaluationProgress[k], EvaluationProgress'[k]>> \in Evaluations!Moves
  <2>1. FileKept(k)
    BY DEF FileKept, HasFile, HasWhole
  <2>2. WorkedOn(k)' => WorkedOn(k)
    BY <1>1 DEF WorkedOn
  <2>3. QED
    BY <2>1, <2>2, EvaluationMoves
<1>4. QED
  BY <1>2, <1>3, WorkIfMoves

(* Worker w holds on to its result, and is on its way only if it was. *)
Holds(w) ==
  /\ index'[w] = index[w] /\ taskIndex' = taskIndex
  /\ job'[w].stage \in {"judge", "open", "write"} => job[w].stage \in {"judge", "open", "write"}

(* The evaluation a busy worker is at. *)
Own(w, k) == job[w].stage # "none" /\ k[1] = ResultOf(w) /\ k[2] = Evaluator

(* A step of worker w, with the file of no evaluation but its own touched. *)
OwnStep(w) ==
  /\ mode = "pass" /\ mode' = mode /\ turn' = turn /\ tasks' = tasks
  /\ Others(w) /\ (Holds(w) \/ Goes(w))
  /\ \A k : Own(w, k) \/ FileKept(k)

(* What waits has no file, before and after. *)
LEMMA WaitingUnfiled ==
  ASSUME EvaluationInv, EvaluationsClaimed, NEW w \in Worker, OwnStep(w),
         NEW i \in 1..Len(tasks), i > taskIndex, NEW k, k = <<tasks[i], Evaluator>>
  PROVE  ~HasFile(k) /\ ~HasFile(k)'
<1>1. ~HasFile(k)
  BY DEF EvaluationsClaimed, OwnStep
<1>2. ASSUME Own(w, k) PROVE FALSE
  <2>1. job[w].stage # "none" /\ tasks[i] = ResultOf(w)
    BY <1>2 DEF Own
  <2>2. QED
    BY <2>1, BusyNotWaiting
<1>3. FileKept(k)
  BY <1>2 DEF OwnStep
<1>4. QED
  BY <1>1, <1>3 DEF FileKept

(* The result w judges after it has gone round its loop has no file. *)
LEMMA NextUnfiled ==
  ASSUME EvaluationInv, EvaluationsClaimed, NEW w \in Worker, OwnStep(w), Goes(w),
         job'[w].stage # "none", NEW k, k = <<tasks'[index'[w]], Evaluator'>>
  PROVE  job'[w].stage = "judge" /\ ~HasFile(k) /\ ~HasFile(k)'
<1>1. index'[w] = taskIndex + 1 /\ MoreTasks /\ job'[w].stage = "judge"
  BY DEF Goes
<1>2. taskIndex \in Nat /\ Len(tasks) \in Nat
  BY DEF EvaluationInv, PoolInv, PoolTypeOK
<1>3. taskIndex + 1 \in 1..Len(tasks) /\ taskIndex + 1 > taskIndex
  BY <1>1, <1>2 DEF MoreTasks
<1>4. tasks' = tasks /\ Evaluator' = Evaluator
  BY DEF OwnStep, Evaluator
<1>5. k = <<tasks[taskIndex + 1], Evaluator>>
  BY <1>1, <1>4
<1>6. ~HasFile(k) /\ ~HasFile(k)'
  BY <1>3, <1>5, WaitingUnfiled
<1>7. QED
  BY <1>1, <1>6

(* The other workers keep their evaluations and their files. *)
LEMMA OthersKept ==
  ASSUME EvaluationInv, NEW w \in Worker, OwnStep(w), NEW v \in Worker \ {w},
         job'[v].stage # "none", NEW k, k = <<ResultOf(v)', Evaluator'>>
  PROVE  job'[v] = job[v] /\ k = <<ResultOf(v), Evaluator>> /\ FileKept(k)
<1>1. job[v].stage # "none" /\ job'[v] = job[v] /\ index'[v] = index[v]
  BY DEF OwnStep, Others
<1>2. k = <<ResultOf(v), Evaluator>>
  BY <1>1 DEF OwnStep, ResultOf, Evaluator
<1>3. ASSUME Own(w, k) PROVE FALSE
  <2>1. job[w].stage # "none" /\ ResultOf(v) = ResultOf(w)
    BY <1>2, <1>3 DEF Own
  <2>2. QED
    BY <1>1, <2>1, ResultsDiffer
<1>4. FileKept(k)
  BY <1>3 DEF OwnStep
<1>5. QED
  BY <1>1, <1>2, <1>4

(* Such a step keeps the claims, if it keeps those on w's own evaluation. *)
LEMMA OwnStepClaims ==
  ASSUME EvaluationInv, EvaluationsClaimed, NEW w \in Worker, OwnStep(w),
         \A k : Holds(w) /\ k = <<ResultOf(w)', Evaluator'>> =>
           /\ job'[w].stage \in {"judge", "open"} => ~HasFile(k)'
           /\ job'[w].stage = "write" => HasFile(k)' /\ ~HasWhole(k)'
  PROVE  EvaluationsClaimed'
<1>1. ASSUME NEW v \in Worker, job'[v].stage \in {"judge", "open"},
             NEW k, k = <<ResultOf(v)', Evaluator'>>
      PROVE  ~HasFile(k)'
  <2>1. CASE v # w
    <3>1. job'[v] = job[v] /\ k = <<ResultOf(v), Evaluator>> /\ FileKept(k)
      BY <1>1, <2>1, OthersKept
    <3>2. ~HasFile(k)
      BY <1>1, <3>1 DEF EvaluationsClaimed
    <3>3. QED
      BY <3>1, <3>2 DEF FileKept
  <2>2. CASE v = w /\ Holds(w)
    BY <1>1, <2>2
  <2>3. CASE v = w /\ Goes(w)
    <3>1. k = <<tasks'[index'[w]], Evaluator'>>
      BY <1>1, <2>3 DEF ResultOf
    <3>2. QED
      BY <1>1, <2>3, <3>1, NextUnfiled
  <2>4. QED
    BY <2>1, <2>2, <2>3 DEF OwnStep
<1>2. ASSUME NEW v \in Worker, job'[v].stage = "write", NEW k, k = <<ResultOf(v)', Evaluator'>>
      PROVE  HasFile(k)' /\ ~HasWhole(k)'
  <2>1. CASE v # w
    <3>1. job'[v] = job[v] /\ k = <<ResultOf(v), Evaluator>> /\ FileKept(k)
      BY <1>2, <2>1, OthersKept
    <3>2. HasFile(k) /\ ~HasWhole(k)
      BY <1>2, <3>1 DEF EvaluationsClaimed
    <3>3. QED
      BY <3>1, <3>2 DEF FileKept
  <2>2. CASE v = w /\ Holds(w)
    BY <1>2, <2>2
  <2>3. CASE v = w /\ Goes(w)
    BY <1>2, <2>3 DEF Goes
  <2>4. QED
    BY <2>1, <2>2, <2>3 DEF OwnStep
<1>3. ASSUME NEW i \in 1..Len(tasks'), i > taskIndex', NEW k, k = <<tasks'[i], Evaluator'>>
      PROVE  ~HasFile(k)'
  <2>1. taskIndex \in Nat /\ i \in 1..Len(tasks)
    BY <1>3 DEF EvaluationInv, PoolInv, PoolTypeOK, OwnStep
  <2>2. taskIndex' = taskIndex \/ taskIndex' = taskIndex + 1
    BY DEF OwnStep, Holds, Goes
  <2>3. i > taskIndex
    BY <1>3, <2>1, <2>2
  <2>4. k = <<tasks[i], Evaluator>>
    BY <1>3 DEF OwnStep, Evaluator
  <2>5. QED
    BY <2>1, <2>3, <2>4, WaitingUnfiled
<1>4. QED
  <2>1. (\A v \in Worker : job[v].stage \in {"judge", "open"} => ~HasFile(<<ResultOf(v), Evaluator>>))'
    BY <1>1 DEF HasFile, HasWhole
  <2>2. (\A v \in Worker : job[v].stage = "write" =>
           HasFile(<<ResultOf(v), Evaluator>>) /\ ~HasWhole(<<ResultOf(v), Evaluator>>))'
    BY <1>2 DEF HasFile, HasWhole
  <2>3. (\A i \in 1..Len(tasks) : i > taskIndex => ~HasFile(<<tasks[i], Evaluator>>))'
    BY <1>3 DEF HasFile, HasWhole
  <2>4. QED
    BY <2>1, <2>2, <2>3 DEF EvaluationsClaimed

(* And it moves every evaluation that is not w's own as work may. *)
LEMMA OwnStepMoves ==
  ASSUME EvaluationInv, EvaluationsClaimed, NEW w \in Worker, OwnStep(w),
         NEW k \in Result \X ToSet(Evaluators), FileKept(k)
  PROVE  <<EvaluationProgress[k], EvaluationProgress'[k]>> \in Evaluations!Moves
<1>1. ASSUME WorkedOn(k)' PROVE WorkedOn(k) \/ ~HasFile(k)
  <2>1. PICK v \in Worker : job'[v].stage \in {"judge", "open", "write"}
                            /\ k = <<ResultOf(v)', Evaluator'>>
    BY <1>1 DEF WorkedOn
  <2>2. CASE v # w
    <3>1. job'[v] = job[v] /\ k = <<ResultOf(v), Evaluator>>
      BY <2>1, <2>2, OthersKept
    <3>2. QED
      BY <2>1, <3>1 DEF WorkedOn
  <2>3. CASE v = w /\ Holds(w)
    <3>1. ResultOf(w)' = ResultOf(w) /\ Evaluator' = Evaluator
      BY <2>3 DEF Holds, OwnStep, ResultOf, Evaluator
    <3>2. job[w].stage \in {"judge", "open", "write"}
      BY <2>1, <2>3 DEF Holds
    <3>3. QED
      BY <2>1, <2>3, <3>1, <3>2 DEF WorkedOn
  <2>4. CASE v = w /\ Goes(w)
    <3>1. k = <<tasks'[index'[w]], Evaluator'>>
      BY <2>1, <2>4 DEF ResultOf
    <3>2. QED
      BY <2>1, <2>4, <3>1, NextUnfiled
  <2>5. QED
    BY <2>2, <2>3, <2>4 DEF OwnStep
<1>2. QED
  BY <1>1, EvaluationMoves

(* A step of worker w that leaves the evaluation files alone. *)
LEMMA WorkerMoves ==
  ASSUME EvaluationInv, EvaluationsClaimed, NEW w \in Worker, mode = "pass", evals' = evals,
         UNCHANGED <<mode, turn, tasks>>, Others(w), Holds(w) \/ Goes(w),
         Holds(w) /\ job'[w].stage \in {"judge", "open"} => job[w].stage \in {"judge", "open"},
         Holds(w) => job'[w].stage # "write"
  PROVE  EvaluationsClaimed' /\ Evaluations!Work
<1>1. \A k : FileKept(k)
  BY DEF FileKept, HasFile, HasWhole
<1>2. OwnStep(w)
  BY <1>1 DEF OwnStep
<1>3. ASSUME Holds(w), job'[w].stage \in {"judge", "open"}, NEW k, k = <<ResultOf(w)', Evaluator'>>
      PROVE  ~HasFile(k)'
  <2>1. k = <<ResultOf(w), Evaluator>>
    BY <1>3 DEF Holds, ResultOf, Evaluator
  <2>2. ~HasFile(k)
    BY <1>3, <2>1 DEF EvaluationsClaimed
  <2>3. QED
    BY <1>1, <2>2 DEF FileKept
<1>4. EvaluationsClaimed'
  BY <1>2, <1>3, OwnStepClaims
<1>5. QED
  BY <1>1, <1>2, <1>4, OwnStepMoves, WorkIfMoves

(* A worker goes on with the result it holds. *)
LEMMA WorkerStays ==
  ASSUME EvaluationInv, EvaluationsClaimed, NEW w \in Worker, job[w].stage # "none",
         UNCHANGED <<poolVars, mode, turn, evals>>, \A v \in Flow \ {w} : job'[v] = job[v],
         job'[w].stage # "write",
         job'[w].stage \in {"judge", "open"} => job[w].stage \in {"judge", "open"}
  PROVE  EvaluationsClaimed' /\ Evaluations!Work
<1>1. mode = "pass" /\ UNCHANGED <<tasks, taskIndex, index>>
  BY BusyFlow DEF poolVars
<1>2. Main \notin Worker /\ Main \in Flow /\ Worker \subseteq Flow
  BY Flows
<1>3. Others(w)
  BY <1>1, <1>2 DEF Others
<1>4. Holds(w)
  BY <1>1 DEF Holds
<1>5. QED
  BY <1>1, <1>3, <1>4, WorkerMoves

(* The evaluator answers, or the progress object is turned into text and    *)
(* the file truncated.                                                     *)
LEMMA StagesClaims ==
  ASSUME EvaluationInv, EvaluationsClaimed, NEW w \in Worker,
         JudgeAnswers(w) \/ TakeSnapshot(w) \/ TruncateProgress(w)
  PROVE  EvaluationsClaimed' /\ Evaluations!Work
<1>1. job \in [Flow -> Job] /\ w \in Flow
  BY Flows DEF EvaluationInv, TypeOK
<1>2. CASE JudgeAnswers(w)
  <2>1. /\ job[w].stage = "judge" /\ job' = [job EXCEPT ![w].stage = "open"]
        /\ UNCHANGED <<poolVars, mode, turn, evals>>
    BY <1>2 DEF JudgeAnswers
  <2>2. job'[w].stage = "open" /\ \A v \in Flow \ {w} : job'[v] = job[v]
    BY <1>1, <2>1 DEF Job
  <2>3. QED
    BY <2>1, <2>2, WorkerStays
<1>3. CASE TakeSnapshot(w)
  <2>1. /\ job[w].stage = "mkdir"
        /\ job' = [job EXCEPT ![w].stage = "truncate", ![w].snapshot = progress]
        /\ UNCHANGED <<poolVars, mode, turn, evals>>
    BY <1>3 DEF TakeSnapshot
  <2>2. job'[w].stage = "truncate" /\ \A v \in Flow \ {w} : job'[v] = job[v]
    BY <1>1, <2>1 DEF Job
  <2>3. QED
    BY <2>1, <2>2, WorkerStays
<1>4. CASE TruncateProgress(w)
  <2>1. /\ job[w].stage = "truncate" /\ job' = [job EXCEPT ![w].stage = "overwrite"]
        /\ UNCHANGED <<poolVars, mode, turn, evals>>
    BY <1>4 DEF TruncateProgress
  <2>2. job'[w].stage = "overwrite" /\ \A v \in Flow \ {w} : job'[v] = job[v]
    BY <1>1, <2>1 DEF Job
  <2>3. QED
    BY <2>1, <2>2, WorkerStays
<1>5. QED
  BY <1>2, <1>3, <1>4

(* An attempt fails: w tries again, or gives the result up. *)
LEMMA AttemptFailsClaims ==
  ASSUME EvaluationInv, EvaluationsClaimed, NEW w \in Worker, AttemptFails(w)
  PROVE  EvaluationsClaimed' /\ Evaluations!Work
<1>1. job[w].stage = "judge" /\ UNCHANGED <<mode, turn, evals>>
  BY DEF AttemptFails
<1>2. CASE job[w].attempt < MaxAttempts
  <2>1. job' = [job EXCEPT ![w].attempt = @ + 1] /\ UNCHANGED poolVars
    BY <1>2 DEF AttemptFails
  <2>2. job \in [Flow -> Job] /\ w \in Flow
    BY Flows DEF EvaluationInv, TypeOK
  <2>3. job'[w].stage = "judge" /\ \A v \in Flow \ {w} : job'[v] = job[v]
    BY <1>1, <2>1, <2>2 DEF Job
  <2>4. QED
    BY <1>1, <2>1, <2>3, WorkerStays
<1>3. CASE ~(job[w].attempt < MaxAttempts)
  <2>1. SaveIfDue(w, Counted + 1) /\ mode = "pass"
    BY <1>1, <1>3, BusyFlow DEF AttemptFails
  <2>2. /\ tasks' = tasks /\ Others(w) /\ (Keeps(w) \/ Goes(w))
        /\ job'[w].stage \in {"none", "judge", "mkdir"}
    BY <1>1, <2>1, DueStep
  <2>3. Holds(w) \/ Goes(w)
    BY <2>2 DEF Keeps, Holds
  <2>4. QED
    BY <1>1, <2>1, <2>2, <2>3, WorkerMoves
<1>4. QED
  BY <1>2, <1>3

(* The promise of w settles, or w wakes: it goes round its loop. *)
LEMMA LoopClaims ==
  ASSUME EvaluationInv, EvaluationInv', EvaluationsClaimed, NEW w \in Worker,
         ProgressWritten(w) \/ FileFault(w) \/ WakeWorker(w)
  PROVE  EvaluationsClaimed' /\ Evaluations!Work
<1>1. Main \notin Worker /\ PoolInv /\ PoolInv'
  BY Flows DEF EvaluationInv
<1>2. JobsAfterPool(w) /\ UNCHANGED <<mode, turn, evals>>
  BY <1>1 DEF ProgressWritten, FileFault, WakeWorker
<1>3. phase = "active" /\ tasks' = tasks /\ Moves(w)
  <2>1. CASE ProgressWritten(w)
    <3>1. Settle(w, "value", TaskStartDelay)
      BY <1>1, <2>1 DEF ProgressWritten, Resolve
    <3>2. QED
      BY <1>1, <3>1, SettleStep
  <2>2. CASE FileFault(w)
    <3>1. Settle(w, "error", PauseAfterError)
      BY <1>1, <2>2 DEF FileFault, Reject
    <3>2. QED
      BY <1>1, <3>1, SettleStep
  <2>3. CASE WakeWorker(w)
    <3>1. Wake(w)
      BY <2>3 DEF WakeWorker
    <3>2. QED
      BY <1>1, <3>1, WakeStep
  <2>4. QED
    BY <2>1, <2>2, <2>3
<1>4. mode = "pass"
  BY <1>3 DEF EvaluationInv, PassOfEvaluator
<1>5. Others(w) /\ Goes(w)
  BY <1>1, <1>2, <1>3, AfterPool
<1>6. job'[w].stage \in {"none", "judge"}
  BY <1>5 DEF Goes
<1>7. Holds(w) => job'[w].stage \notin {"judge", "open"}
  <2>1. index[w] \in Nat /\ taskIndex \in Nat
    BY <1>1 DEF PoolInv, PoolTypeOK
  <2>2. QED
    BY <1>5, <2>1 DEF Holds, Goes
<1>8. QED
  BY <1>2, <1>3, <1>4, <1>5, <1>6, <1>7, WorkerMoves

(* The file of a judged result is opened: there was none. *)
LEMMA OpenEvaluationClaims ==
  ASSUME EvaluationInv, EvaluationsClaimed, NEW w \in Worker, OpenEvaluation(w)
  PROVE  EvaluationsClaimed' /\ Evaluations!Work
<1> DEFINE torn == EvalFile(w, FALSE)
<1>1. /\ job[w].stage = "open" /\ evals' = evals \cup {torn}
      /\ job' = [job EXCEPT ![w].stage = "write"]
      /\ UNCHANGED <<poolVars, mode, turn>>
  BY DEF OpenEvaluation
<1>2. mode = "pass" /\ UNCHANGED <<tasks, taskIndex, index>>
  BY <1>1, BusyFlow DEF poolVars
<1>3. job'[w].stage = "write" /\ \A v \in Flow \ {w} : job'[v] = job[v]
  <2>1. job \in [Flow -> Job] /\ w \in Flow
    BY Flows DEF EvaluationInv, TypeOK
  <2>2. QED
    BY <1>1, <2>1 DEF Job
<1>4. Others(w)
  <2>1. Main \notin Worker /\ Main \in Flow /\ Worker \subseteq Flow
    BY Flows
  <2>2. QED
    BY <1>2, <1>3, <2>1 DEF Others
<1>5. Holds(w)
  BY <1>1, <1>2 DEF Holds
<1>6. torn = [result |-> ResultOf(w), evaluator |-> Evaluator, whole |-> FALSE]
  BY DEF EvalFile
<1> HIDE DEF torn
<1>7. ASSUME NEW k, ~Own(w, k) PROVE FileKept(k)
  <2>1. k[1] # ResultOf(w) \/ k[2] # Evaluator
    BY <1>1, <1>7 DEF Own
  <2>2. QED
    BY <1>1, <1>6, <2>1 DEF FileKept, HasFile, HasWhole
<1>8. OwnStep(w)
  BY <1>1, <1>2, <1>4, <1>5, <1>7 DEF OwnStep
<1>9. ASSUME NEW k, k[1] = ResultOf(w), k[2] = Evaluator
      PROVE  /\ ~HasFile(k) /\ HasFile(k)' /\ ~HasWhole(k)'
  <2>1. ~HasFile(<<ResultOf(w), Evaluator>>)
    BY <1>1 DEF EvaluationsClaimed
  <2>2. ~HasFile(k)
    BY <1>9, <2>1 DEF HasFile, HasWhole
  <2>3. HasFile(k)' /\ ~HasWhole(k)'
    BY <1>1, <1>6, <1>9, <2>2 DEF HasFile, HasWhole
  <2>4. QED
    BY <2>2, <2>3
<1>10. EvaluationsClaimed'
  <2>1. ASSUME NEW k, k = <<ResultOf(w)', Evaluator'>> PROVE HasFile(k)' /\ ~HasWhole(k)'
    <3>1. k[1] = ResultOf(w) /\ k[2] = Evaluator
      BY <1>1, <1>2, <2>1 DEF ResultOf, Evaluator
    <3>2. QED
      BY <1>9, <3>1
  <2>2. QED
    BY <1>3, <1>8, <2>1, OwnStepClaims
<1>11. ASSUME NEW k \in Result \X ToSet(Evaluators)
       PROVE  <<EvaluationProgress[k], EvaluationProgress'[k]>> \in Evaluations!Moves
  <2>1. CASE Own(w, k)
    <3>1. k = <<ResultOf(w), Evaluator>> /\ k[1] = ResultOf(w) /\ k[2] = Evaluator
      BY <2>1 DEF Own
    <3>2. WorkedOn(k)
      BY <1>1, <3>1 DEF WorkedOn
    <3>3. ResultOf(w)' = ResultOf(w) /\ Evaluator' = Evaluator
      BY <1>1, <1>2 DEF ResultOf, Evaluator
    <3>4. WorkedOn(k)'
      BY <1>3, <3>1, <3>3 DEF WorkedOn
    <3>5. EvaluationProgress[k] = "busy" /\ EvaluationProgress'[k] = "writing"
      BY <1>9, <3>1, <3>2, <3>4 DEF EvaluationProgress
    <3>6. QED
      BY <3>5 DEF Evaluations!Moves
  <2>2. CASE ~Own(w, k)
    BY <1>7, <1>8, <2>2, OwnStepMoves
  <2>3. QED
    BY <2>1, <2>2
<1>12. QED
  BY <1>10, <1>11, WorkIfMoves

(* The evaluation gets its content; w saves the progress or goes round.     *)
LEMMA EvaluationWrittenClaims ==
  ASSUME EvaluationInv, EvaluationsClaimed, NEW w \in Worker, EvaluationWritten(w)
  PROVE  EvaluationsClaimed' /\ Evaluations!Work
<1> DEFINE torn == EvalFile(w, FALSE)
           new == EvalFile(w, TRUE)
<1>1. /\ job[w].stage = "write" /\ evals' = (evals \ {torn}) \cup {new}
      /\ SaveIfDue(w, Counted) /\ UNCHANGED <<mode, turn>>
  BY DEF EvaluationWritten
<1>2. /\ tasks' = tasks /\ Others(w) /\ (Keeps(w) \/ Goes(w))
      /\ job'[w].stage \in {"none", "judge", "mkdir"}
  BY <1>1, DueStep
<1>3. mode = "pass" /\ taskIndex \in Nat /\ index[w] \in 1..taskIndex
  BY <1>1, BusyFlow
<1>4. /\ torn = [result |-> ResultOf(w), evaluator |-> Evaluator, whole |-> FALSE]
      /\ new = [result |-> ResultOf(w), evaluator |-> Evaluator, whole |-> TRUE]
  BY DEF EvalFile
<1> HIDE DEF torn, new
<1>5. ASSUME NEW k, ~Own(w, k) PROVE FileKept(k)
  <2>1. k[1] # ResultOf(w) \/ k[2] # Evaluator
    BY <1>1, <1>5 DEF Own
  <2>2. QED
    BY <1>1, <1>4, <2>1 DEF FileKept, HasFile, HasWhole
<1>6. (Holds(w) => job'[w].stage \notin {"judge", "open", "write"}) /\ (Holds(w) \/ Goes(w))
  <2>1. Goes(w) /\ Holds(w) => job'[w].stage = "none"
    BY <1>3 DEF Goes, Holds
  <2>2. Keeps(w) => job'[w].stage = "mkdir" /\ Holds(w)
    BY <1>2 DEF Keeps, Holds
  <2>3. QED
    BY <1>2, <2>1, <2>2
<1>7. OwnStep(w)
  BY <1>1, <1>2, <1>3, <1>5, <1>6 DEF OwnStep
<1>8. EvaluationsClaimed'
  BY <1>6, <1>7, OwnStepClaims
<1>9. (\A k : WorkedOn(k) => ~HasWhole(k))'
  BY <1>8, NoneWorkedOnWhole, PTL
<1>10. ASSUME NEW k \in Result \X ToSet(Evaluators)
       PROVE  <<EvaluationProgress[k], EvaluationProgress'[k]>> \in Evaluations!Moves
  <2>1. CASE Own(w, k)
    <3>1. k = <<ResultOf(w), Evaluator>>
      BY <2>1 DEF Own
    <3>2. WorkedOn(k) /\ HasFile(k)
      BY <1>1, <3>1 DEF WorkedOn, EvaluationsClaimed
    <3>3. HasWhole(k)'
      BY <1>1, <1>4, <3>1 DEF HasWhole
    <3>4. ~WorkedOn(k)'
      BY <1>9, <3>3
    <3>5. EvaluationProgress[k] = "writing" /\ EvaluationProgress'[k] = "whole"
      BY <3>2, <3>3, <3>4 DEF EvaluationProgress
    <3>6. QED
      BY <3>5 DEF Evaluations!Moves
  <2>2. CASE ~Own(w, k)
    BY <1>5, <1>7, <2>2, OwnStepMoves
  <2>3. QED
    BY <2>1, <2>2
<1>11. QED
  BY <1>8, <1>10, WorkIfMoves

(* A pass begins with results that have no file by its evaluator. *)
LEMMA BeginPassClaims ==
  ASSUME EvaluationInv, EvaluationInv', EvaluationsClaimed, BeginPass
  PROVE  EvaluationsClaimed' /\ Evaluations!Work
<1>1. mode = "between" /\ evals' = evals
  BY DEF BeginPass
<1>2. PICK pending \in Batches :
        /\ Lists(ResultOrder, Pending, pending)
        /\ IF pending = << >>
           THEN NextTurn
           ELSE /\ mode' = "pass" /\ Call(pending) /\ UNCHANGED turn
                /\ job' = [w \in Flow |-> IF w = Main \/ index'[w] = 0 THEN NoJob
                                          ELSE [stage |-> "judge", attempt |-> 1, snapshot |-> {}]]
  BY DEF BeginPass
<1>3. CASE pending = << >>
  <2>1. mode' # "pass"
    BY <1>2, <1>3 DEF NextTurn
  <2>2. QED
    BY <1>1, <2>1, WorkStops
<1>4. CASE pending # << >>
  <2>1. tasks' = pending /\ turn' = turn /\ Evaluator' = Evaluator
    BY <1>2, <1>4 DEF Call, Evaluator
  <2>2. \A w \in Worker : job'[w].stage = IF index'[w] = 0 THEN "none" ELSE "judge"
    <3>1. Main \notin Worker /\ Worker \subseteq Flow
      BY Flows
    <3>2. QED
      BY <1>2, <1>4, <3>1 DEF NoJob
  <2>3. /\ DOMAIN tasks' = 1..Len(tasks') /\ Len(tasks') \in Nat
        /\ \A w \in Worker : index'[w] \in 0..Len(tasks')
    <3>1. PoolTypeOK'
      BY DEF EvaluationInv, PoolInv
    <3>2. tasks' \in Seq(Task) /\ \A w \in Worker : index'[w] \in 0..Len(tasks')
      BY <3>1 DEF PoolTypeOK
    <3>3. DOMAIN tasks' = 1..Len(tasks') /\ Len(tasks') \in Nat
      BY <3>2
    <3>4. QED
      BY <3>2, <3>3
  <2>4. ASSUME NEW i \in 1..Len(tasks'), NEW k, k = <<tasks'[i], Evaluator>>
        PROVE  ~HasFile(k) /\ ~HasFile(k)'
    <3>1. tasks'[i] \in Pending
      BY <1>2, <2>1, <2>3 DEF Lists
    <3>2. ~\E f \in evals : f.result = tasks'[i] /\ f.evaluator = Evaluator
      BY <3>1 DEF Pending, IsEvaluationCompleted
    <3>3. ~HasFile(k)
      BY <2>4, <3>2 DEF HasFile, HasWhole
    <3>4. QED
      BY <1>1, <3>3 DEF HasFile, HasWhole
  <2>5. ASSUME NEW w \in Worker, job'[w].stage # "none", NEW k, k = <<ResultOf(w)', Evaluator'>>
        PROVE  job'[w].stage = "judge" /\ ~HasFile(k) /\ ~HasFile(k)'
    <3>1. index'[w] \in 1..Len(tasks') /\ job'[w].stage = "judge"
      BY <2>2, <2>3, <2>5
    <3>2. k = <<tasks'[index'[w]], Evaluator>>
      BY <2>1, <2>5 DEF ResultOf
    <3>3. QED
      BY <2>4, <3>1, <3>2
  <2>6. EvaluationsClaimed'
    <3>1. (\A w \in Worker : job[w].stage \in {"judge", "open"} => ~HasFile(<<ResultOf(w), Evaluator>>))'
      BY <2>5 DEF HasFile, HasWhole
    <3>2. (\A w \in Worker : job[w].stage # "write")'
      BY <2>2
    <3>3. (\A i \in 1..Len(tasks) : i > taskIndex => ~HasFile(<<tasks[i], Evaluator>>))'
      BY <2>1, <2>4 DEF HasFile, HasWhole
    <3>4. QED
      BY <3>1, <3>2, <3>3 DEF EvaluationsClaimed
  <2>7. ASSUME NEW k \in Result \X ToSet(Evaluators)
        PROVE  <<EvaluationProgress[k], EvaluationProgress'[k]>> \in Evaluations!Moves
    <3>1. FileKept(k)
      BY <1>1 DEF FileKept, HasFile, HasWhole
    <3>2. WorkedOn(k)' => ~HasFile(k)
      BY <2>5 DEF WorkedOn
    <3>3. QED
      BY <3>1, <3>2, EvaluationMoves
  <2>8. QED
    BY <2>6, <2>7, WorkIfMoves
<1>5. QED
  BY <1>3, <1>4

(* A step of the main flow comes before, after or between the passes. *)
LEMMA MainClaims ==
  ASSUME EvaluationInv, EvaluationInv', EvaluationsClaimed,
         \/ StartRun \/ ClosePass \/ SummaryWritten \/ Crash
         \/ TakeSnapshot(Main) \/ TruncateProgress(Main) \/ ProgressWritten(Main) \/ FileFault(Main)
  PROVE  EvaluationsClaimed' /\ Evaluations!Work
<1>1. CASE StartRun \/ ClosePass
  <2>1. evals' = evals /\ mode' # "pass"
    BY <1>1 DEF StartRun, ClosePass
  <2>2. QED
    BY <2>1, WorkStops
<1>2. CASE Crash \/ FileFault(Main)
  <2>1. evals' = evals /\ ProcessEnds
    BY <1>2 DEF Crash, FileFault
  <2>2. mode' # "pass"
    BY <2>1 DEF ProcessEnds
  <2>3. QED
    BY <2>1, <2>2, WorkStops
<1>3. CASE SummaryWritten
  <2>1. evals' = evals /\ mode' # "pass"
    BY <1>3 DEF SummaryWritten, NextTurn
  <2>2. QED
    BY <2>1, WorkStops
<1>4. CASE TakeSnapshot(Main) \/ TruncateProgress(Main) \/ ProgressWritten(Main)
  <2>1. evals' = evals /\ job[Main].stage # "none" /\ (mode' = mode \/ NextTurn)
    BY <1>4 DEF TakeSnapshot, TruncateProgress, ProgressWritten
  <2>2. mode = "closing"
    BY <2>1 DEF EvaluationInv, PassOfEvaluator
  <2>3. mode' # "pass"
    BY <2>1, <2>2 DEF NextTurn
  <2>4. QED
    BY <2>1, <2>3, WorkStops
<1>5. QED
  BY <1>1, <1>2, <1>3, <1>4

(* Before the first run there is no file and nobody works. *)
LEMMA ClaimsInit == Init => EvaluationsClaimed /\ Evaluations!WorkInit
<1> SUFFICES ASSUME Init PROVE EvaluationsClaimed /\ Evaluations!WorkInit
  OBVIOUS
<1>1. evals = {} /\ mode = "down" /\ \A w \in Worker : job[w].stage = "none"
  BY Flows DEF Init, NoJob
<1>2. EvaluationsClaimed
  BY <1>1 DEF EvaluationsClaimed
<1>3. \A k : ~WorkedOn(k) /\ ~HasWhole(k) /\ ~HasFile(k)
  BY <1>1 DEF WorkedOn, HasWhole, HasFile
<1>4. Evaluations!WorkInit
  BY <1>3 DEF EvaluationProgress, Evaluations!WorkInit
<1>5. QED
  BY <1>2, <1>4

(* Every step keeps the claims and moves evaluations as work may. *)
LEMMA ClaimsStep ==
  ASSUME EvaluationInv, EvaluationInv', EvaluationsClaimed, [Next]_vars
  PROVE  EvaluationsClaimed' /\ Evaluations!Work
<1>1. CASE StartRun \/ ClosePass \/ SummaryWritten \/ Crash
  BY <1>1, MainClaims
<1>2. CASE BeginPass
  BY <1>2, BeginPassClaims
<1>3. CASE PoolReturns
  <2>1. UNCHANGED <<evals, job, tasks, index, taskIndex, turn, mode>>
    BY <1>3 DEF PoolReturns, Return
  <2>2. QED
    BY <2>1, NothingBegins
<1>4. ASSUME NEW w \in Flow, FlowStep(w) PROVE EvaluationsClaimed' /\ Evaluations!Work
  <2>1. CASE w = Main
    <3>1. Main \notin Worker
      BY Flows
    <3>2. TakeSnapshot(Main) \/ TruncateProgress(Main) \/ ProgressWritten(Main) \/ FileFault(Main)
      BY <1>4, <2>1, <3>1 DEF FlowStep, JudgeAnswers, AttemptFails, OpenEvaluation,
                              EvaluationWritten, WakeWorker
    <3>3. QED
      BY <3>2, MainClaims
  <2>2. CASE w \in Worker
    <3>1. CASE JudgeAnswers(w) \/ TakeSnapshot(w) \/ TruncateProgress(w)
      BY <2>2, <3>1, StagesClaims
    <3>2. CASE AttemptFails(w)
      BY <2>2, <3>2, AttemptFailsClaims
    <3>3. CASE OpenEvaluation(w)
      BY <2>2, <3>3, OpenEvaluationClaims
    <3>4. CASE EvaluationWritten(w)
      BY <2>2, <3>4, EvaluationWrittenClaims
    <3>5. CASE ProgressWritten(w) \/ FileFault(w) \/ WakeWorker(w)
      BY <2>2, <3>5, LoopClaims
    <3>6. QED
      BY <1>4, <3>1, <3>2, <3>3, <3>4, <3>5 DEF FlowStep
  <2>3. QED
    BY <2>1, <2>2, Flows
<1>5. CASE UNCHANGED vars
  <2>1. UNCHANGED <<evals, job, tasks, index, taskIndex, turn, mode>>
    BY <1>5 DEF vars, poolVars
  <2>2. QED
    BY <2>1, NothingBegins
<1>6. QED
  BY <1>1, <1>2, <1>3, <1>4, <1>5 DEF Next

(* A result that waits or is being judged has no evaluation file by the     *)
(* evaluator whose turn it is, and the file being written has not its       *)
(* content yet: the inductive invariant of the passes, with the claims on   *)
(* their files.                                                            *)
THEOREM JudgingInvariant == Safety => []ResumeInv
<1>1. EvaluationInv /\ EvaluationInv' /\ EvaluationsClaimed /\ [Next]_vars => EvaluationsClaimed'
  BY ClaimsStep
<1>2. Init => EvaluationsClaimed
  BY ClaimsInit
<1>3. Safety => []EvaluationsClaimed
  BY <1>1, <1>2, EvaluationInvariant, PTL DEF Safety
<1>4. QED
  BY <1>3, EvaluationInvariant, PTL DEF ResumeInv

(* The passes implement resumable work: over all runs, crashes and failed   *)
(* writes an evaluation is asked for only while it has no file, by one      *)
(* worker, which opens the file and fills it, and no file that is there is  *)
(* written again.                                                          *)
THEOREM PassesImplementWork == Safety => ImplementsWork
<1>1. Init => Evaluations!WorkInit
  BY ClaimsInit
<1>2. ResumeInv /\ ResumeInv' /\ [Next]_vars => [Evaluations!Work]_EvaluationProgress
  BY ClaimsStep DEF ResumeInv
<1>3. QED
  BY <1>1, <1>2, JudgingInvariant, PTL DEF Safety, ImplementsWork, Evaluations!WorkSpec
=============================================================================
