----------------------------- MODULE Evaluation -----------------------------
(***************************************************************************)
(* `plinius evaluate` (src/commands/evaluate.ts, src/evaluation): every    *)
(* benchmark result found on disk is judged by each evaluator model in     *)
(* turn.  One evaluator's pass runs the pending results through the worker *)
(* pool; a judged result leaves an evaluation file, and the shared         *)
(* progress object is written to progress.json every few results and once  *)
(* more at the end of the pass, before the summary of the pass.            *)
(*                                                                         *)
(* Workers interleave at their awaits, so saves of progress.json by two    *)
(* workers can overlap: each takes its snapshot, then truncates the file,  *)
(* then writes.  The process may die between any two steps, and the        *)
(* operator may run the command again.                                     *)
(***************************************************************************)
EXTENDS WorkerPool, SequencesExt, FiniteSets

CONSTANTS
  Result,         \* the .md result files with a valid name
  ResultOrder,    \* the order in which readdir lists them
  KeyOf,          \* the benchmark id and model parsed from each file's name
  Format,         \* the layout of each file, see HeaderLabels
  Evaluators,     \* EVALUATOR_MODELS
  SaveEvery,      \* progress is saved when this divides the counters' sum
  MaxAttempts,    \* maxRetries of evaluateWithRetry
  MaxRuns,        \* bound: runs of the command that need not be necessary
  MaxJudgeFaults, \* bound: failed calls to an evaluator model
  MaxFileFaults,  \* bound: failed writes
  MaxCrashes      \* bound: how often the process dies

ASSUME EvaluationAssumption ==
  /\ Task = Result
  /\ ResultOrder \in Seq(Result) /\ IsInjective(ResultOrder) /\ ToSet(ResultOrder) = Result
  /\ \A S \in SUBSET Task : \E ts \in Batches : Lists(ResultOrder, S, ts)
  /\ Evaluators \in Seq(ToSet(Evaluators))
  /\ Len(Evaluators) > 0 /\ IsInjective(Evaluators)
  /\ {SaveEvery, MaxAttempts} \subseteq Nat \ {0}
  /\ {MaxRuns, MaxJudgeFaults, MaxFileFaults, MaxCrashes} \subseteq Nat

VARIABLES
  mode,        \* "down", "between" passes, "pass", or "closing" a pass
  turn,        \* the evaluator whose pass it is
  evals,       \* the evaluation files on disk
  file,        \* progress.json
  summary,     \* the evaluations listed in the last summary file
  progress,    \* the progress object in memory
  job,         \* what each worker, and the main flow (0), is doing
  judged,      \* completedResults: the results judged in this pass
  failed,      \* results counted as failed in this pass
  runs, judgeFaults, fileFaults, crashes

bounds == <<runs, judgeFaults, fileFaults, crashes>>
counters == <<judged, failed>>
vars == <<poolVars, mode, turn, evals, file, summary, progress, job, counters, bounds>>

Main == 0

Flow == Worker \cup {Main}

Entry == [result : Result, evaluator : ToSet(Evaluators), ok : BOOLEAN]

Stage == {"none", "judge", "open", "write", "mkdir", "truncate", "overwrite",
          "summary"}

Job == [stage : Stage, attempt : 0..MaxAttempts, snapshot : SUBSET Entry]

NoJob == [stage |-> "none", attempt |-> 0, snapshot |-> {}]

Evaluator == Evaluators[turn]

ResultOf(w) == tasks[index[w]]

EntryFor(w, ok) == [result |-> ResultOf(w), evaluator |-> Evaluator, ok |-> ok]

EvalFile(w, whole) == [result |-> ResultOf(w), evaluator |-> Evaluator, whole |-> whole]

(* The bold labels in the head of a result file.  formatRecordAsMarkdown   *)
(* writes the first set; the second is the layout named by the comment on  *)
(* parseFilename.                                                          *)
HeaderLabels(format) ==
  IF format = "record"
  THEN {"Timestamp", "Target", "Backend", "Logical model", "Served model",
        "Prompt profile", "Seed", "Latency", "Finish reason", "Tokens"}
  ELSE {"Timestamp", "Model", "Prompt ID", "Latency", "Tokens"}

(* parseBenchmarkResult throws unless both labels are there. *)
Parses(result) == {"Model", "Prompt ID"} \subseteq HeaderLabels(Format[result])

(* Mutated forms of IsEvaluationCompleted: any evaluator's file counts; or *)
(* the progress file is asked in place of the directory.                   *)
IsEvaluationCompletedByAny(result, evaluator) ==
  \E f \in evals : KeyOf[f.result] = KeyOf[result]

IsEvaluationCompletedByProgress(result, evaluator) ==
  [result |-> result, evaluator |-> evaluator, ok |-> TRUE] \in file.entries

(* An evaluation is complete when a file with its name exists. *)
IsEvaluationCompleted(result, evaluator) ==
  \E f \in evals : KeyOf[f.result] = KeyOf[result] /\ f.evaluator = evaluator

(* The results left for the evaluator whose turn it is. *)
Pending == {r \in Result : ~IsEvaluationCompleted(r, Evaluator)}

(* completed + failed *)
Counted == Cardinality(judged) + failed

(* Some result has no evaluation file by some evaluator. *)
SomethingMissing ==
  \E r \in Result, e \in ToSet(Evaluators) :
    ~\E f \in evals : f.result = r /\ f.evaluator = e

Init ==
  /\ PoolInit
  /\ mode = "down" /\ turn = 1
  /\ evals = {}
  /\ file = [kind |-> "none", entries |-> {}]
  /\ summary = {}
  /\ progress = {}
  /\ job = [w \in Flow |-> NoJob]
  /\ judged = {} /\ failed = 0
  /\ runs = 0 /\ judgeFaults = 0 /\ fileFaults = 0 /\ crashes = 0

(* After a step of the pool: a worker that has just claimed a result       *)
(* starts on its first attempt, one that holds none does nothing.          *)
JobsAfterPool(w) ==
  job' = [v \in Flow |-> IF v # Main /\ index'[v] = 0 THEN NoJob
                         ELSE IF v = Main \/ (v # w /\ index'[v] = index[v]) THEN job[v]
                         ELSE [stage |-> "judge", attempt |-> 1, snapshot |-> {}]]

(* The operator starts the command. *)
StartRun ==
  /\ mode = "down"
  /\ runs < MaxRuns \/ SomethingMissing
  /\ runs' = IF runs < MaxRuns THEN runs + 1 ELSE runs
  /\ mode' = "between" /\ turn' = 1
  /\ UNCHANGED <<poolVars, evals, file, summary, progress, job, counters,
                 judgeFaults, fileFaults, crashes>>

(* What the progress file gives back: anything unreadable counts as empty. *)
LoadedProgress == IF file.kind = "ok" THEN file.entries ELSE {}

NextTurn ==
  IF turn < Len(Evaluators) THEN turn' = turn + 1 /\ mode' = "between"
  ELSE turn' = 1 /\ mode' = "down"

(* The next evaluator's pass begins: progress is loaded, results with an   *)
(* evaluation file are skipped, and the rest go to the pool.               *)
BeginPass ==
  /\ mode = "between"
  /\ progress' = LoadedProgress
  /\ \E pending \in Batches :
       /\ Lists(ResultOrder, Pending, pending)
       /\ IF pending = << >>
          THEN /\ NextTurn
               /\ UNCHANGED <<poolVars, job, counters>>
          ELSE /\ mode' = "pass"
               /\ judged' = {} /\ failed' = 0
               /\ Call(pending)
               /\ job' = [w \in Flow |-> IF w = Main \/ index'[w] = 0 THEN NoJob
                                         ELSE [stage |-> "judge", attempt |-> 1, snapshot |-> {}]]
               /\ UNCHANGED turn
  /\ UNCHANGED <<evals, file, summary, bounds>>

(* The counters are looked at after the result was counted: either this    *)
(* worker saves the progress, or its promise resolves.                     *)
SaveIfDue(w, total) ==
  IF total % SaveEvery = 0
  THEN /\ job' = [job EXCEPT ![w] = [stage |-> "mkdir", attempt |-> 0, snapshot |-> {}]]
       /\ UNCHANGED poolVars
  ELSE Resolve(w) /\ JobsAfterPool(w)

(* Mutated form: the result is entered as completed before it is saved. *)
JudgeAnswersEntered(w) ==
  /\ w \in Worker /\ job[w].stage = "judge"
  /\ Parses(ResultOf(w))
  /\ judged' = judged \cup {ResultOf(w)}
  /\ progress' = progress \cup {EntryFor(w, TRUE)}
  /\ job' = [job EXCEPT ![w].stage = "open"]
  /\ UNCHANGED <<poolVars, mode, turn, evals, file, summary, failed, bounds>>

(* The evaluator model answers with a parsable judgement: the result is    *)
(* counted before it is saved.                                             *)
JudgeAnswers(w) ==
  /\ w \in Worker /\ job[w].stage = "judge"
  /\ Parses(ResultOf(w))
  /\ judged' = judged \cup {ResultOf(w)}
  /\ job' = [job EXCEPT ![w].stage = "open"]
  /\ UNCHANGED <<poolVars, mode, turn, evals, file, summary, progress, failed, bounds>>

(* An attempt fails, because the result file does not parse or because the *)
(* model's call or answer is bad.  The last one is recorded as a failure.  *)
AttemptFails(w) ==
  /\ w \in Worker /\ job[w].stage = "judge"
  /\ IF Parses(ResultOf(w))
     THEN judgeFaults < MaxJudgeFaults /\ judgeFaults' = judgeFaults + 1
     ELSE UNCHANGED judgeFaults
  /\ IF job[w].attempt < MaxAttempts
     THEN /\ job' = [job EXCEPT ![w].attempt = @ + 1]
          /\ UNCHANGED <<poolVars, failed, progress>>
     ELSE /\ failed' = failed + 1
          /\ progress' = progress \cup {EntryFor(w, FALSE)}
          /\ SaveIfDue(w, Counted + 1)
  /\ UNCHANGED <<mode, turn, evals, file, summary, judged, runs, fileFaults, crashes>>

OpenEvaluation(w) ==
  /\ w \in Worker /\ job[w].stage = "open"
  /\ evals' = evals \cup {EvalFile(w, FALSE)}
  /\ job' = [job EXCEPT ![w].stage = "write"]
  /\ UNCHANGED <<poolVars, mode, turn, file, summary, progress, counters, bounds>>

(* The evaluation is on disk: it is entered in the progress object. *)
EvaluationWritten(w) ==
  /\ w \in Worker /\ job[w].stage = "write"
  /\ evals' = (evals \ {EvalFile(w, FALSE)}) \cup {EvalFile(w, TRUE)}
  /\ progress' = progress \cup {EntryFor(w, TRUE)}
  /\ SaveIfDue(w, Counted)
  /\ UNCHANGED <<mode, turn, file, summary, counters, bounds>>

(* saveEvaluationProgress, by a worker or by the main flow: the directory  *)
(* is there, and the progress object is turned into text.                  *)
TakeSnapshot(w) ==
  /\ job[w].stage = "mkdir"
  /\ job' = [job EXCEPT ![w].stage = "truncate", ![w].snapshot = progress]
  /\ UNCHANGED <<poolVars, mode, turn, evals, file, summary, progress, counters, bounds>>

TruncateProgress(w) ==
  /\ job[w].stage = "truncate"
  /\ file' = [kind |-> "empty", entries |-> {}]
  /\ job' = [job EXCEPT ![w].stage = "overwrite"]
  /\ UNCHANGED <<poolVars, mode, turn, evals, summary, progress, counters, bounds>>

(* Bytes are written over what is there: when another write got in between *)
(* and was longer, its tail stays and the file is no JSON any more.        *)
Overwrite(snapshot) ==
  IF file.entries \subseteq snapshot
  THEN [kind |-> "ok", entries |-> snapshot]
  ELSE [kind |-> "mixed", entries |-> file.entries]

(* The progress is saved: a worker resolves; the main flow goes on to the  *)
(* summary of the pass, if it judged anything.                             *)
ProgressWritten(w) ==
  /\ job[w].stage = "overwrite"
  /\ file' = Overwrite(job[w].snapshot)
  /\ IF w = Main
     THEN /\ IF judged = {} THEN NextTurn ELSE UNCHANGED <<mode, turn>>
          /\ job' = [job EXCEPT ![Main] = IF judged = {} THEN NoJob
                                          ELSE [NoJob EXCEPT !.stage = "summary"]]
          /\ UNCHANGED poolVars
     ELSE /\ Resolve(w)
          /\ JobsAfterPool(w)
          /\ UNCHANGED <<mode, turn>>
  /\ UNCHANGED <<evals, summary, progress, counters, bounds>>

(* saveEvaluationSummary: a new file lists what this pass judged. *)
SummaryWritten ==
  /\ job[Main].stage = "summary"
  /\ summary' = {[result |-> r, evaluator |-> Evaluator] : r \in judged}
  /\ job' = [job EXCEPT ![Main] = NoJob]
  /\ NextTurn
  /\ UNCHANGED <<poolVars, evals, file, progress, counters, bounds>>

WakeWorker(w) ==
  /\ w \in Worker
  /\ Wake(w)
  /\ JobsAfterPool(w)
  /\ UNCHANGED <<mode, turn, evals, file, summary, progress, counters, bounds>>

PoolReturns ==
  /\ Return
  /\ UNCHANGED <<mode, turn, evals, file, summary, progress, job, counters, bounds>>

(* Mutated form: the pass ends without a last save. *)
ClosePassUnsaved ==
  /\ mode = "pass" /\ phase = "returned"
  /\ NextTurn
  /\ UNCHANGED <<poolVars, evals, file, summary, progress, job, counters, bounds>>

(* All results of the pass are done: the main flow saves the progress. *)
ClosePass ==
  /\ mode = "pass" /\ phase = "returned"
  /\ mode' = "closing"
  /\ job' = [job EXCEPT ![Main] = [stage |-> "mkdir", attempt |-> 0, snapshot |-> {}]]
  /\ UNCHANGED <<poolVars, turn, evals, file, summary, progress, counters, bounds>>

(* The process ends: memory is lost, and so are writes not yet made. *)
ProcessEnds ==
  /\ mode' = "down" /\ turn' = 1
  /\ phase' = "idle" /\ tasks' = << >> /\ taskIndex' = 0 /\ results' = [i \in 1..0 |-> "unset"]
  /\ pc' = [w \in Worker |-> "absent"] /\ index' = [w \in Worker |-> 0]
  /\ job' = [w \in Flow |-> NoJob]
  /\ progress' = {} /\ judged' = {} /\ failed' = 0

(* A write fails.  In a worker the pool swallows the error; in the main    *)
(* flow it ends the command.                                               *)
FileFault(w) ==
  /\ job[w].stage \in Stage \ {"none", "judge"} /\ fileFaults < MaxFileFaults
  /\ fileFaults' = fileFaults + 1
  /\ IF w = Main
     THEN ProcessEnds
     ELSE /\ Reject(w)
          /\ JobsAfterPool(w)
          /\ UNCHANGED <<mode, turn, progress, counters>>
  /\ UNCHANGED <<evals, file, summary, runs, judgeFaults, crashes>>

Crash ==
  /\ mode # "down" /\ crashes < MaxCrashes
  /\ crashes' = crashes + 1
  /\ ProcessEnds
  /\ UNCHANGED <<evals, file, summary, runs, judgeFaults, fileFaults>>

FlowStep(w) ==
  \/ JudgeAnswers(w) \/ AttemptFails(w)
  \/ OpenEvaluation(w) \/ EvaluationWritten(w)
  \/ TakeSnapshot(w) \/ TruncateProgress(w) \/ ProgressWritten(w)
  \/ FileFault(w) \/ WakeWorker(w)

Next ==
  \/ StartRun \/ BeginPass \/ PoolReturns \/ ClosePass \/ SummaryWritten \/ Crash
  \/ \E w \in Flow : FlowStep(w)

Safety == Init /\ [][Next]_vars

(* Evaluator models answer or fail, writes finish, timers fire; and the    *)
(* operator runs the command again while something is missing.             *)
Fairness ==
  /\ \A w \in Flow : WF_vars(FlowStep(w))
  /\ WF_vars(BeginPass) /\ WF_vars(PoolReturns) /\ WF_vars(ClosePass)
  /\ WF_vars(SummaryWritten)
  /\ WF_vars(StartRun /\ SomethingMissing)

Spec == Safety /\ Fairness
-----------------------------------------------------------------------------
(* Types of the variables. *)
TypeOK ==
  /\ PoolTypeOK
  /\ mode \in {"down", "between", "pass", "closing"}
  /\ turn \in 1..Len(Evaluators)
  /\ evals \subseteq [result : Result, evaluator : ToSet(Evaluators), whole : BOOLEAN]
  /\ file \in [kind : {"none", "empty", "ok", "mixed"}, entries : SUBSET Entry]
  /\ progress \subseteq Entry
  /\ job \in [Flow -> Job]
  /\ \A w \in Worker : job[w].stage # "none" <=> index[w] # 0
  /\ judged \subseteq ToSet(tasks)
  /\ summary \subseteq [result : Result, evaluator : ToSet(Evaluators)]
  /\ failed \in Nat /\ Counted \in 0..Len(tasks)
  /\ runs \in 0..MaxRuns /\ judgeFaults \in 0..MaxJudgeFaults
  /\ fileFaults \in 0..MaxFileFaults /\ crashes \in 0..MaxCrashes

(* Every completed entry of a progress object has its evaluation file. *)
Backed(entries) ==
  \A e \in entries : e.ok =>
    [result |-> e.result, evaluator |-> e.evaluator, whole |-> TRUE] \in evals

(* progress.json never promises an evaluation that is not there: whatever  *)
(* order workers save in, each result it lists as completed has its whole  *)
(* evaluation file.                                                        *)
ProgressIsBacked == file.kind = "ok" => Backed(file.entries)

(* No evaluator model is asked again for a result it has already judged:   *)
(* "Supports resume from interruption (skips existing evaluations)".       *)
NoRepeatedJudging ==
  [][\A w \in Worker : index'[w] # 0 /\ (index[w] # index'[w] \/ phase # "active") =>
       [result |-> tasks'[index'[w]], evaluator |-> Evaluators[turn'], whole |-> TRUE]
         \notin evals]_vars

(* A worker is on the way to the evaluation of result k[1] by evaluator    *)
(* k[2]; its file is there, with its content or at all.                    *)
WorkedOn(k) ==
  \E w \in Worker : job[w].stage \in {"judge", "open", "write"} /\ <<ResultOf(w), Evaluator>> = k

HasWhole(k) == [result |-> k[1], evaluator |-> k[2], whole |-> TRUE] \in evals

HasFile(k) == HasWhole(k) \/ [result |-> k[1], evaluator |-> k[2], whole |-> FALSE] \in evals

(* How far the evaluation of each result by each evaluator is. *)
EvaluationProgress ==
  [k \in Result \X ToSet(Evaluators) |->
     IF WorkedOn(k) THEN IF HasFile(k) THEN "writing" ELSE "busy"
     ELSE IF HasWhole(k) THEN "whole"
     ELSE IF HasFile(k) THEN "torn" ELSE "absent"]

Evaluations == INSTANCE ResumableWork WITH
  Key <- Result \X ToSet(Evaluators), status <- EvaluationProgress

(* Over all runs, passes, crashes and failed writes, an evaluation is      *)
(* resumable work: no evaluator is asked about a result that has its file, *)
(* and no file is opened twice.                                            *)
ImplementsWork == Evaluations!WorkSpec

(* The step that ends a pass, other than by a crash or a failed write. *)
PassClosed ==
  /\ mode \in {"pass", "closing"} /\ phase = "returned"
  /\ mode' \in {"between", "down"}
  /\ crashes' = crashes /\ fileFaults' = fileFaults

(* When a pass has been closed progress.json is readable and accounts for  *)
(* all of it, however the periodic saves overlapped: every result is there *)
(* as completed or failed, unless writing its files threw.                 *)
ClosedPassIsRecorded ==
  [][PassClosed => /\ file'.kind = "ok"
                   /\ \A i \in 1..Len(tasks) :
                        \/ results[i] = "error"
                        \/ \E ok \in BOOLEAN :
                             [result |-> tasks[i], evaluator |-> Evaluator, ok |-> ok]
                               \in file'.entries]_vars

(* The summary of a pass and the evaluation files agree: it lists every     *)
(* evaluation the pass left on disk, and nothing else but judgements whose  *)
(* own file could not be written (they are counted before it is).          *)
SummaryMatchesFiles ==
  [][SummaryWritten =>
       \A i \in 1..Len(tasks) :
         LET listed == [result |-> tasks[i], evaluator |-> Evaluator] \in summary'
             filed == [result |-> tasks[i], evaluator |-> Evaluator, whole |-> TRUE] \in evals
         IN  (filed => listed) /\ (listed => filed \/ results[i] = "error")]_vars

(* The inductive invariant behind the safety properties, part by part.     *)

(* The pool runs inside a pass, on a list without repeats, and the main    *)
(* flow has something of its own to do only while it closes the pass.      *)
PassOfEvaluator ==
  /\ IF mode = "pass" THEN phase # "idle" ELSE phase # "active"
  /\ phase = "idle" => tasks = << >>
  /\ IsInjective(tasks)
  /\ IF mode = "closing" THEN job[Main].stage \in {"mkdir", "truncate", "overwrite", "summary"}
     ELSE job[Main].stage = "none"
  /\ \A w \in Worker : job[w].stage # "summary"

(* Whatever may end up in progress.json is backed. *)
EntriesBacked ==
  /\ Backed(file.entries) /\ Backed(progress)
  /\ \A w \in Flow : Backed(job[w].snapshot)

InPass == mode \in {"pass", "closing"}

Filed(r) == [result |-> r, evaluator |-> Evaluator, whole |-> TRUE] \in evals

Entered(r) == \E ok \in BOOLEAN : [result |-> r, evaluator |-> Evaluator, ok |-> ok] \in progress

(* A result is in the progress object, and has its file if it was judged. *)
Recorded(r) == Entered(r) /\ (r \in judged => Filed(r))

(* The positions counted as completed or failed are the claimed ones that  *)
(* nobody is judging any more.                                             *)
Done == {i \in 1..taskIndex : ~\E w \in Worker : index[w] = i /\ job[w].stage = "judge"}

CountedOnce ==
  InPass =>
    /\ Counted = Cardinality(Done)
    /\ judged \subseteq {tasks[i] : i \in 1..taskIndex}
    /\ \A w \in Worker :
         /\ job[w].stage = "judge" => ResultOf(w) \notin judged
         /\ job[w].stage \in {"open", "write"} => ResultOf(w) \in judged

(* A file of this pass is a judged result's; a result whose promise has    *)
(* resolved, or whose worker saves the progress, is entered, and filed if  *)
(* it was judged.                                                          *)
JudgedFiled ==
  InPass =>
    /\ \A i \in 1..Len(tasks) : Filed(tasks[i]) => tasks[i] \in judged
    /\ \A i \in 1..Len(tasks) : results[i] = "value" => Recorded(tasks[i])
    /\ \A w \in Worker : job[w].stage \in {"mkdir", "truncate", "overwrite"} =>
         Recorded(ResultOf(w))

(* The save that closes a pass has the file to itself. *)
ClosingSaved ==
  mode = "closing" =>
    /\ phase = "returned"
    /\ job[Main].stage \in {"truncate", "overwrite"} => job[Main].snapshot = progress
    /\ job[Main].stage = "overwrite" => file = [kind |-> "empty", entries |-> {}]
    /\ job[Main].stage = "summary" => file = [kind |-> "ok", entries |-> progress]

EvaluationInv ==
  /\ PoolInv
  /\ TypeOK
  /\ PassOfEvaluator
  /\ EntriesBacked
  /\ CountedOnce
  /\ JudgedFiled
  /\ ClosingSaved

(* The part behind ImplementsWork: a result that waits or is being judged   *)
(* has no evaluation file by the evaluator whose turn it is, and one that   *)
(* is being saved has a file without its content.                          *)
EvaluationsClaimed ==
  /\ \A w \in Worker : job[w].stage \in {"judge", "open"} => ~HasFile(<<ResultOf(w), Evaluator>>)
  /\ \A w \in Worker : job[w].stage = "write" =>
       HasFile(<<ResultOf(w), Evaluator>>) /\ ~HasWhole(<<ResultOf(w), Evaluator>>)
  /\ mode = "pass" =>
       \A i \in 1..Len(tasks) : i > taskIndex => ~HasFile(<<tasks[i], Evaluator>>)

ResumeInv == EvaluationInv /\ EvaluationsClaimed

(* Every result the command discovers is evaluated by every evaluator in   *)
(* the end: "Evaluates each result with all models in EVALUATOR_MODELS".   *)
EveryResultEvaluated ==
  \A r \in Result, e \in ToSet(Evaluators) : <>HasWhole(<<r, e>>)

(* The evaluations that are not there with their content.                  *)
NotWhole == {k \in Result \X ToSet(Evaluators) : ~HasWhole(k)}

(* However judges fail, writes fail or the process dies, the command       *)
(* started again leaves every result evaluated by every evaluator, content *)
(* and all, but for as many as can have been cut short in their own write: *)
(* one of each worker by a crash, one by a failed write.  What is left of  *)
(* such a file counts as an evaluation for ever.                           *)
EvaluatedUnlessCutShort ==
  <>[](/\ \A k \in NotWhole : HasFile(k)
       /\ Cardinality(NotWhole) <= Concurrency * crashes + fileFaults)
=============================================================================
