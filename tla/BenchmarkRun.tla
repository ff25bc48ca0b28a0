---------------------------- MODULE BenchmarkRun ----------------------------
(***************************************************************************)
(* `plinius benchmark` (src/commands/benchmark.ts): the task matrix of     *)
(* targets and prompts, resume by looking at the artifacts on disk, the    *)
(* worker pool that runs the pending tasks, and the two files each run     *)
(* leaves: the canonical JSON record and the Markdown view derived from    *)
(* it.  `plinius clean benchmark` (src/commands/clean.ts) removes them.    *)
(*                                                                         *)
(* A process may die between any two steps.  fs.writeFile is two steps:    *)
(* the file is created or truncated ("torn"), then its content is written  *)
(* ("whole"); either may fail.  Session numbers stand for the timestamps   *)
(* in the file names: a session runs a task at most once, so a task and a  *)
(* session name one record.                                                *)
(***************************************************************************)
EXTENDS WorkerPool, SequencesExt, FiniteSets

CONSTANTS
  Prompt,         \* benchmark ids, the prompts discovered in benchmark/prompt
  Target,         \* configured target ids
  Matrix,         \* the task matrix in the order the command builds it
  Shadows,        \* <<s, t>>: "<prompt>_<t>_" is a prefix of s's file names
  MaxSessions,    \* bound: sessions in which the operator may pick a target
  MaxCrashes,     \* bound: how often the process dies
  MaxFaults,      \* bound: failed reads and writes of files
  MaxCleans       \* bound: how often the operator cleans

ASSUME BenchmarkAssumption ==
  /\ Task = Prompt \X Target
  /\ Matrix \in Seq(Task) /\ IsInjective(Matrix)
  /\ \A S \in SUBSET Task : \E ts \in Batches : Lists(Matrix, S, ts)
  /\ Shadows \subseteq Target \X Target
  /\ {MaxSessions, MaxCrashes, MaxFaults, MaxCleans} \subseteq Nat

VARIABLES
  disk,        \* the artifacts in benchmark/artifacts/result
  session,     \* how many times the command has been run
  up,          \* whether it is running
  selected,    \* the tasks of the current session's matrix
  job,         \* what the executor of each worker is doing
  completed,   \* runs counted as succeeded in this session
  failed,      \* runs counted as failed in this session
  crashes, faults, cleans

(* Past MaxSessions the operator only runs the whole matrix, while a task  *)
(* is missing: one session more than there are crashes, faults and cleans. *)
LastSession == MaxSessions + MaxCrashes + MaxFaults + MaxCleans + 1

bounds == <<crashes, faults, cleans>>
vars == <<poolVars, disk, session, up, selected, job, completed, failed, bounds>>

Artifact == [task : Task, session : 1..LastSession, ext : {"json", "md"},
             whole : BOOLEAN, error : BOOLEAN]

NoJob == [stage |-> "none", error |-> FALSE]

TaskOf(w) == tasks[index[w]]

(* The file worker w is about to write, or is writing, in stage "json" or  *)
(* "md" of saveRecord.                                                     *)
FileOf(w, whole) ==
  [task |-> TaskOf(w), session |-> session, ext |-> job[w].stage,
   whole |-> whole, error |-> job[w].error]

(* Mutated form: the target is left out of the prefix. *)
NamedForPrompt(f, task) == f.task[1] = task[1]

(* Whether file f has the name the resume check looks for. *)
NamedFor(f, task) ==
  /\ f.task[1] = task[1]
  /\ f.task[2] = task[2] \/ <<f.task[2], task[2]>> \in Shadows

(* Mutated form: look for the derived Markdown view. *)
IsTaskCompletedByView(task) == \E f \in disk : NamedFor(f, task) /\ f.ext = "md"

(* The resume check: some JSON file carries the task's name. *)
IsTaskCompleted(task) == \E f \in disk : NamedFor(f, task) /\ f.ext = "json"

SomethingMissing == \E t \in Task : ~IsTaskCompleted(t)

(* The tasks of the selected targets that the resume check leaves. *)
Pending(targets) == {t \in Task : t[2] \in targets /\ ~IsTaskCompleted(t)}

(* What the comment on the resume check means by complete. *)
HasRecord(task) == \E f \in disk : f.task = task /\ f.ext = "json" /\ f.whole

Init ==
  /\ PoolInit
  /\ disk = {}
  /\ session = 0 /\ up = FALSE /\ selected = {}
  /\ job = [w \in Worker |-> NoJob]
  /\ completed = 0 /\ failed = 0
  /\ crashes = 0 /\ faults = 0 /\ cleans = 0

(* The executor of a worker that has just claimed a task starts by loading *)
(* the prompt and asking the backend.                                      *)
StartClaimed == job' = [w \in Worker |-> IF index'[w] = 0 THEN NoJob
                                         ELSE IF index'[w] = index[w] /\ phase = "active"
                                         THEN job[w]
                                         ELSE [stage |-> "infer", error |-> FALSE]]

(* The operator runs the command for one target or for all of them.  With  *)
(* nothing pending it returns at once.                                     *)
StartSession(targets) ==
  /\ ~up
  /\ session < MaxSessions \/ (targets = Target /\ SomethingMissing)
  /\ session' = session + 1
  /\ selected' = {t \in Task : t[2] \in targets}
  /\ completed' = 0 /\ failed' = 0
  /\ \E pending \in Batches :
       /\ Lists(Matrix, Pending(targets), pending)
       /\ IF pending = << >>
          THEN UNCHANGED <<poolVars, up, job>>
          ELSE /\ up' = TRUE
               /\ Call(pending)
               /\ StartClaimed
  /\ UNCHANGED <<disk, bounds>>

(* Mutated form: the view is written without the record. *)
InferenceDoneViewOnly(w, error) ==
  /\ job[w].stage = "infer"
  /\ job' = [job EXCEPT ![w] = [stage |-> "md", error |-> error]]
  /\ UNCHANGED <<poolVars, disk, session, up, selected, completed, failed, bounds>>

(* runBenchmark never throws: it returns a record, with the error in it    *)
(* when the backend failed.                                                *)
InferenceDone(w, error) ==
  /\ job[w].stage = "infer"
  /\ job' = [job EXCEPT ![w] = [stage |-> "json", error |-> error]]
  /\ UNCHANGED <<poolVars, disk, session, up, selected, completed, failed, bounds>>

OpenFile(w) ==
  /\ job[w].stage \in {"json", "md"}
  /\ FileOf(w, FALSE) \notin disk
  /\ disk' = disk \cup {FileOf(w, FALSE)}
  /\ UNCHANGED <<poolVars, session, up, selected, job, completed, failed, bounds>>

(* The file w has open gets its content. *)
CompleteFile(w) ==
  /\ FileOf(w, FALSE) \in disk
  /\ disk' = (disk \ {FileOf(w, FALSE)}) \cup {FileOf(w, TRUE)}

(* Mutated form of JsonWritten: the run is counted before its files are    *)
(* both written.                                                           *)
JsonWrittenCounted(w) ==
  /\ job[w].stage = "json"
  /\ CompleteFile(w)
  /\ job' = [job EXCEPT ![w].stage = "md"]
  /\ IF job[w].error THEN failed' = failed + 1 /\ UNCHANGED completed
     ELSE completed' = completed + 1 /\ UNCHANGED failed
  /\ UNCHANGED <<poolVars, session, up, selected, bounds>>

JsonWritten(w) ==
  /\ job[w].stage = "json"
  /\ CompleteFile(w)
  /\ job' = [job EXCEPT ![w].stage = "md"]
  /\ UNCHANGED <<poolVars, session, up, selected, completed, failed, bounds>>

(* The Markdown view is written, the run is counted and the task's promise *)
(* resolves.                                                               *)
MdWritten(w) ==
  /\ job[w].stage = "md"
  /\ CompleteFile(w)
  /\ IF job[w].error THEN failed' = failed + 1 /\ UNCHANGED completed
     ELSE completed' = completed + 1 /\ UNCHANGED failed
  /\ Resolve(w)
  /\ StartClaimed
  /\ UNCHANGED <<session, up, selected, bounds>>

(* loadBenchmark, mkdir or writeFile throws: the pool swallows the error,  *)
(* and a file that was open stays as it is.                                *)
FileFault(w) ==
  /\ job[w].stage # "none" /\ faults < MaxFaults
  /\ faults' = faults + 1
  /\ Reject(w)
  /\ StartClaimed
  /\ UNCHANGED <<disk, session, up, selected, completed, failed, crashes, cleans>>

WakeWorker(w) ==
  /\ Wake(w)
  /\ StartClaimed
  /\ UNCHANGED <<disk, session, up, selected, completed, failed, bounds>>

PoolReturns ==
  /\ Return
  /\ UNCHANGED <<disk, session, up, selected, job, completed, failed, bounds>>

(* The totals are printed and the process exits. *)
EndSession ==
  /\ up /\ phase = "returned"
  /\ up' = FALSE
  /\ UNCHANGED <<poolVars, disk, session, selected, job, completed, failed, bounds>>

(* The process dies; its memory is gone, the files stay as they are. *)
Crash ==
  /\ up /\ crashes < MaxCrashes
  /\ crashes' = crashes + 1
  /\ up' = FALSE
  /\ phase' = "idle" /\ tasks' = << >> /\ taskIndex' = 0 /\ results' = [i \in 1..0 |-> "unset"]
  /\ pc' = [w \in Worker |-> "absent"] /\ index' = [w \in Worker |-> 0]
  /\ job' = [w \in Worker |-> NoJob]
  /\ completed' = 0 /\ failed' = 0
  /\ UNCHANGED <<disk, session, selected, faults, cleans>>

(* `plinius clean benchmark` removes the files of the directory one by one;*)
(* an error or the end of the process stops it anywhere.                   *)
Clean ==
  /\ ~up /\ cleans < MaxCleans
  /\ cleans' = cleans + 1
  /\ \E removed \in SUBSET disk \ {{}} : disk' = disk \ removed
  /\ UNCHANGED <<poolVars, session, up, selected, job, completed, failed, crashes, faults>>

Targets == {{t} : t \in Target} \cup {Target}

WorkerStep(w) ==
  \/ \E error \in BOOLEAN : InferenceDone(w, error)
  \/ OpenFile(w) \/ JsonWritten(w) \/ MdWritten(w) \/ FileFault(w) \/ WakeWorker(w)

Next ==
  \/ \E targets \in Targets : StartSession(targets)
  \/ \E w \in Worker : WorkerStep(w)
  \/ PoolReturns \/ EndSession \/ Crash \/ Clean

Safety == Init /\ [][Next]_vars

(* The backend answers or times out, files get written, timers fire; and   *)
(* the operator runs the whole matrix again while something is missing,    *)
(* which is what resume is for.  Crashes, faults and cleaning are free.    *)
Fairness ==
  /\ \A w \in Worker : WF_vars(WorkerStep(w))
  /\ WF_vars(PoolReturns) /\ WF_vars(EndSession)
  /\ WF_vars(StartSession(Target) /\ SomethingMissing)

Spec == Safety /\ Fairness
-----------------------------------------------------------------------------
(* Types of the variables. *)
TypeOK ==
  /\ PoolTypeOK
  /\ disk \subseteq Artifact
  /\ session \in 0..LastSession /\ up \in BOOLEAN /\ selected \subseteq Task
  /\ job \in [Worker -> [stage : {"none", "infer", "json", "md"}, error : BOOLEAN]]
  /\ \A w \in Worker : job[w].stage # "none" <=> index[w] # 0
  /\ completed \in 0..Len(tasks) /\ failed \in 0..Len(tasks)
  /\ crashes \in 0..MaxCrashes /\ faults \in 0..MaxFaults /\ cleans \in 0..MaxCleans

(* Inference is not paid for twice: whatever crashed or failed before, no  *)
(* worker asks the backend for a task whose JSON record is already whole.  *)
NoRepeatedRun ==
  [][\A w \in Worker : job[w].stage # "infer" /\ job'[w].stage = "infer"
                         => ~HasRecord(tasks'[index'[w]])]_vars

(* A worker is on the way to the record of a task; some JSON file is there. *)
WorkedOn(task) == \E w \in Worker : job[w].stage \in {"infer", "json"} /\ TaskOf(w) = task

HasFile(task) == \E f \in disk : f.task = task /\ f.ext = "json"

(* How far each task is. *)
TaskProgress ==
  [t \in Task |-> IF WorkedOn(t) THEN IF HasFile(t) THEN "writing" ELSE "busy"
                  ELSE IF HasRecord(t) THEN "whole"
                  ELSE IF HasFile(t) THEN "torn" ELSE "absent"]

Records == INSTANCE ResumableWork WITH Key <- Task, status <- TaskProgress

(* Over all sessions, crashes, failed writes and cleans, a run of a task   *)
(* is resumable work: whatever has a JSON record, whole or torn, is left   *)
(* alone until it is removed.                                              *)
ImplementsStore == Records!StoreSpec

(* Unless files are removed, nobody sees a Markdown view without the whole *)
(* record it is derived from: "Markdown is a derived view; JSON remains    *)
(* the source of truth".                                                   *)
ViewHasRecord ==
  cleans = 0 =>
    \A v \in disk : v.ext = "md" =>
      \E f \in disk : f.ext = "json" /\ f.whole /\ f.task = v.task /\ f.session = v.session
                      /\ f.error = v.error

(* The runs of this session, with or without an error, whose two files are *)
(* written, and the positions of the pool's list with a given outcome.     *)
Views(error) == {f \in disk : f.session = session /\ f.ext = "md" /\ f.whole /\ f.error = error}

Settled(outcome) == {i \in 1..Len(tasks) : results[i] = outcome}

(* The totals printed at the end agree with what is on disk: each counter  *)
(* is the number of records of that kind whose two files this session      *)
(* wrote, and what neither counts was rejected and logged by the pool.     *)
TotalsMatchDisk ==
  phase = "returned" /\ up =>
    /\ completed = Cardinality(Views(FALSE))
    /\ failed = Cardinality(Views(TRUE))
    /\ completed + failed + Cardinality(Settled("error")) = Len(tasks)

(* The inductive invariant behind TypeOK, ViewHasRecord, TotalsMatchDisk   *)
(* and NoRepeatedRun, part by part.                                        *)

(* The pool is running only inside a session, on a list without repeats.   *)
PoolOfSession ==
  /\ IF up THEN phase # "idle" /\ session > 0 ELSE phase # "active"
  /\ phase = "idle" => tasks = << >>
  /\ IsInjective(tasks)

(* Files come from sessions so far; those of the running session belong to *)
(* tasks it has claimed, and a task with a whole view has resolved.        *)
FilesClaimed ==
  /\ IsFiniteSet(disk)
  /\ \A f \in disk :
       /\ f.session <= session
       /\ f.session = session /\ up =>
            \E i \in 1..taskIndex :
              tasks[i] = f.task /\ (f.ext = "md" /\ f.whole => results[i] = "value")

(* A worker at the view has written the record it derives the view from.   *)
JobRecord ==
  \A w \in Worker : job[w].stage = "md" =>
    \E f \in disk : f.ext = "json" /\ f.whole /\ f.task = TaskOf(w) /\ f.session = session
                    /\ f.error = job[w].error

(* The counters, while the session runs. *)
CountersMatch ==
  up => /\ completed = Cardinality(Views(FALSE))
        /\ failed = Cardinality(Views(TRUE))
        /\ completed + failed = Cardinality(Settled("value"))

(* No task that still waits has a record: nobody else writes one. *)
WaitingUnrecorded ==
  up => \A i \in 1..Len(tasks) : i > taskIndex => ~HasRecord(tasks[i])

(* A session over the whole matrix in which nothing dies or fails files    *)
(* every task, so that the operator needs one session more than there were *)
(* crashes, faults and cleans.                                             *)
LastSessionFiles ==
  LET disturbed == MaxSessions + crashes + faults + cleans
  IN  /\ session <= disturbed + 1
      /\ session > disturbed =>
           \A t \in Task :
             IsTaskCompleted(t) \/ (up /\ \E i \in 1..Len(tasks) : tasks[i] = t /\ results[i] = "unset")

BenchmarkInv ==
  /\ PoolInv
  /\ TypeOK
  /\ PoolOfSession
  /\ FilesClaimed
  /\ JobRecord
  /\ ViewHasRecord
  /\ CountersMatch
  /\ WaitingUnrecorded
  /\ LastSessionFiles

(* The part behind ImplementsStore: a task has one JSON file at most; the  *)
(* one a worker is on the way to is its own and open; and a task nobody    *)
(* has claimed yet has none.                                               *)
RecordsClaimed ==
  /\ \A f, g \in disk : f.ext = "json" /\ g.ext = "json" /\ f.task = g.task => f = g
  /\ \A w \in Worker : job[w].stage \in {"infer", "json"} =>
       \A f \in disk : f.ext = "json" /\ f.task = TaskOf(w) =>
         job[w].stage = "json" /\ f = FileOf(w, FALSE)
  /\ phase = "active" => \A i \in 1..Len(tasks) : i > taskIndex => ~HasFile(tasks[i])

ResumeInv == BenchmarkInv /\ RecordsClaimed

(* A task that is left out of a session has its canonical record: "A run   *)
(* is complete when its canonical JSON record already exists."             *)
SkippedHaveRecord ==
  [][session' # session =>
       \A t \in selected' : HasRecord(t) \/ (up' /\ \E i \in 1..Len(tasks') : tasks'[i] = t)]_vars

(* Running the command again after crashes, failed writes and even a clean *)
(* that stopped halfway gets every task filed in the end.                  *)
EveryTaskFiled == \A t \in Task : <>[](\E f \in disk : f.task = t /\ f.ext = "json")
=============================================================================
