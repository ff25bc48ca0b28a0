----------------------------- MODULE Experiment -----------------------------
(***************************************************************************)
(* `plinius experiment` (src/commands/experiment.ts, src/experiment/runner *)
(* .ts) with the backends and the deterministic layer below it, and        *)
(* `plinius matrix` over what it leaves on disk.                           *)
(*                                                                         *)
(* One invocation inspects the backends and then takes every target,       *)
(* benchmark and repetition in turn: it sends the request, materializes    *)
(* the files of the answer, runs the checks, removes the workspace and     *)
(* writes a record.  Nothing is resumed: a later invocation runs it all    *)
(* again and its records are added to the earlier ones.                    *)
(***************************************************************************)
EXTENDS Verdict

CONSTANTS
  Targets,      \* the targets, in the order of the specification
  Kind,         \* Kind[target]: "openai-compatible" or "openrouter"
  Suite,        \* the benchmarks it selects, in the order of their ids
  Repetitions,
  ExcludeFromRankings, \* the specification excludes the experiment
  SpecFound,    \* whether the matrix command finds that specification
  Threshold,    \* how far apart judges may be
  Outputs,      \* what models answer
  Blank,        \* the answer without text
  Endings,      \* how processes end, out of Ends
  Prints,       \* sets of patterns that what they print matches
  Panels,       \* the answers of the judges of a record
  Installable,  \* the sets of tools the machine may have
  MaxSessions, MaxFaults, MaxChanges, MaxJudgings \* bounds; a crash is a fault

(* A specification has a target and a repetition at least, by its schema;  *)
(* it may list one twice.  Without a benchmark the command says so and     *)
(* ends.                                                                   *)
ASSUME ExperimentAssumption ==
  /\ Targets \in Seq(Range(Targets)) /\ Targets # << >>
  /\ Suite \in Seq(Range(Suite)) /\ Suite # << >> /\ Range(Suite) \subseteq Benchmarks
  /\ Repetitions \in Nat \ {0}
  /\ \A b \in Benchmarks :
       /\ Benchmark[b].checks \in Seq(Range(Benchmark[b].checks))
       /\ \A c \in Range(Benchmark[b].checks) : IsCheck(c)
  /\ \A panel \in Panels : panel \in Seq(Range(panel))
  /\ Endings \subseteq Ends
  /\ {MaxSessions, MaxFaults, MaxChanges, MaxJudgings} \subseteq Nat

VARIABLES
  pc,         \* what the command awaits
  session,    \* the invocations so far
  uninspected,\* the targets whose backends are still to be inspected
  todo,       \* the repetitions left, the current one first
  timer,      \* whether the timer of the request runs
  draft,      \* the record being made
  workspace,  \* the files of its workspace
  pending,    \* the checks left to run
  thrown,     \* an exception is on its way out of the checks
  cache,      \* what the process knows of each tool
  installed,  \* the tools the machine has
  disk,       \* the workspaces on disk
  files,      \* the records on disk, by file name
  matrix,     \* the capability matrix that was just made
  complete,   \* ghost: the invocations that ended normally
  excused,    \* ghost: the workspaces that no code removes, see OnlyOrphansLeft
  ran,        \* ghost: the checks whose process really started
  refusals,   \* ghost: those whose process the system refused to start
  faults, changes, judgings

request == <<uninspected, todo, timer>>
checking == <<draft, workspace, pending, thrown, cache>>
spawned == <<ran, refusals>>
ghosts == <<complete, excused, spawned>>
bounds == <<faults, changes, judgings>>
vars == <<pc, session, request, checking, installed, disk, files, matrix, ghosts, bounds>>

(* Every step but that of the matrix command leaves no report behind. *)
Leave(rest) == matrix' = {} /\ UNCHANGED rest

Task == [target : Range(Targets), benchmark : Range(Suite), rep : 1..Repetitions]

(* Targets, then benchmarks, then repetitions. *)
Plan ==
  LET n == Len(Suite)
      task(i) == [target |-> Targets[(i \div (n * Repetitions)) + 1],
                  benchmark |-> Suite[((i \div Repetitions) % n) + 1],
                  rep |-> (i % Repetitions) + 1]
  IN  [i \in 1..(Len(Targets) * n * Repetitions) |-> task(i - 1)]

(* Mutated form: a file name without the time it was written. *)
FileOfUndated(task, time) == <<task, <<1, 1>>>>

(* A record is named after its task and the time it is written, which      *)
(* tells apart even the repetitions of a target that is listed twice.      *)
FileOf(task, time) == <<task, time>>

Torn == [error |-> "torn"]

Intact == {f \in DOMAIN files : files[f] # Torn}

Current == Head(todo)

Definition == Benchmark[Current.benchmark]

Draft(task) == [target |-> task.target, benchmark |-> task.benchmark, error |-> "none",
                output |-> Blank, evals |-> << >>, judges |-> << >>]

NoDraft == [error |-> "no draft"]

(* The time, as far as names are made of it: the repetition under way.     *)
Now == <<session, Len(todo)>>

WorkspaceId == Now

Unknown == [t \in UNION Installable \cup Allowlist |-> "unknown"]

Init ==
  /\ pc = "idle" /\ session = 0
  /\ uninspected = << >> /\ todo = << >> /\ timer = FALSE
  /\ draft = NoDraft /\ workspace = NoWorkspace /\ pending = << >> /\ thrown = FALSE
  /\ cache = Unknown
  /\ installed \in Installable
  /\ disk = {} /\ files = << >> /\ matrix = {}
  /\ complete = {} /\ excused = {} /\ ran = {} /\ refusals = {}
  /\ faults = 0 /\ changes = 0 /\ judgings = 0

----------------------------------------------------------------------------
(* The command and its requests.                                           *)

StartExperiment ==
  /\ pc = "idle" /\ session < MaxSessions
  /\ session' = session + 1
  /\ pc' = "inspect" /\ uninspected' = Targets /\ todo' = Plan
  /\ cache' = Unknown
  /\ Leave(<<timer, draft, workspace, pending, thrown, installed, disk, files,
                 ghosts, bounds>>)

(* The request of the first repetition left; only one kind has a timer.    *)
Send(tasks) ==
  /\ pc' = "send" /\ todo' = tasks
  /\ timer' = (Kind[Head(tasks).target] = "openai-compatible")
  /\ draft' = Draft(Head(tasks))

(* Provenance is captured or not: the command goes on either way.          *)
InspectDone ==
  /\ pc = "inspect"
  /\ uninspected' = Tail(uninspected)
  /\ IF Tail(uninspected) = << >> THEN Send(todo) ELSE UNCHANGED <<pc, todo, timer, draft>>
  /\ Leave(<<session, workspace, pending, thrown, cache, installed, disk, files,
                 ghosts, bounds>>)

(* The response headers are there: the timer is cleared before the body.   *)
HeadersArrive ==
  /\ pc = "send" /\ timer
  /\ pc' = "body" /\ timer' = FALSE
  /\ Leave(<<session, uninspected, todo, checking, installed, disk, files,
                 ghosts, bounds>>)

(* The record of a failure has its kind and no response.  The kind is left *)
(* out of the model: nothing in the code looks at it again.                *)
Fails ==
  /\ pc' = "write" /\ timer' = FALSE
  /\ draft' = [draft EXCEPT !.error = "error"]
  /\ Leave(<<session, uninspected, todo, workspace, pending, thrown, cache, installed,
                 disk, files, ghosts, bounds>>)

RequestFails == pc = "send" /\ Fails

(* Mutated form: the timer is only looked at while the body is read. *)
TimerFiresLate == pc = "body" /\ timer /\ Fails

TimerFires == pc = "send" /\ timer /\ Fails

(* An answer without a choice, a body that is no JSON, an HTTP status.     *)
Refused == (pc = "body" \/ (pc = "send" /\ ~timer)) /\ Fails

(* OpenRouter's content that is no text becomes the empty text.            *)
Answered ==
  /\ pc = "body" \/ (pc = "send" /\ ~timer)
  /\ \E output \in Outputs \cup (IF pc = "send" THEN {Blank} ELSE {}) :
       draft' = [draft EXCEPT !.output = output]
  /\ pc' = IF NeedsWorkspace(Definition) THEN "workspace" ELSE "checks"
  /\ pending' = InAuthorityOrder(Definition.checks)
  /\ Leave(<<session, request, workspace, thrown, cache, installed, disk, files,
                 ghosts, bounds>>)

----------------------------------------------------------------------------
(* The workspace and the checks.                                           *)

Fault == faults < MaxFaults /\ faults' = faults + 1

(* An exception that leaves runSingle ends the command.                    *)
Abort ==
  /\ pc' = "idle" /\ uninspected' = << >> /\ todo' = << >> /\ timer' = FALSE
  /\ draft' = NoDraft /\ workspace' = NoWorkspace /\ pending' = << >> /\ thrown' = FALSE
  /\ cache' = Unknown

(* What createWorkspace makes of each output, for each benchmark.          *)
WorkspaceFor ==
  [output \in Outputs \cup {Blank}, b \in Benchmarks |->
     CreateWorkspace(output, Benchmark[b].fixtures)]

MakeWorkspace ==
  /\ pc = "workspace"
  /\ LET made == WorkspaceFor[draft.output, Current.benchmark]
     IN  /\ disk' = disk \cup {WorkspaceId}
         /\ IF made.failed
            THEN Abort /\ excused' = excused \cup {WorkspaceId}
            ELSE /\ pc' = "checks" /\ workspace' = made
                 /\ UNCHANGED <<request, draft, pending, thrown, cache, excused>>
  /\ Leave(<<session, installed, files, complete, spawned, bounds>>)

(* The disk is full or a fixture is gone. *)
MakeWorkspaceFails ==
  /\ pc = "workspace" /\ Fault
  /\ Abort
  /\ \E left \in {{}, {WorkspaceId}} : disk' = disk \cup left /\ excused' = excused \cup left
  /\ Leave(<<session, installed, files, complete, spawned, changes, judgings>>)

Result(check, status) ==
  [blocking |-> check.blocking, structural |-> check.kind # "command", status |-> status]

Settle(check, status) ==
  /\ draft' = [draft EXCEPT !.evals = Append(@, Result(check, status))]
  /\ pending' = Tail(pending)

Checking == pc = "checks" /\ pending # << >>

(* A tool that is not allowed, or that the process knows to be missing.    *)
SkipTool ==
  /\ Checking /\ Head(pending).kind = "command"
  /\ Head(pending).tool \in Allowlist => cache[Head(pending).tool] = "missing"
  /\ Settle(Head(pending),
            IF Head(pending).tool \in Allowlist THEN "not_available" ELSE "error")
  /\ Leave(<<pc, session, request, workspace, thrown, cache, installed, disk, files,
                 ghosts, bounds>>)

EndsOf(tool) == IF tool \in installed THEN Endings \ {"absent", "refused"} ELSE {"absent"}

(* Once per process: any end of the probe but a missing file will do, a    *)
(* refusal too.                                                           *)
ProbeTool ==
  /\ Checking /\ Head(pending).kind = "command"
  /\ LET tool == Head(pending).tool
     IN  /\ tool \in Allowlist /\ cache[tool] = "unknown"
         /\ \E end \in EndsOf(tool) :
              cache' = [cache EXCEPT ![tool] =
                          IF Available(SandboxExec(end)) THEN "available" ELSE "missing"]
  /\ Leave(<<pc, session, request, draft, workspace, pending, thrown, installed, disk, files,
                 ghosts, bounds>>)

(* No room for the directory of the probe: the exception leaves the checks.*)
ProbeThrows ==
  /\ Checking /\ Head(pending).kind = "command"
  /\ Head(pending).tool \in Allowlist /\ cache[Head(pending).tool] = "unknown"
  /\ Fault
  /\ thrown' = TRUE /\ pending' = << >>
  /\ Leave(<<pc, session, request, draft, workspace, cache, installed, disk, files,
                 ghosts, changes, judgings>>)

RunTool ==
  /\ Checking /\ Head(pending).kind = "command"
  /\ LET check == Head(pending)
     IN  /\ check.tool \in Allowlist /\ cache[check.tool] = "available"
         /\ \E end \in EndsOf(check.tool), prints \in Prints :
              /\ Settle(check, CommandStatus(check, SandboxExec(end), prints))
              /\ ran' = IF end = "absent" THEN ran
                        ELSE ran \cup {<<FileOf(Current, Now), Len(draft.evals) + 1>>}
  /\ Leave(<<pc, session, request, workspace, thrown, cache, installed, disk, files,
                 complete, excused, refusals, bounds>>)

(* The system has no process to give to a tool that is there.              *)
RefuseTool ==
  /\ Checking /\ Head(pending).kind = "command" /\ Fault
  /\ LET check == Head(pending)
     IN  /\ check.tool \in Allowlist /\ cache[check.tool] = "available"
         /\ check.tool \in installed
         /\ \E prints \in Prints :
              Settle(check, CommandStatus(check, SandboxExec("refused"), prints))
  /\ refusals' = refusals \cup {<<FileOf(Current, Now), Len(draft.evals) + 1>>}
  /\ Leave(<<pc, session, request, workspace, thrown, cache, installed, disk, files,
                 complete, excused, ran, changes, judgings>>)

EvaluateStructural ==
  /\ Checking /\ Head(pending).kind # "command"
  /\ Settle(Head(pending), StructuralStatus(Head(pending), draft.output,
                                            NeedsWorkspace(Definition), workspace))
  /\ Leave(<<pc, session, request, workspace, thrown, cache, installed, disk, files,
                 ghosts, bounds>>)

(* Mutated form: the workspace is removed only when the checks returned.   *)
RemovedOnReturn == IF thrown THEN {} ELSE {WorkspaceId}

(* The finally of the checks: the workspace goes, however they end.        *)
Removed == {WorkspaceId}

ChecksDone ==
  /\ pc = "checks" /\ pending = << >>
  /\ disk' = disk \ Removed
  /\ IF thrown THEN Abort
     ELSE /\ pc' = "write" /\ workspace' = NoWorkspace
          /\ UNCHANGED <<request, draft, pending, thrown, cache>>
  /\ Leave(<<session, installed, files, ghosts, bounds>>)

(* A removal that fails is passed over.                                    *)
RemovalFails ==
  /\ pc = "checks" /\ pending = << >> /\ WorkspaceId \in disk /\ Fault
  /\ excused' = excused \cup {WorkspaceId}
  /\ IF thrown THEN Abort
     ELSE /\ pc' = "write" /\ workspace' = NoWorkspace
          /\ UNCHANGED <<request, draft, pending, thrown, cache>>
  /\ Leave(<<session, installed, disk, files, complete, spawned, changes,
                 judgings>>)

----------------------------------------------------------------------------
(* The record.                                                             *)

Save(content) ==
  files' = [f \in DOMAIN files \cup {FileOf(Current, Now)} |->
              IF f = FileOf(Current, Now) THEN content ELSE files[f]]

OpenRecord ==
  /\ pc = "write"
  /\ pc' = "writing" /\ Save(Torn)
  /\ Leave(<<session, request, checking, installed, disk, ghosts, bounds>>)

CompleteRecord ==
  /\ pc = "writing" /\ Save(draft)
  /\ IF Tail(todo) # << >>
     THEN Send(Tail(todo)) /\ UNCHANGED <<uninspected, workspace, pending, thrown, cache, complete>>
     ELSE Abort /\ complete' = complete \cup {session}
  /\ Leave(<<session, installed, disk, excused, spawned, bounds>>)

(* The write throws, before or after it emptied the file.                  *)
WriteFails ==
  /\ pc \in {"write", "writing"} /\ Fault
  /\ Abort
  /\ Leave(<<session, installed, disk, files, ghosts, changes, judgings>>)

Crash ==
  /\ pc # "idle" /\ Fault
  /\ Abort
  /\ excused' = excused \cup disk
  /\ Leave(<<session, installed, disk, files, complete, spawned, changes, judgings>>)

----------------------------------------------------------------------------
(* What happens beside the command.                                        *)

ChangeTools ==
  /\ changes < MaxChanges /\ changes' = changes + 1
  /\ installed' \in Installable \ {installed}
  /\ Leave(<<pc, session, request, checking, disk, files, ghosts, faults,
                 judgings>>)

(* Mutated form: the judged record is made afresh, without its checks. *)
JudgedAfresh(record, panel) ==
  [record EXCEPT !.evals = << >>,
                 !.judges = [i \in DOMAIN panel |-> JudgeEvaluate(panel[i], record.output)]]

(* The evaluations of a panel replace those of an earlier one, unless      *)
(* nobody is on it.                                                        *)
Judged(record, panel) ==
  IF panel = << >> THEN record
  ELSE [record EXCEPT !.judges = [i \in DOMAIN panel |-> JudgeEvaluate(panel[i], record.output)]]

(* A caller of the library judges a record that is on disk.                *)
ApplyJudgesToRecord ==
  /\ judgings < MaxJudgings /\ judgings' = judgings + 1
  /\ \E f \in Intact, panel \in Panels :
       /\ HasResponse(files[f])
       /\ files' = [files EXCEPT ![f] = Judged(@, panel)]
  /\ Leave(<<pc, session, request, checking, installed, disk, ghosts, faults,
                 changes>>)

(* A record that is torn fails the whole matrix.                           *)
RunMatrix ==
  /\ files # << >> /\ Intact = DOMAIN files
  /\ matrix' = BuildCapabilityMatrix(files, ExcludeFromRankings /\ SpecFound, Threshold)
  /\ UNCHANGED <<pc, session, request, checking, installed, disk, files, ghosts, bounds>>

----------------------------------------------------------------------------
CheckStep ==
  \/ SkipTool \/ ProbeTool \/ ProbeThrows \/ RunTool \/ RefuseTool \/ EvaluateStructural
  \/ ChecksDone \/ RemovalFails

RecordStep == OpenRecord \/ CompleteRecord \/ WriteFails

Next ==
  \/ StartExperiment \/ InspectDone
  \/ HeadersArrive \/ RequestFails \/ TimerFires \/ Refused \/ Answered
  \/ MakeWorkspace \/ MakeWorkspaceFails \/ CheckStep \/ RecordStep
  \/ Crash \/ ChangeTools \/ ApplyJudgesToRecord \/ RunMatrix

(* What waits for a server and has no time limit: the inspection of a      *)
(* server of one's own, the body of an answer, and OpenRouter's client.    *)
AwaitsServer ==
  \/ pc = "inspect" /\ Kind[Head(uninspected)] = "openai-compatible"
  \/ pc = "body"
  \/ pc = "send" /\ ~timer

(* What happens without a server: the process takes its own steps, a timer *)
(* that runs fires, a verifier ends, by its timeout if need be.            *)
OwnStep ==
  \/ ~AwaitsServer /\ InspectDone
  \/ TimerFires \/ MakeWorkspace \/ CheckStep \/ RecordStep

Fairness == WF_vars(OwnStep)

Spec == Init /\ [][Next]_vars /\ Fairness

----------------------------------------------------------------------------
(* Properties.                                                             *)

(* An invocation that ends normally has left a whole record for every      *)
(* repetition of its plan, as many as there are repetitions and no other   *)
(* file, whatever the requests and checks gave (runExperiment,             *)
(* runner.ts:205-229).                                                     *)
RecordsAccounted ==
  \A s \in complete :
    /\ Cardinality({f \in DOMAIN files : f[2][1] = s}) = Len(Targets) * Len(Suite) * Repetitions
    /\ \A task \in Task : \E f \in Intact :
         /\ f[1] = task /\ f[2][1] = s
         /\ files[f].target = task.target /\ files[f].benchmark = task.benchmark

(* A workspace is on disk only while its checks run, or because a crash or *)
(* a failing call kept the code from removing it: an exception in the      *)
(* checks does not leak it (runSingle's finally, runner.ts:141-149).       *)
OnlyOrphansLeft == disk \subseteq excused \cup (IF pc = "checks" THEN {WorkspaceId} ELSE {})

(* Does a check expect the exit code that a refused start is taken for?    *)
ExitOneExpected ==
  \E b \in Benchmarks : \E c \in Range(Benchmark[b].checks) :
    c.kind = "command" /\ c.expectExitCode = 1

(* The i-th check of file f has the verdict of a process that ran, or the  *)
(* failure (the success, where exit code 1 is what the check expects) that *)
(* the code makes of a process the system would not start.                 *)
Grounded(e, f, i) ==
  ~e.structural /\ e.status \in {"pass", "fail"} =>
    \/ <<f, i>> \in ran
    \/ <<f, i>> \in refusals /\ (e.status = "fail" \/ ExitOneExpected)

(* However stale the cached availability is, a command check of a tool     *)
(* that is not there has no verdict, "so a missing verifier makes a result *)
(* inconclusive rather than failing it" (tools.ts:8-10): it passes only    *)
(* where its process ran, and fails only where it ran or where the system, *)
(* with the tool there, refused to start it.  The last counts as exit code *)
(* 1 (sandbox.ts:97-133), although a spawn error is to be no verdict       *)
(* (evaluators/types.ts:16).                                               *)
NoVerdictWithoutRun ==
  \A f \in Intact : \A i \in DOMAIN files[f].evals : Grounded(files[f].evals[i], f, i)

(* A record, once whole, is never replaced, torn or lost by a later        *)
(* invocation; judging it changes nothing but its judgments.               *)
RecordsKept ==
  [][\A f \in Intact : /\ f \in DOMAIN files' /\ files'[f] # Torn
                       /\ [files'[f] EXCEPT !.judges = files[f].judges] = files[f]]_vars

EvidenceOn(target, b) ==
  {files[f] : f \in {g \in Intact : files[g].target = target /\ files[g].benchmark = b}}

Sound(r) == HasResponse(r) /\ \A i \in DOMAIN r.evals : r.evals[i].status # "error"

Has(r, status) == \E i \in DOMAIN r.evals : r.evals[i].blocking /\ r.evals[i].status = status

(* A target qualifies in a domain only on a benchmark that counts, with an *)
(* answer that passed every blocking check and, where a score is asked     *)
(* for, was judged; no benchmark of the domain that counts is without one  *)
(* (aggregate and buildDomainCell).                                        *)
QualifiedOnEvidence ==
  \A e \in matrix : \A d \in e.qualifiedDomains :
    LET counted == {b \in Benchmarks : /\ Benchmark[b].domain = d /\ ~Benchmark[b].prototype
                                       /\ EvidenceOn(e.target, b) # {}}
        good(r, b) == /\ Sound(r) /\ ~Has(r, "fail") /\ ~Has(r, "not_available")
                      /\ Less(Zero, Benchmark[b].qualification.minimumDomainScore)
                           => r.judges # << >>
    IN  counted # {} /\ \A b \in counted : \E r \in EvidenceOn(e.target, b) : good(r, b)

(* A target is disqualified in a domain only by an answer: one that failed *)
(* a blocking check, was no answer, or was judged.  Failing requests,      *)
(* missing tools and failing checks alone never do (verdict.ts:8-15).      *)
DisqualifiedOnEvidence ==
  \A e \in matrix : \A cell \in e.statuses : cell[2] = "disqualified" =>
    \E b \in Benchmarks : \E r \in EvidenceOn(e.target, b) :
      /\ Benchmark[b].domain = cell[1] /\ ~Benchmark[b].prototype /\ Sound(r)
      /\ Has(r, "fail") \/ r.output.text # "answer" \/ r.judges # << >>

(* Whatever it does, the command comes to an end or to a wait for a server *)
(* that the code gives no time limit: a backend that does not answer, a    *)
(* verifier that hangs or a failing call never stops it anywhere else.     *)
CommandEnds == []<>(pc = "idle" \/ AwaitsServer)

----------------------------------------------------------------------------
(* The parts of the inductive invariant.                                   *)

Judgments ==
  UNION {{JudgeEvaluate(panel[i], output) : i \in DOMAIN panel, output \in Outputs \cup {Blank}} :
           panel \in Panels}

Evaluated == [blocking : BOOLEAN, structural : BOOLEAN, status : Statuses]

Record ==
  [target : Range(Targets), benchmark : Range(Suite), error : {"none", "error"},
   output : Outputs \cup {Blank}, evals : Seq(Evaluated), judges : Seq(Judgments)]

(* The repetitions left are the last ones of the plan; only the inspection *)
(* comes before the first; and the checks left are those of the benchmark. *)
CommandInOrder ==
  /\ IF pc = "idle" THEN todo = << >> ELSE todo # << >>
  /\ todo \in Seq(Task) /\ Len(todo) <= Len(Plan)
  /\ \A i \in DOMAIN todo : todo[i] = Plan[Len(Plan) - Len(todo) + i]
  /\ uninspected \in Seq(Range(Targets))
  /\ pc = "inspect" => uninspected # << >> /\ todo = Plan
  /\ pc \in {"idle", "inspect"} => draft = NoDraft
  /\ pc \in {"workspace", "checks"} => pending \in Seq(Range(Definition.checks))

OfCurrent(record) == record \in Record /\ record.target = Current.target /\ record.benchmark = Current.benchmark

(* The record being made is of the repetition under way, and what its      *)
(* checks say is grounded.                                                 *)
DraftOfCurrent ==
  pc \notin {"idle", "inspect"} =>
    /\ OfCurrent(draft)
    /\ \A i \in DOMAIN draft.evals : Grounded(draft.evals[i], FileOf(Current, Now), i)

(* The file of the repetition of invocation s when k are left.             *)
FileAt(s, k) == FileOf(Plan[Len(Plan) + 1 - k], <<s, k>>)

(* A file is that of some repetition, and whole only if it is about it; of *)
(* the invocation under way there are none for the repetitions that are    *)
(* left, except the one that is being written.                             *)
FilesOfRepetitions ==
  \A f \in DOMAIN files : \E s \in 1..session, k \in 1..Len(Plan) :
    /\ f = FileAt(s, k)
    /\ files[f] = Torn \/ /\ files[f] \in Record
                           /\ files[f].target = f[1].target /\ files[f].benchmark = f[1].benchmark
    /\ s = session /\ pc # "idle" =>
         k > Len(todo) \/ (k = Len(todo) /\ pc = "writing" /\ files[f] = Torn)

(* The repetitions done have whole files, those of invocations that ended  *)
(* normally all have.                                                      *)
DoneIsFiled ==
  /\ pc = "writing" => FileOf(Current, Now) \in DOMAIN files
  /\ pc # "idle" =>
       session # 0 /\ \A k \in 1..Len(Plan) : k > Len(todo) => FileAt(session, k) \in Intact
  /\ \A s \in complete : s \in 1..session /\ (s = session => pc = "idle")
  /\ \A s \in complete, k \in 1..Len(Plan) : FileAt(s, k) \in Intact

(* Every variable has its type, the command is in its order, and what it   *)
(* has left on disk is accounted for.                                      *)
ExperimentInv ==
  /\ pc \in {"idle", "inspect", "send", "body", "workspace", "checks", "write", "writing"}
  /\ session \in 0..MaxSessions /\ timer \in BOOLEAN /\ thrown \in BOOLEAN
  /\ \A t \in DOMAIN cache : cache[t] \in {"unknown", "available", "missing"}
  /\ CommandInOrder /\ DraftOfCurrent /\ FilesOfRepetitions /\ DoneIsFiled
  /\ OnlyOrphansLeft /\ NoVerdictWithoutRun
=============================================================================
