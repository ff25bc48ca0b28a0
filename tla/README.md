# A verification of plinius in TLA+

plinius is a command-line program that benchmarks language models: it asks
models for outputs, keeps a record of every run on disk, has the outputs judged
by evaluator models and by people, and reports. This directory holds TLA+
models of the parts of it that have state and can go wrong, TLC configurations
that check them on small instances, and proofs that TLAPS checks.

Paths below are relative to the root of the repository; its TypeScript source
is in `src/`.

## 1. Inventory

### The parts that keep state

**Worker pool** (`src/utils/executor.ts`). State: the shared cursor
`taskIndex`, the array `results`, and where each worker is. One operation,
`executeWithConcurrency`. It is called by the benchmark and the evaluate
command, which pass callbacks. *Hard*: workers interleave at every await, sleep
for different times and go on after errors. *Correct when*: every task is run
exactly once, at most `concurrency` at a time, no outcome is lost, and the call
returns after the last task.

**Benchmark command** (`src/commands/benchmark.ts`, `src/benchmark/`). State:
the artifacts `<prompt>_<target>_<time>.json` and `.md` in
`benchmark/artifacts/result`; in memory the matrix of pending tasks and two
counters. Operations: one session of the command (resume check, pool, two
writes per task, totals). It shares its directory with the clean and the
evaluate command. *Hard*: the process may die anywhere, a write is not atomic,
and what a later session does depends on nothing but file names. *Correct
when*: resuming repeats nothing, skips only what is there, and gets everything
done in the end; a derived view never exists without its record; the totals
agree with the disk.

**Clean command** (`src/commands/clean.ts`). Removes artifacts one by one and
stops at the first error. *Correct when*: a benchmark resumes after a clean
that stopped anywhere.

**Evaluate command** (`src/commands/evaluate.ts`, `src/evaluation/`). State:
evaluation files, `progress.json`, summary files; in memory the progress object
shared by all workers. Operations: one pass per evaluator model; within it
retries of a judge's call, a save per result, a save of the progress every few
results and at the end, a summary. *Hard*: saves of the same file overlap,
counters are read after awaits, failures of a judge and of a write are treated
differently. *Correct when*: nothing is judged twice, what `progress.json`
promises exists, a finished pass is fully accounted for, every result is judged
by every evaluator in the end.

**Framework campaigns** (`src/commands/campaign.ts`, `src/framework/`,
`src/blind/blind-id.ts`). State: the campaign file and its assets, a record
file per run, the review set, the private mapping from blind ids to runs, the
report. Operations: `campaign run`, the review lifecycle (`advanceTask`,
`submitReview`), `campaign report`. *Hard*: set and mapping are separate files
replaced by every run while reviewers work and reports read; nothing in them
says which run they belong to. *Correct when*: a score is never attributed to
the wrong model, a submitted review counts, the pins of a campaign hold.

**Blind review sets and human review** (`src/blind/`, `src/commands/blind.ts`,
`src/commands/human-review.ts`). State: per set a public tree (`review-set.json`,
item files, an optional pairwise packet), a private mapping and `reviews/`.
Operations: `blind create` (filter, select, redact, assign ids, write), import
with and without update, report, unblind. *Hard*: a set may be generated again
over an older one with another seed, selection or policy while reviews are out;
files that are not written again stay; a crash comes between any two of many
writes; every import truncates the file that holds all earlier ones. *Correct
when*: a mapping fits the set it lies beside, a review is joined with the record
its reviewer read, none is lost or counted twice, the public tree tells nothing
of a run's identity.

**Experiments** (`src/experiment/`, `src/coding/`, `src/evaluators/`,
`src/backends/`). State: a workspace directory per run, a cache of tool
availability per process, a timer per request, record files. Operations:
inspection of backends, repetitions of a run, extraction of files, checks in a
sandbox, judging of a record on disk, the matrix over all records. *Hard*:
failures between creating and removing a workspace; timeouts of a tool; a cached
answer that is no longer true; headers and body that arrive apart; records of
several invocations in one directory. *Correct when*: no workspace outlives its
run, every repetition has its record, what went wrong in the environment is no
verdict on the model, and the command ends.

**Catalogues and what depends on them** (`src/catalog/`, `src/campaign/`,
`src/backend/`, `src/manifest/`, `src/commands/models.ts`, `reproduce.ts`,
`audit.ts`). State: content-addressed snapshots, cohort files, the catalogue a
backend caches, the manifests in run records. Operations: `models sync`, `models
recommend`, discovery and execution by `campaign run`, `reproduce`, `audit`.
*Hard*: the catalogue moves on (and back) between any two of them; a failed
discovery is remembered; a crash leaves the newest snapshot torn. *Correct
when*: advice is about the newest catalogue and not against itself, an answer
that was paid for is kept, nothing is vouched for that has changed.

**Pricing cache** (`src/utils/pricing-fetcher.ts`), **budget tracker**
(`src/campaign/budget.ts`): a map with a time stamp; sums of money. The first is
read by printed tables only, the second by nobody.

### The parts that compute

Verdicts, statistics and the capability matrix, judge parsing, extraction and
checks, normalization and filters of a catalogue, lifecycles, comparison of a
manifest with the present: these are functions of files, and are operators of
the modules `Checks`, `Verdict` and `Catalog`, which the modules with state use.
Benchmark suites, rendering of reports, comparisons and the legacy scripts are
functions, too, and are not modelled. The components list in `PROJECT.json` names
every one, with the reason when it is not modelled.

### How the parts meet

```
 campaign.yaml, assets ──> campaign run ──> records ─────────────┐
                               └──> review set, mapping ──> campaign report
                                        ^ reviewers
 suites, specification ──> experiment ──> records ──> matrix
                                            ├──> blind create ──> public/ ··> reviewers
                                            │        └──> private/mapping      │
                                            └───────── report, unblind <── human-review import
 served models ──> models sync ──> snapshot ──> models recommend ··> cohorts
       └──> campaign run ──> manifest, catalogue ──> reproduce, audit
 prompts, targets ──> benchmark ──> record.json + view.md ──> evaluate ──> evaluations,
                        │  ^                                     │         progress, summary
                        │  └── clean                             │
                        └───────────── worker pool ──────────────┘
```

The commands are separate processes: they meet in files only. Within a process
the workers of the pool share memory and switch at awaits.

## 2. Modules

| module | models | state in the module → in the code |
|---|---|---|
| `TaskBoard` | what callers rely on | `status` of each task; abstract |
| `ResumableWork` | what the operator of `benchmark` and `evaluate` relies on | `status` of each piece of work: its file is absent, torn or whole, or somebody is on the way to it; abstract |
| `WorkerPool` | `executeWithConcurrency` | `taskIndex`, `results` as in the code; `pc`, `index` the place and local variable of each worker; `phase` whether a call is in progress |
| `WorkerPoolProofs` | theorems about `WorkerPool` | – |
| `BenchmarkRun` | benchmark command on the pool, clean command | `disk` the artifacts; `job` what each worker's executor awaits; `completed`, `failed` as in the code |
| `Evaluation` | evaluate command on the pool | `evals`, `file`, `summary` the files; `progress`, `failed` as in the code, `judged` the array `completedResults`; `job` what each worker and the main flow await |
| `CampaignReview` | framework campaigns, reviewers, reports | `files`, `set`, `mapping`, `report` the files; `cmd`, `rep` the commands in progress; `config` the campaign and its assets |
| `BlindStudy` | `blind create`, `human-review` | `set`, `itemFiles`, `pairs`, `mapping`, `reviews`, `pairReviews` the files of one review set; `job` the command in progress |
| `Checks` | extraction, workspaces, deterministic checks, processes | operators only |
| `Verdict` | judges, repetition signals, aggregates, the matrix | operators only, on `Checks` |
| `Experiment` | `experiment`, its backends, `matrix` | `pc` what the command awaits, `todo` the repetitions left, `timer`, `draft`, `workspace`, `pending`, `cache` its locals; `installed` the machine; `disk`, `files` the workspaces and records |
| `Catalog` | catalogues, recommendations, manifests as data | operators only |
| `OnlineCampaign` | `models sync` and `recommend`, backends of a campaign run, `reproduce`, `audit` | `served`, `prompt`, `environment`, `today` the world; `snaps`, `cohort`, `records`, `catalogs` the files; `sync`, `run` the commands in progress; `verdict` the last output |
| `BenchmarkRunProofs`, `EvaluationProofs`, `CampaignReviewProofs`, `BlindStudyProofs`, `ExperimentProofs`, `OnlineCampaignProofs` | theorems about the module of that name | – |
| `VerdictProofs` | lemmas about aggregates and domain verdicts, for `ExperimentProofs` | – |
| `MC…` | instances for TLC | – |

`BenchmarkRun` and `Evaluation` EXTEND `WorkerPool`: their executors are the
callbacks, and the pool's `Call`, `Resolve`, `Reject`, `Wake` and `Return` are
conjuncts of their actions, so that what a worker does between two awaits,
in the callback and in the pool, is one step. Each of the two also INSTANCEs
`ResumableWork` with a refinement mapping: the progress of a task
(`TaskProgress`) or of a result under an evaluator (`EvaluationProgress`) is read
off the files and the workers' jobs.

Conventions. An action is the code between two awaits. `fs.writeFile` is two
steps, creating or truncating the file and filling it, because a crash or
another writer can come between. A definition headed *mutated form* is a
plausible bug in the definition after it; it is not part of any specification
and serves to show that the properties notice.

Abstractions that a reader should know:

* **Durations and delays** are left out: sleeping workers wake in any order,
  which covers every choice of delays and durations.
* **Session and command numbers** stand for the timestamps in file names, and
  `MaxCrashes`, `MaxFaults` and the like bound how often the environment
  interferes. After the bounds are used up the operator may still run a command
  while there is a reason to (`SomethingMissing`, `Unfinished`).
* **An inference** is an answer or an error; what it says is left out.
* **File names**: in `BenchmarkRun` the constant `Shadows` says which target's
  files satisfy another target's prefix check. In `Evaluation` the constant
  `KeyOf` gives the benchmark id and model parsed from a name.
* **Blind ids** are an HMAC in the code; in `CampaignReview` they are the tuple
  of its arguments, which has no collisions between different runs, and the salt
  of a run is how often it came before in the plan. In `BlindStudy` the constant
  `RawId` gives the id of a record with each seed and salt, collisions included;
  the salt loop ends, as `BlindAssumption` says, by `MaxSalt`. Pair ids take no
  salt: the constant `PairId` gives them, collisions included, and `Flip` gives
  the draws of the sides, which depend on the place of a pair in the list.
* **Loops over lists** are stated by what they leave: a session's pending list is
  any list of the pending tasks in the order of the matrix (`Lists`), a plan is a
  function of its index, a model is found at the least index that fits, a rule's
  candidates and the order of checks are given by rank, a merge of reviews by
  which review each place of the new list holds.
* **The summary** of an evaluate pass is the last one: each has a file of its own
  and nothing reads them.
* **Reviewers** store the set after every transition; the source has the
  functions, not the program that calls them.
* **Ghost fields** `stamp` and `about` in `CampaignReview` say which command
  wrote a file and whose output a task shows. No action depends on them.
* **Ghost variables** `seen` (`BlindStudy`), `complete`, `excused`, `ran`,
  `refusals` (`Experiment`), `synced`, `accepted` (`OnlineCampaign`) and the
  fields `origin` of runs and records there (what a run is really made from)
  record what happened for a property's sake; only `Batches` reads one: a
  reviewer may hand in a review of any item that was ever there to read.
* **Outputs of a model** are records of what the code can tell of a text: blank,
  short, refusing or an answer, the files in its envelope and code blocks, the
  patterns and sections it has, the JSON it may be read as. A path is the
  sequence of its segments.
* **Rates and scores** are fractions, compared by cross-multiplication. A rate
  counts the records of a benchmark by file name: their order makes no
  difference to any verdict.
* **Content hashes** are their contents: the id of a snapshot of `models sync` is
  the set of ids and slugs of its models, that of a campaign's catalogue the set
  of all a backend tells of its models (`Descriptor`), a prompt's id its text.
* **Directories can be read** by the resume checks of `benchmark` and `evaluate`.
  In the code a directory that cannot be listed (`commands/benchmark.ts:70-72`,
  `evaluation/progress.ts:78-80`) makes everything pending, so that all of it is
  done again. Cohort files need not be readable: `models recommend` takes the
  names of any part of them (`RunModelsRecommend`).
* **Names of experiment records** hold a time in milliseconds and ids with
  characters replaced; in `FileOf` of `Experiment` they are told apart by the
  invocation and the repetition, so two invocations within a millisecond, or two
  ids that differ in replaced characters only, are left out.
* **Records of a benchmark the suite does not define** are weighed by the matrix
  with a default qualification and domain (`matrix/capability.ts:196-207`);
  `Verdict` has records of defined benchmarks only.
* **`Crash` in `Experiment`** also stands for an operator who interrupts the
  command, and `Fault` for a full disk, a fixture that is gone, a directory that
  cannot be made or removed, or a process the system refuses to start
  (`RefuseTool`), which the code takes for exit code 1.
* In `OnlineCampaign` a behaviour has either syncs and recommendations or
  campaign runs: the two share no file, and `reproduce` is given any catalogue
  of either. `reproduce` and `audit` come while no campaign runs.
* In `Overwrite` of `Evaluation`, writing a longer text over a shorter one
  leaves the longer one whole and the opposite leaves a mixture. The progress
  object only grows within a process, so a longer text is one with more entries.

## 3. Runs

| run | bounds | shows |
|---|---|---|
| `pool_deals` | 3 workers, batches of 0–5 tasks, both delays | no task shared, dropped or stranded; the proofs' invariant; refinement of `TaskBoard`; every call returns |
| `benchmark_resume` | 1 × 2 tasks, 2 workers, 2 crashes, 1 fault, 1 clean that may stop halfway | refinement of `ResumableWork` (resume repeats no run, and leaves a torn record alone); views have records; totals match the disk; every task is filed |
| `benchmark_prefix` | 1 × 2 tasks, no crash | **violation** of `SkippedHaveRecord`: another target's record counts |
| `evaluation_passes` | 2 results, 2 evaluators, 2 workers, save every 2, 1 crash, 1 fault, 2 failed calls | overlapping saves lose nothing that the last save does not repair; summaries match files; refinement of `ResumableWork` (nothing is judged twice); every evaluation is there in the end with its content, but for as many as a crash or a failed write can have cut short |
| `evaluation_format` | 2 results as the benchmark command writes them, no fault | **violation** of `EveryResultEvaluated`: they never parse |
| `campaign_edits` | 2 models × 1 benchmark, or 1 model listed twice after an edit (or the other way round); a run for each reason to run again, 1 crash | attribution, joined artifacts, reports that only grow; reviews reach a report |
| `campaign_pins` | 1 run, 1 edit | **violation** of `PinsHonoured`: a rubric version is not compared |
| `blind_packets` | 5 records of 3 targets, one late and one without answer, 2 seeds of which one has colliding ids, 3 pairs of which two have one id and one is swapped when a third comes, 3 configurations (policies redact, flag and exclude, with and without pairs), 4 commands, batches of 2, 1 crash between any two writes | mapping, set and items fit; reviews are kept, joined with what was read or preferred, and add up |
| `blind_identity` | the same records, two configurations that exclude | **violation** of `PacketHidesIdentity`: the pairwise packet is made from unredacted records |
| `experiment_runs` | 2 targets (one of each client) × 1 benchmark with a check of every kind, 2 outputs of which one collides with itself, 2 invocations, 1 fault (a refused process among them) or crash, 1 change of the tools, 1 judging | every repetition has its record; workspaces do not leak; no verdict without a verifier's run, but for a refused one that counts as failed, or an answer; records are kept; the command ends |
| `planning` | 3 catalogues (one with a model gone), 2 prompts, 2 environments, 1 change, 2 syncs, 1 campaign run on both backends, 1 crash, 1 accepted advice, 2 days | advice, answers; a run is refused exactly when something given is not what it was made from |
| `reproduce_exact` | the same | **violation** of `ExactIsReproducible`: given exactly what a run was made from, `reproduce` does not say so |

Each of `pool_deals`, `benchmark_resume`, `evaluation_passes`, `campaign_edits`,
`blind_packets`, `experiment_runs` and `planning` also checks the inductive
invariant of its module (`PoolInv`, the `ResumeInv` of `BenchmarkRun`, which
contains `BenchmarkInv`, and that of `Evaluation`, which contains
`EvaluationInv`, `CampaignInv`, `BlindInv`, `ExperimentInv`, `OnlineInv`), which hold the types
of all variables and is what section 4 proves.

Why the bounds are enough. The pool's workers differ only in whether they
stagger; three of them with one more task than workers is the least instance in
which one worker starts late, one sleeps after an error and one takes the last
task. Resume needs one interruption and the session after it, and a second kind
of interruption inside that session: two crashes and a fault. An overlapping
save needs two workers that both find a save due: with `SaveEvery = 2` (five in
the code) the second result is counted while the first is still being written,
and both then see the sum 2. A mixed-up set and mapping needs two
completed or interrupted campaign runs whose plans differ: an edit, a crash and
the runs they give reason for. With another seed no ids are in common and
nothing can be joined, so the run has one seed; the theorems are for any number.
A blind review set needs three generations to matter: one whose items are read,
one that replaces it, and, with a crash in it, one whose mapping is missing; with
an import and a report that makes four commands with the second generation
crashing. An experiment needs a second invocation for records to collide and
for a cached availability to end; one benchmark suffices as benchmarks meet
only in the cells of the matrix, and one fault because every fault but a failed
removal ends the command. Advice needs a catalogue that comes back: an earlier
day's snapshot may be there at the start, so that two syncs and one change make
A, B, A. The models of a backend share nothing but its cached catalogue.

`CHECK_DEADLOCK FALSE` is said where the operator has nothing left to do once
the bounds are used up. The pool run checks for deadlock: a caller may always
call again.

### Fairness

* Timers fire and started writes end: weak fairness of each worker's and each
  command's next step.
* An executor handed to the pool settles: weak fairness of `Resolve(w) \/
  Reject(w)` for the pool alone, and of the steps of the executor in the
  commands. For inference this rests on the request's timeout in
  `src/backends/openai-compatible.ts`; the OpenRouter client hands no timeout
  to its library, and a body that stalls is not timed (both are in the list of
  hazards). The liveness results are about calls that end.
* In `Experiment` the process takes its own steps, a timer that is running fires
  and a verifier ends (its sandbox kills it at its timeout): weak fairness of
  `OwnStep`. Nothing is assumed
  of a server: `CommandEnds` says that the command only ever stops in a wait
  the code gives no limit (`AwaitsServer`: an inspection, a body, a call of the
  OpenRouter client), and shows with that where those waits are.
* `BlindStudy` and `OnlineCampaign` have no fairness: nothing in them has to
  happen.
* The operator runs a command again while something is missing. That is no
  property of the code; it is the use the resume checks are made for.
* Crashes, faults, edits, cleaning and reviewing have no fairness.

### What the violations say

* `benchmark_prefix`: the resume check counts file names. A record of a target
  whose id extends this one's by an underscore makes a run count as complete
  that has no record. (`docs/cli.md`: "Skips runs whose JSON record already
  exists".)
* `evaluation_format`: the parser wants the labels `**Model:**` and
  `**Prompt ID:**`; the view writes `**Logical model:**` and no prompt id.
* `blind_identity`: `buildPairwise` is given the selected records and not the
  redacted items, so an answer that the policy `exclude` keeps out of the items
  is in the pairwise packet, unredacted. (`src/blind/writer.ts`: "still public —
  contains no identity".)
* `campaign_pins`: a pinned `rubric_version` is parsed and not compared.
* `reproduce_exact`: the manifest of a campaign run always notes the lifecycle
  UNKNOWN, so a model that is found in the catalogue given seems to have changed
  its lifecycle: given the very catalogue, prompt and environment of the run,
  `reproduce` answers PARTIALLY_REPRODUCIBLE. (`docs/reproducibility.md:91`:
  "catalog + prompt match, no diffs, no lifecycle change" is REPRODUCIBLE.) A
  model that is not found seems to have moved its alias, so no run of a campaign
  is ever REPRODUCIBLE.

Met while modelling, and kept in the list of hazards: a record that a crash left
half written counts as complete too (`SkippedHaveRecord` also fails with
`MaxCrashes = 1` and no shadows); `advanceTask` accepts IN_REVIEW → REVIEWED
without a review; a model listed twice gives two tasks one blind id; a record
torn by a crash makes `campaign report` throw until the same run is executed
again, and for ever when an edit has dropped that run from the campaign
(`ReportsBlocked`, which `ReviewsReachReport` has to except).

Further:

* An evaluation file that a crash or a failed write cut short has the right name,
  so the resume check counts it: that result is never judged again. `docs/cli.md`
  says that each result is evaluated with all models; `EvaluatedUnlessCutShort`
  states what holds, with the number of files that can be lost so.
* Running a campaign again replaces its review set and the reviews in it
  (`ReviewsReachReport` excepts that).
* `src/experiment/runner.ts:77` says that `runSingle` never throws. It does where
  an output has the files `main` and `main/a`: `mkdir` fails in `createWorkspace`,
  the experiment ends, the answer is in no record and the workspace stays
  (`MakeWorkspace`).
* After a failed discovery the OpenRouter backend of a campaign run remembers the
  rejected catalogue: every answer is generated, then dropped when its price is
  asked for (`Execute`). `GenerationKept` states what holds besides.
* An import truncates `imported.json` before it writes it: a crash in between
  loses all reviews. A torn record file makes `matrix` throw for the whole
  directory until it is removed, and a torn newest snapshot makes `models
  recommend` throw until the next sync. An import stores reviews that lie in other
  files beside `imported.json` twice.
* A cohort that pins a canonical slug is advised to drop a model that is still
  served, as cohorts are compared with ids only; models past their expiry are
  never proposed for removal, as the command gives no earlier snapshot.
* Verifiers that print too much, or for which the system has no process left,
  count as failed, one killed by a signal as timed out (`SandboxExec`), although
  `src/evaluators/types.ts:16` calls such errors no verdict.
* A missing verifier in one repetition and a failed check in another add up in
  `deterministicPassRate`: with thresholds below one the missing one can tip the
  verdict.
* An answer of fewer than twenty characters, however correct, is a refusal, and
  a judge that fails scores the minimum (`Verdict`).
* Collisions of blind ids that depend on the selection, and pairwise sides that
  depend on what else is in the packet, tie reviews to the generation they were
  written for: nothing in a review says which that was. Two pairs with one id,
  which nothing prevents, are counted for one of them (`Attributable` excepts
  both cases of pairs).

The runs that pass take instances outside these defects where the defect
would mask everything else: `Shadows` is empty and files have the layout the
parser reads. Interrupted writes stay in: the properties hold with them, or name
what they cost.

## 4. Proofs

The theorems hold for every value of the constants that the module's ASSUME
allows, and TLC evaluates the assumptions on every instance. Each proof has the
same shape: an invariant that is a conjunction of named parts, a lemma or two
for each action, one step for each part the action can disturb, and the
properties as consequences of the invariant.

**`WorkerPoolProofs`** – every set of tasks, every task list, every
`Concurrency > 0` and all delays (`PoolAssumption`).

* `PoolInvariant`: `PoolInv` is inductive. None of the properties is so by
  itself: that no task is dropped needs to know that a worker holds a task
  exactly while its executor runs (`HeldTasks`); that the held tasks are distinct
  (`NoSharedTask`) needs that held positions are at most the cursor; that the
  call returns only when all is settled needs that a worker leaves only at the
  end of the list (`NoIdleExit`) and that the workers the call should create
  exist (`SpawnedWorkers`).
* `ReturnImpliesSettled`: with a non-empty list worker 1 exists and has left, so
  the cursor is at the end; every claimed task has a result or a holder, and
  nobody holds one.
* `TasksNotShared`: from the invariant.
* `PoolImplementsBoard`: the refinement. The worker that holds a task is the
  slot of the task on the board, and distinct workers hold distinct tasks.

**`BenchmarkRunProofs`** – every matrix without repeats, every relation of
shadowing names, any number of workers, sessions, crashes, faults and cleans
(`BenchmarkAssumption`: the pool may be given every sublist of the matrix).
`BenchmarkInv` adds to `PoolInv` that the session's list has no repeats
(`PoolOfSession`), that a file of the running session is of a task that was
claimed (`FilesClaimed`), that a worker at the view has written the record
(`JobRecord`), that the two counters are the whole views of the session
(`CountersMatch`), that a waiting task has no record (`WaitingUnrecorded`) and
that a session nothing disturbs files every task (`LastSessionFiles`).

* `ViewsHaveRecords`: a view never outlives its record but by a clean.
* `TotalsAreRight`: the totals printed are those of the disk. A cardinality
  changes by one with every resolved executor because the task of a worker that
  settles is no other worker's (`PoolInv`) and had no view yet (`FilesClaimed`).
* `RunsNotRepeated`: an action property, by `WaitingUnrecorded`.
* `SessionsImplementStore`: the refinement of `ResumableWork`, whose pieces of
  work are the tasks. `ResumeInvariant` adds to `BenchmarkInv` that a task has
  one JSON file at most, that the one a worker is on the way to is its own and
  open, and that a waiting task has none (`RecordsClaimed`). Each step moves the
  progress of the tasks of the workers it concerns and of no other: a record that
  is whole is never opened again, one that is torn stays so, and files disappear
  only by a clean, while no worker has one open. It says more than
  `RunsNotRepeated`, which is about whole records only.

**`EvaluationProofs`** – every order of results and evaluators, any intervals of
saving and numbers of attempts (`EvaluationAssumption`). `EvaluationInv` adds to
`PoolInv` that the pool runs just in a pass (`PassOfEvaluator`), that every
entry in the progress file, in the object and in any snapshot that a save still
holds is backed by a file (`EntriesBacked`), that the counters count the results
nobody judges any more (`CountedOnce`), that the files of a pass are those of
the judged results and that what is resolved is entered (`JudgedFiled`), and
that the last save has the file to itself (`ClosingSaved`).

* `ProgressBacked`, `JudgingNotRepeated`, `ClosedPassRecorded`, `SummaryIsTrue`.
  That overlapping saves are harmless is the third: the progress object only
  grows, and the save that closes the pass starts when no worker is left.
* `PassesImplementWork`: the refinement of `ResumableWork`, whose pieces of work
  are the pairs of a result and an evaluator, and whose files nobody removes.
  `JudgingInvariant` adds to `EvaluationInv` that a result which waits or is with
  the judge has no file by this evaluator, and that one being written has a file
  without content (`EvaluationsClaimed`). That the pairs of evaluators before and
  after the one whose turn it is stay as they are is part of it. It says more
  than `JudgingNotRepeated`, which is about whole evaluations only.

**`CampaignReviewProofs`** – all configurations with a model, a backend and a
repetition, any plans, seeds and edits (`CampaignAssumption`). `CampaignInv` has
ids that tell their run (`IdsNameRuns`), a record for every run before the
command's position (`RecordsWritten`), a set of this command while its mapping
is written (`SetOfCommand`), command numbers that are not used yet
(`StampsUnused`) and scores that stay (`ScoresKept`).

* `AttributionIsRight`: whatever set and mapping meet in a report, even of two
  commands with different plans, an id that both have is of one run.
* `CompletedRunJoined`, `ReportsOnlyGrow`: action properties.

**`BlindStudyProofs`** – all records, configurations and tables of raw ids in
which the salts suffice (`BlindAssumption`). `BlindInv` relates set, items and
mapping of a generation (`PacketComplete`), what `blind create` has still to
write to what is on disk (`PacketOfCommand`), the pairs to the mapping
(`PairsMapped`) and the reviews to each other (`ReviewsInOrder`).

* `PacketsComplete`, `AcceptedJoined`.
* `PairsAttributed`: for packets and mappings of any two generations. The sides of
  a pair are a function of what they were drawn from, so a mapping drawn from the
  same has the same sides, and an id that is one pair's own leads to that pair.
* `ReviewsAreKept`: for lists of any length, as the new list is given place by
  place.
* `AttributedWhenTogether`: under `CollidingTogether` – records whose ids can be
  the same are of one seed and always selected together – a review is joined
  with the record its reviewer read. The salted ids are assigned one after
  another; that an assignment exists, is unique and gives each id once is shown
  by a least counterexample (`SaltsExist`, `SameIdEverywhere`, `GivenOnce`).
  Without the hypothesis it is false: see *Further* above. The instance of
  `blind_packets` has collisions and satisfies it.

**`VerdictProofs`, `ExperimentProofs`** – all targets, suites, checks, answers
and ways processes end, any number of invocations (`ExperimentAssumption`), and
qualifications whose rates are between zero and one (`VerdictAssumption`, the
schema's own condition). `ExperimentInv` says that the repetitions left are the
end of the plan and the checks left are the benchmark's (`CommandInOrder`), that
the record being made is of the current repetition and its command checks ran or
were refused (`DraftOfCurrent`), that every file is of a repetition and, when
whole, is about it (`FilesOfRepetitions`), and that the repetitions done are
filed (`DoneIsFiled`); `OnlyOrphansLeft` and `NoVerdictWithoutRun` are parts of it.

* `InvocationsAccounted`: the plan takes every target, benchmark and repetition
  exactly once (division and remainder), names differ by time, so the files of
  an invocation that ended normally are in bijection with its plan.
* `WorkspacesRemoved`, `RecordsAreKept`.
* `VerdictsGroundedInRuns`: a verdict of a command check needs a process that ran,
  or one that the system refused to start while the tool was there; what is
  cached of a tool decides nothing.
* `QualifiedHasEvidence`: where the thresholds ask for something (`Demanding`:
  some passing repetitions, or all of them where a mean score is asked for as
  well; the schema's default, all and no score, is such a one), a domain is
  qualified only by an answer that passed, on every benchmark of it that counts.
  With a pass rate of zero, or a score asked for and a rate below one, the
  property need not hold: no repetition has to pass, or the judged one and the
  passing one may be different.
* `DisqualifiedHasEvidence`: whatever the thresholds. If no repetition failed a
  check, was no answer or was judged, all pass and none is catastrophic, and
  rates of all and of none violate no threshold between zero and one.

**`OnlineCampaignProofs`** – all catalogues, prompts, environments, models,
backends, rules and cohorts (`OnlineAssumption`). `OnlineInv` says that whole
snapshots are named after their models, that the newest is the last one opened
(`SnapshotsNamed`), what a campaign run knows at each stage (`RunInOrder`) and
that a record is of the run its name says (`RecordsFaithful`);
`GenerationKept` and `VerdictsGrounded` are parts of it.

* `AnswersAreKept`.
* `VerdictsOnGrounds`: what a manifest says of its run is what the run was made
  from (`RecordsFaithful`), and a catalogue is known by its id, so comparing ids
  is comparing contents; a model of a campaign's catalogue never has an expiry
  there, so none counts as retired by the run's own catalogue.
* `AdviceRestsOnCatalogue`: for all catalogues and whichever cohort files can be
  read, the larger part of `AdviceHolds`.
* `AdviceIsConsistent`: `AdviceHolds` itself under `NamesAreOwn`: a catalogue
  lists an id once, and a model that calls itself by the id of another, in this
  catalogue or an earlier one, does so only where that id is listed too. Where a
  model moves from an id into the slug of another one, the code does advise to
  remove what it had proposed, as cohorts are compared with ids only.

Checked by TLC only:

* Liveness – `CallReturns`, `EveryTaskFiled`, `EvaluatedUnlessCutShort`,
  `ReviewsReachReport`, `CommandEnds`: fairness and ENABLED are out of the
  prover's reach.
* `ReportAdds`: that the counts of a report add up is about a sum over a set, an
  induction over data.

## 5. What is not modelled, and the plan

The components list gives the reason for each part. In short:

* **Functions no command reaches**: most of `src/campaign/` (budget, plan,
  profiles, reasoning, routing, retention, parameter validation, the larger part
  of cost). Their callers, and so the order of their calls, are not in the source.
* **Output**: rendering of reports and matrices, `compare`, cost tables, lists and
  differences of catalogues, backend capabilities and health. They read files,
  print and keep nothing.
* **Parsing**: benchmark suites, prompts, campaign assets, specifications,
  configurations; the models take their results as constants.
* **Legacy scripts** (`src/evaluate.ts`, `src/utils/clean-failed.ts`): the earlier,
  sequential form of commands that are modelled; no command runs them.

What is left, in order:

1. A register of reviews for blind sets, as an abstract specification that
   `BlindStudy` implements, as `TaskBoard` is one for the pool and
   `ResumableWork` for the benchmark and evaluate commands.
2. `Pipeline` – benchmark, clean and evaluate on one directory, for the hazard
   that spans two commands (a record whose view was never written).
3. Reviews that an operator puts beside `imported.json`, which an import stores
   twice.
