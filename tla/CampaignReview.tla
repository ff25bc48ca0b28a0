---------------------------- MODULE CampaignReview ----------------------------
(***************************************************************************)
(* The benchmark framework's campaigns (src/commands/campaign.ts,          *)
(* src/framework): `campaign run` executes a plan of runs, leaves a record *)
(* file per run, and then replaces the blind review set and its private    *)
(* mapping; reviewers move the set's tasks through their lifecycle;        *)
(* `campaign report` joins reviewed scores to models through the mapping.  *)
(*                                                                         *)
(* The artifacts are plain files.  A write truncates the file ("torn") and *)
(* then fills it ("ok"); the command may end between any two steps, by a   *)
(* crash or a failed write; the operator may then edit the campaign and    *)
(* its assets, run again with another seed, or report while a run is in    *)
(* progress.  A review set carries no run identity: the fields marked      *)
(* ghost below are not in the files and no action depends on them.         *)
(***************************************************************************)
EXTENDS Integers, SequencesExt, FiniteSets

CONSTANTS
  Configs,      \* the campaigns, with the assets on disk, the operator may set up
  Seeds,        \* --seed, or the default derived from the campaign's id
  MaxCommands,  \* bound: campaign runs the operator makes without need
  MaxEdits,     \* bound: how often the operator edits the campaign
  MaxCrashes    \* bound: how often a command ends early

ASSUME CampaignAssumption ==
  /\ \A c \in Configs :
       /\ c.backends \in Seq(ToSet(c.backends)) /\ Len(c.backends) > 0
       /\ c.models \in Seq(ToSet(c.models)) /\ Len(c.models) > 0
       /\ c.refs \in Seq(ToSet(c.refs)) /\ c.repetitions \in Nat \ {0}
  /\ {MaxCommands, MaxEdits, MaxCrashes} \subseteq Nat

VARIABLES
  config,    \* the campaign file and the assets it refers to
  files,     \* reports/<campaign>/runs: a record file for each run id
  set,       \* reviews/<campaign>/review-set.json
  mapping,   \* reviews/<campaign>/private/mapping.json
  cmd,       \* the `campaign run` in progress
  rep,       \* the `campaign report` in progress
  report,    \* the last report written
  commands, edits, crashes

artifacts == <<files, set, mapping>>
bounds == <<edits, crashes>>
vars == <<config, artifacts, cmd, rep, report, commands, bounds>>

(* One campaign run more than there are reasons to run again. *)
LastCommand == MaxCommands + MaxEdits + MaxCrashes + 1

States == <<"CREATED", "ASSIGNED", "IN_REVIEW", "REVIEWED", "FINALIZED">>

Reviewed == {"REVIEWED", "FINALIZED"}

(* Each state has one successor, the last has none. *)
CanTransition(from, to) == \E i \in 1..(Len(States) - 1) : from = States[i] /\ to = States[i + 1]

(* The runs in the order of the nested loops: backends, models, benchmarks,*)
(* repetitions.  A run id is a hash of exactly these fields, so the record *)
(* of fields stands for it.                                                *)
Plan(c) ==
  LET m == Len(c.models)
      b == Len(c.refs)
      k == c.repetitions
      run(n) == LET ref == c.refs[((n \div k) % b) + 1]
                IN  [backend |-> c.backends[(n \div (m * b * k)) + 1],
                     model |-> c.models[((n \div (b * k)) % m) + 1],
                     benchmark |-> ref.id, content |-> c.assets[ref.id].content,
                     rep |-> (n % k) + 1]
  IN  [i \in 1..(Len(c.backends) * m * b * k) |-> run(i - 1)]

Runs == UNION {ToSet(Plan(c)) : c \in Configs}

(* References must exist, and a pinned version must be the asset's. *)
Resolves(c) ==
  \A i \in 1..Len(c.refs) :
    /\ c.refs[i].id \in DOMAIN c.assets
    /\ c.refs[i].version \in {"any", c.assets[c.refs[i].id].version}

(* An HMAC, keyed by the seed, of the run id and a salt: taken to have no  *)
(* collisions between different runs.                                      *)
RawId(seed, run, salt) == <<seed, run, salt>>

(* Mutated form: blind ids are numbers handed out in order. *)
AssignBlindIdsInOrder(plan, seed) ==
  [run \in ToSet(plan) |-> CHOOSE i \in 1..Len(plan) : plan[i] = run]

(* A run id whose blind id is taken already is tried with the next salt.   *)
(* Only an earlier occurrence of the same run can have taken it, and the   *)
(* last occurrence decides which id the run gets.                          *)
AssignBlindIds(plan, seed) ==
  [run \in ToSet(plan) |->
     RawId(seed, run, Cardinality({i \in 1..Len(plan) : plan[i] = run}) - 1)]

NoSet == [kind |-> "none", stamp |-> 0, tasks |-> << >>]

NoMapping == [kind |-> "none", stamp |-> 0, entries |-> << >>]

(* ghost: stamp tells which command wrote the file, about is the run whose *)
(* output the task asks the reviewer to score.                             *)
ReviewSet(plan, seed, stamp) ==
  [kind |-> "ok", stamp |-> stamp,
   tasks |-> [i \in 1..Len(plan) |->
                [blindId |-> AssignBlindIds(plan, seed)[plan[i]], state |-> "CREATED",
                 comment |-> FALSE, about |-> plan[i]]]]

ReviewMapping(plan, seed, stamp) ==
  [kind |-> "ok", stamp |-> stamp,
   entries |-> [i \in 1..Len(plan) |->
                  [blindId |-> AssignBlindIds(plan, seed)[plan[i]], run |-> plan[i]]]]

NoCommand == [stage |-> "down", pos |-> 0, plan |-> << >>, seed |-> "none"]

NoReporter == [stage |-> "down", set |-> NoSet]

NoReport == [stamps |-> <<0, 0>>, scores |-> {}]

(* The operator has a reason to run the campaign (again) unless all of it  *)
(* is there.                                                               *)
Unfinished ==
  ~ /\ set.kind = "ok" /\ mapping.kind = "ok" /\ set.stamp = mapping.stamp
    /\ \A r \in ToSet(Plan(config)) : r \in DOMAIN files /\ files[r].whole

Init ==
  /\ config \in Configs
  /\ files = [run \in {} |-> [whole |-> TRUE]] /\ set = NoSet /\ mapping = NoMapping
  /\ cmd = NoCommand /\ rep = NoReporter /\ report = NoReport
  /\ commands = 0 /\ edits = 0 /\ crashes = 0

Edit(c) ==
  /\ edits < MaxEdits /\ c # config
  /\ config' = c /\ edits' = edits + 1
  /\ UNCHANGED <<artifacts, cmd, rep, report, commands, crashes>>

(* Mutated form: records of an earlier run of the same plan are kept and   *)
(* the command goes straight to the review set.                            *)
StartRunResuming(seed) ==
  /\ cmd.stage = "down" /\ Resolves(config) /\ Len(config.refs) > 0
  /\ commands < MaxCommands \/ (Unfinished /\ commands < LastCommand)
  /\ commands' = commands + 1
  /\ cmd' = [NoCommand EXCEPT !.plan = Plan(config), !.seed = seed, !.pos = 1,
               !.stage = IF ToSet(Plan(config)) \subseteq DOMAIN files THEN "openSet"
                         ELSE "execute"]
  /\ UNCHANGED <<config, artifacts, rep, report, bounds>>

(* `campaign run`: with an unknown benchmark, a wrong version or nothing   *)
(* to run the command ends at once.                                        *)
StartRun(seed) ==
  /\ cmd.stage = "down" /\ Resolves(config) /\ Len(config.refs) > 0
  /\ commands < MaxCommands \/ (Unfinished /\ commands < LastCommand)
  /\ commands' = commands + 1
  /\ cmd' = [NoCommand EXCEPT !.stage = "execute", !.pos = 1, !.plan = Plan(config), !.seed = seed]
  /\ UNCHANGED <<config, artifacts, rep, report, bounds>>

RecordFile(whole) ==
  LET run == cmd.plan[cmd.pos]
  IN  [r \in DOMAIN files \cup {run} |-> IF r = run THEN [whole |-> whole] ELSE files[r]]

(* A generation ends.  It never stops the campaign: when it failed, the    *)
(* record says so, and the run is reviewed and reported like the others.   *)
Execute ==
  /\ cmd.stage = "execute"
  /\ files' = RecordFile(FALSE)
  /\ cmd' = [cmd EXCEPT !.stage = "record"]
  /\ UNCHANGED <<config, set, mapping, rep, report, commands, bounds>>

(* Mutated form: the loop goes one run too far. *)
WriteRecordPastEnd ==
  /\ cmd.stage = "record"
  /\ files' = RecordFile(TRUE)
  /\ cmd' = IF cmd.pos <= Len(cmd.plan) THEN [cmd EXCEPT !.stage = "execute", !.pos = @ + 1]
            ELSE [cmd EXCEPT !.stage = "openSet"]
  /\ UNCHANGED <<config, set, mapping, rep, report, commands, bounds>>

(* The record is written; after the last one the command writes the        *)
(* catalogs, which nothing reads back, and turns to the review set.        *)
WriteRecord ==
  /\ cmd.stage = "record"
  /\ files' = RecordFile(TRUE)
  /\ cmd' = IF cmd.pos < Len(cmd.plan) THEN [cmd EXCEPT !.stage = "execute", !.pos = @ + 1]
            ELSE [cmd EXCEPT !.stage = "openSet"]
  /\ UNCHANGED <<config, set, mapping, rep, report, commands, bounds>>

OpenSet ==
  /\ cmd.stage = "openSet"
  /\ set' = [NoSet EXCEPT !.kind = "torn"]
  /\ cmd' = [cmd EXCEPT !.stage = "set"]
  /\ UNCHANGED <<config, files, mapping, rep, report, commands, bounds>>

WriteSet ==
  /\ cmd.stage = "set"
  /\ set' = ReviewSet(cmd.plan, cmd.seed, commands)
  /\ cmd' = [cmd EXCEPT !.stage = "openMapping"]
  /\ UNCHANGED <<config, files, mapping, rep, report, commands, bounds>>

OpenMapping ==
  /\ cmd.stage = "openMapping"
  /\ mapping' = [NoMapping EXCEPT !.kind = "torn"]
  /\ cmd' = [cmd EXCEPT !.stage = "mapping"]
  /\ UNCHANGED <<config, files, set, rep, report, commands, bounds>>

WriteMapping ==
  /\ cmd.stage = "mapping"
  /\ mapping' = ReviewMapping(cmd.plan, cmd.seed, commands)
  /\ cmd' = NoCommand
  /\ UNCHANGED <<config, files, set, rep, report, commands, bounds>>

(* The command dies, or one of its writes throws. *)
Crash ==
  /\ cmd.stage # "down" /\ crashes < MaxCrashes
  /\ crashes' = crashes + 1
  /\ cmd' = NoCommand
  /\ UNCHANGED <<config, artifacts, rep, report, commands, edits>>

(* The first task with the blind id is the one that is found.              *)
Found(i) == \A j \in 1..(i - 1) : set.tasks[j].blindId # set.tasks[i].blindId

AdvanceTask(i, to) ==
  /\ set.kind = "ok" /\ Found(i)
  /\ CanTransition(set.tasks[i].state, to)
  /\ set' = [set EXCEPT !.tasks[i].state = to]
  /\ UNCHANGED <<config, files, mapping, cmd, rep, report, commands, bounds>>

(* Mutated form: a review may be taken back to be revised.                 *)
SubmitReviewRevising(i) ==
  /\ set.kind = "ok" /\ Found(i)
  /\ set.tasks[i].state \in {"IN_REVIEW", "REVIEWED"}
  /\ set' = [set EXCEPT !.tasks[i].comment = ~@,
                        !.tasks[i].state = IF @ = "REVIEWED" THEN "IN_REVIEW" ELSE "REVIEWED"]
  /\ UNCHANGED <<config, files, mapping, cmd, rep, report, commands, bounds>>

SubmitReview(i) ==
  /\ set.kind = "ok" /\ Found(i)
  /\ set.tasks[i].state = "IN_REVIEW"
  /\ set' = [set EXCEPT !.tasks[i].comment = TRUE, !.tasks[i].state = "REVIEWED"]
  /\ UNCHANGED <<config, files, mapping, cmd, rep, report, commands, bounds>>

(* `campaign report` reads every record; one that is torn makes it throw.  *)
LoadRecords ==
  /\ rep.stage = "down"
  /\ DOMAIN files # {} /\ \A r \in DOMAIN files : files[r].whole
  /\ rep' = [rep EXCEPT !.stage = "set"]
  /\ UNCHANGED <<config, artifacts, cmd, report, commands, bounds>>

(* A review set or mapping that cannot be read counts as absent.           *)
LoadSet ==
  /\ rep.stage = "set"
  /\ rep' = [rep EXCEPT !.stage = "mapping", !.set = IF set.kind = "ok" THEN set ELSE NoSet]
  /\ UNCHANGED <<config, artifacts, cmd, report, commands, bounds>>

(* Mutated form: only tasks still in REVIEWED count. *)
IsScoredOnlyReviewed(task) == task.state = "REVIEWED" /\ task.comment

IsScored(task) == task.state \in Reviewed /\ task.comment

(* The scores that count, each with the model it is attributed to: reviews *)
(* with a comment whose blind id the mapping knows.                        *)
AggregateResults(tasks, entries) ==
  {[model |-> entries[p[2]].run.model, about |-> tasks[p[1]].about] :
     p \in {q \in (1..Len(tasks)) \X (1..Len(entries)) :
              entries[q[2]].blindId = tasks[q[1]].blindId /\ IsScored(tasks[q[1]])}}

(* The mapping is read and the report is written. *)
WriteReport ==
  /\ rep.stage = "mapping"
  /\ report' = [stamps |-> <<rep.set.stamp, mapping.stamp>>,
                scores |-> AggregateResults(rep.set.tasks, mapping.entries)]
  /\ rep' = NoReporter
  /\ UNCHANGED <<config, artifacts, cmd, commands, bounds>>

CommandStep ==
  Execute \/ WriteRecord \/ OpenSet \/ WriteSet \/ OpenMapping \/ WriteMapping

ReportStep == LoadRecords \/ LoadSet \/ WriteReport

Next ==
  \/ \E c \in Configs : Edit(c)
  \/ \E seed \in Seeds : StartRun(seed)
  \/ CommandStep \/ Crash \/ ReportStep
  \/ \E i \in 1..Len(set.tasks) : SubmitReview(i) \/ \E to \in ToSet(States) : AdvanceTask(i, to)

Safety == Init /\ [][Next]_vars

(* Generations and writes end, the operator runs the campaign again while  *)
(* it is unfinished, and asks for reports again and again.                 *)
Fairness ==
  /\ WF_vars(CommandStep) /\ WF_vars(ReportStep)
  /\ WF_vars(Unfinished /\ \E seed \in Seeds : StartRun(seed))

Spec == Safety /\ Fairness
-----------------------------------------------------------------------------
Stage == {"down", "execute", "record", "openSet", "set", "openMapping", "mapping"}

BlindId == Seeds \X Runs \X Nat

Task == [blindId : BlindId, state : ToSet(States), comment : BOOLEAN, about : Runs]

Entry == [blindId : BlindId, run : Runs]

Kind == {"none", "torn", "ok"}

SetFile == [kind : Kind, stamp : 0..LastCommand, tasks : Seq(Task)]

(* Types of the variables. *)
TypeOK ==
  /\ config \in Configs
  /\ files \in [DOMAIN files -> [whole : BOOLEAN]] /\ DOMAIN files \subseteq Runs
  /\ set \in SetFile
  /\ mapping \in [kind : Kind, stamp : 0..LastCommand, entries : Seq(Entry)]
  /\ cmd \in [stage : Stage, pos : Nat, plan : Seq(Runs), seed : Seeds \cup {"none"}]
  /\ cmd.stage = "down" \/ (cmd.pos \in 1..Len(cmd.plan) /\ cmd.seed \in Seeds)
  /\ rep \in [stage : {"down", "set", "mapping"}, set : SetFile]
  /\ report \in [stamps : (0..LastCommand) \X (0..LastCommand),
                 scores : SUBSET [model : {r.model : r \in Runs}, about : Runs]]
  /\ commands \in 0..LastCommand /\ edits \in 0..MaxEdits /\ crashes \in 0..MaxCrashes

(* A score is attributed to the model whose output was scored, even when   *)
(* the review set and the mapping come from different runs, or are         *)
(* replaced while the report is being built: "a task with no mapping is    *)
(* skipped, never guessed".                                                *)
ScoresAttributed == \A s \in report.scores : s.model = s.about.model

(* When a campaign run ends normally its artifacts fit together, whatever  *)
(* earlier runs left behind: every task is mapped to the run it was made   *)
(* from, and the record of that run is whole.                              *)
CompletedRunIsJoined ==
  [][cmd.stage # "down" /\ cmd'.stage = "down" /\ crashes' = crashes =>
       /\ set'.kind = "ok" /\ mapping'.kind = "ok"
       /\ \A i \in 1..Len(set'.tasks) :
            /\ [blindId |-> set'.tasks[i].blindId, run |-> set'.tasks[i].about]
                 \in ToSet(mapping'.entries)
            /\ files'[set'.tasks[i].about].whole]_vars

(* A score that a report has counted is counted by every later report over *)
(* the same review set and mapping: reviewing only adds scores.            *)
ReportsGrow ==
  [][report' # report /\ report'.stamps = report.stamps => report.scores \subseteq report'.scores]_vars

Scored(r) ==
  \E i \in 1..Len(set.tasks) :
    set.tasks[i].about = r /\ set.tasks[i].state \in Reviewed /\ set.tasks[i].comment

(* A torn record of a run that the edited campaign no longer has: nothing  *)
(* writes it again, and every report throws.                               *)
ReportsBlocked == \E r \in DOMAIN files : ~files[r].whole /\ r \notin ToSet(Plan(config))

(* A submitted review gets into a report in the end, unless a later run of *)
(* the campaign replaces the review set it is in, or an edit of the        *)
(* campaign after a crash leaves a record torn for ever.                   *)
ReviewsReachReport ==
  \A r \in Runs :
    Scored(r) ~> \/ ~Scored(r)
                 \/ \E s \in report.scores : s.about = r
                 \/ []ReportsBlocked

(* A run whose pins do not hold does not start: "A campaign may pin {id,   *)
(* version, rubric_version} per benchmark; a version mismatch fails the    *)
(* run rather than silently evaluating a different asset."                 *)
PinsHonoured ==
  [][commands' # commands =>
       \A i \in 1..Len(config.refs) :
         LET ref == config.refs[i]
         IN  /\ ref.version \in {"any", config.assets[ref.id].version}
             /\ ref.rubricVersion \in {"any", config.assets[ref.id].rubricVersion}]_vars

(* The inductive invariant behind the safety properties, part by part.     *)

(* A blind id tells, to who knows the seed, the run it was made for; an    *)
(* absent or torn file lists nothing.                                      *)
IdsNameRuns ==
  /\ \A tasks \in {set.tasks, rep.set.tasks} :
       \A i \in 1..Len(tasks) : tasks[i].blindId[2] = tasks[i].about
  /\ \A j \in 1..Len(mapping.entries) : mapping.entries[j].blindId[2] = mapping.entries[j].run
  /\ set.stamp = 0 => set.tasks = << >>
  /\ rep.set.stamp = 0 => rep.set.tasks = << >>
  /\ mapping.stamp = 0 => mapping.entries = << >>

(* The command has left a whole record of every run before its position;   *)
(* only a run listed twice has its record written again.                   *)
RecordsWritten ==
  \A k \in 1..Len(cmd.plan) :
    (cmd.stage \in {"execute", "record"} => k < cmd.pos) /\ cmd.stage # "down" =>
      /\ cmd.plan[k] \in DOMAIN files
      /\ files[cmd.plan[k]].whole \/ (cmd.stage = "record" /\ cmd.plan[k] = cmd.plan[cmd.pos])

(* While the mapping is written the review set is this command's.          *)
SetOfCommand ==
  cmd.stage \in {"openMapping", "mapping"} =>
    /\ set.kind = "ok" /\ Len(set.tasks) = Len(cmd.plan)
    /\ \A i \in 1..Len(cmd.plan) :
         /\ set.tasks[i].about = cmd.plan[i]
         /\ set.tasks[i].blindId = AssignBlindIds(cmd.plan, cmd.seed)[cmd.plan[i]]

(* A command writes its set and its mapping once: until then nobody has    *)
(* seen one of its number.                                                 *)
StampsUnused ==
  /\ \A stamp \in {set.stamp, rep.set.stamp, report.stamps[1]} :
       /\ stamp <= commands
       /\ cmd.stage \in {"execute", "record", "openSet", "set"} => stamp < commands
  /\ \A stamp \in {mapping.stamp, report.stamps[2]} :
       /\ stamp <= commands
       /\ cmd.stage # "down" => stamp < commands

(* The tasks ts have become us: none was lost, and no score was withdrawn. *)
Grown(ts, us) ==
  /\ Len(us) = Len(ts)
  /\ \A i \in 1..Len(ts) :
       /\ us[i].blindId = ts[i].blindId /\ us[i].about = ts[i].about
       /\ IsScored(ts[i]) => IsScored(us[i])

(* A review set only grows while it keeps its number, and what the last    *)
(* report counted is still counted in the files it was made from and in    *)
(* what the report in progress has read of them.                           *)
ScoresKept ==
  /\ rep.set.stamp = set.stamp => Grown(rep.set.tasks, set.tasks)
  /\ report.stamps = <<set.stamp, mapping.stamp>> =>
       report.scores \subseteq AggregateResults(set.tasks, mapping.entries)
  /\ rep.stage = "mapping" /\ report.stamps = <<rep.set.stamp, mapping.stamp>> =>
       report.scores \subseteq AggregateResults(rep.set.tasks, mapping.entries)
  /\ 0 \in {report.stamps[1], report.stamps[2]} => report.scores = {}

CampaignInv ==
  /\ TypeOK
  /\ IdsNameRuns
  /\ RecordsWritten
  /\ SetOfCommand
  /\ StampsUnused
  /\ ScoresAttributed
  /\ ScoresKept
=============================================================================
