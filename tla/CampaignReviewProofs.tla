------------------------- MODULE CampaignReviewProofs -------------------------
(***************************************************************************)
(* Proofs about CampaignReview for every set of campaigns and seeds, any   *)
(* number of commands, edits and crashes, and any interleaving of          *)
(* reviewers, a campaign run and a report.                                 *)
(***************************************************************************)
EXTENDS CampaignReview, FiniteSetTheorems, TLAPS

(* A product is positive if both factors are, and zero if one is.          *)
LEMMA PositiveProduct ==
  ASSUME NEW a \in Nat \ {0}, NEW b \in Nat \ {0}
  PROVE  a * b \in Nat \ {0}
OBVIOUS

LEMMA ZeroProduct ==
  ASSUME NEW a \in Nat, NEW b \in Nat, a = 0 \/ b = 0
  PROVE  a * b = 0
OBVIOUS

(* The plan of a campaign is a list of runs, and is not empty unless the    *)
(* campaign refers to no benchmark.                                        *)
LEMMA PlanTyped ==
  ASSUME NEW c \in Configs
  PROVE  Plan(c) \in Seq(Runs) /\ (Len(c.refs) > 0 => Len(Plan(c)) > 0)
<1> DEFINE m == Len(c.models)
           b == Len(c.refs)
           k == c.repetitions
           n == Len(c.backends) * m * b * k
           run(x) == LET ref == c.refs[((x \div k) % b) + 1]
                     IN  [backend |-> c.backends[(x \div (m * b * k)) + 1],
                          model |-> c.models[((x \div (b * k)) % m) + 1],
                          benchmark |-> ref.id, content |-> c.assets[ref.id].content,
                          rep |-> (x % k) + 1]
<1>1. /\ Len(c.backends) \in Nat \ {0} /\ m \in Nat \ {0} /\ b \in Nat /\ k \in Nat \ {0}
  BY CampaignAssumption
<1>2. n \in Nat /\ (b # 0 => n \in Nat \ {0})
  <2>1. Len(c.backends) * m \in Nat \ {0}
    BY <1>1, PositiveProduct, Zenon
  <2>2. ASSUME b # 0 PROVE n \in Nat \ {0}
    <3>1. b \in Nat \ {0}
      BY <1>1, <2>2
    <3>2. Len(c.backends) * m * b \in Nat \ {0}
      BY <2>1, <3>1, PositiveProduct, Zenon
    <3>3. QED
      BY <1>1, <3>2, PositiveProduct, Zenon
  <2>3. ASSUME b = 0 PROVE n = 0
    <3>1. Len(c.backends) * m * b = 0
      BY <1>1, <2>1, <2>3, ZeroProduct, Zenon
    <3>2. 0 \in Nat /\ k \in Nat
      BY <1>1
    <3>3. QED
      BY <3>1, <3>2, ZeroProduct, Zenon
  <2>4. QED
    <3> HIDE DEF n
    <3>1. QED
      BY <2>2, <2>3
<1>3. Plan(c) = [i \in 1..n |-> run(i - 1)]
  BY Zenon DEF Plan
<1> HIDE DEF n, run
<1>4. DOMAIN Plan(c) = 1..n /\ \A i \in 1..n : Plan(c)[i] = run(i - 1)
  BY <1>3
<1>5. \A i \in 1..n : run(i - 1) \in Runs
  <2>1. Plan(c) \in {Plan(d) : d \in Configs}
    OBVIOUS
  <2>2. ToSet(Plan(c)) \subseteq Runs
    BY DEF Runs
  <2>3. QED
    BY <1>4, <2>2 DEF ToSet
<1>6. Plan(c) \in Seq(Runs) /\ Len(Plan(c)) = n
  BY <1>2, <1>3, <1>5
<1>7. QED
  BY <1>1, <1>2, <1>6

(* The blind id of a run names the run. *)
LEMMA IdsTyped ==
  ASSUME NEW plan \in Seq(Runs), NEW seed \in Seeds, NEW i \in 1..Len(plan)
  PROVE  /\ AssignBlindIds(plan, seed)[plan[i]] \in BlindId
         /\ AssignBlindIds(plan, seed)[plan[i]][2] = plan[i]
<1> DEFINE same == {j \in 1..Len(plan) : plan[j] = plan[i]}
<1>1. plan[i] \in ToSet(plan) /\ plan[i] \in Runs /\ Len(plan) \in Nat
  BY DEF ToSet
<1>2. IsFiniteSet(1..Len(plan))
  BY <1>1, FS_Interval
<1>3. IsFiniteSet(same) /\ same # {}
  BY <1>2, FS_Subset
<1>4. Cardinality(same) \in Nat /\ Cardinality(same) # 0
  BY <1>3, FS_CardinalityType, FS_EmptySet
<1>5. AssignBlindIds(plan, seed)[plan[i]] = <<seed, plan[i], Cardinality(same) - 1>>
  BY <1>1 DEF AssignBlindIds, RawId
<1>6. Cardinality(same) - 1 \in Nat
  BY <1>4
<1> HIDE DEF same
<1>7. QED
  BY <1>1, <1>5, <1>6 DEF BlindId

-----------------------------------------------------------------------------
(* What a report counts over given tasks and mapping entries: nothing if    *)
(* one of the two is empty, scores of the right type, and scores that are   *)
(* attributed to the model they are about if the blind ids name the runs.   *)
LEMMA AggregateTyped ==
  ASSUME NEW tasks \in Seq(Task), NEW entries \in Seq(Entry)
  PROVE  /\ AggregateResults(tasks, entries)
              \subseteq [model : {r.model : r \in Runs}, about : Runs]
         /\ tasks = << >> \/ entries = << >> => AggregateResults(tasks, entries) = {}
<1>1. \A i \in 1..Len(tasks) : tasks[i] \in Task
  OBVIOUS
<1>2. \A j \in 1..Len(entries) : entries[j] \in Entry
  OBVIOUS
<1>3. /\ \A i \in 1..Len(tasks) : tasks[i].about \in Runs
      /\ \A j \in 1..Len(entries) : entries[j].run \in Runs
  <2>1. \A i \in 1..Len(tasks) : tasks[i].about \in Runs
    BY <1>1 DEF Task
  <2>2. \A j \in 1..Len(entries) : entries[j].run \in Runs
    BY <1>2 DEF Entry
  <2>3. QED
    BY <2>1, <2>2
<1>4. QED
  BY <1>3 DEF AggregateResults

LEMMA AggregateAttributed ==
  ASSUME NEW tasks \in Seq(Task), NEW entries \in Seq(Entry),
         \A i \in 1..Len(tasks) : tasks[i].blindId[2] = tasks[i].about,
         \A j \in 1..Len(entries) : entries[j].blindId[2] = entries[j].run
  PROVE  \A s \in AggregateResults(tasks, entries) : s.model = s.about.model
BY DEF AggregateResults

(* A set that has grown is counted at least as it was before.               *)
LEMMA AggregateGrows ==
  ASSUME NEW ts \in Seq(Task), NEW us \in Seq(Task), NEW entries \in Seq(Entry), Grown(ts, us)
  PROVE  AggregateResults(ts, entries) \subseteq AggregateResults(us, entries)
BY DEF AggregateResults, Grown

LEMMA GrownTransitive ==
  ASSUME NEW ts \in Seq(Task), NEW us \in Seq(Task), NEW vs \in Seq(Task),
         Grown(ts, us), Grown(us, vs)
  PROVE  Grown(ts, vs)
BY DEF Grown

(* The bounds of the model are numbers. *)
LEMMA BoundsTyped ==
  /\ MaxCommands \in Nat /\ MaxEdits \in Nat /\ MaxCrashes \in Nat /\ LastCommand \in Nat
  /\ MaxCommands <= LastCommand
<1>1. MaxCommands \in Nat /\ MaxEdits \in Nat /\ MaxCrashes \in Nat
  BY CampaignAssumption
<1>2. QED
  BY <1>1 DEF LastCommand

(* In the beginning there is nothing. *)
LEMMA CampaignInit == Init => CampaignInv
<1> SUFFICES ASSUME Init PROVE CampaignInv
  OBVIOUS
<1> USE BoundsTyped DEF Init, NoSet, NoMapping, NoCommand, NoReporter, NoReport
<1>1. LastCommand \in Nat
  OBVIOUS
<1>2. << >> \in Seq(Task) /\ << >> \in Seq(Entry) /\ << >> \in Seq(Runs)
  OBVIOUS
<1>3. DOMAIN files = {}
  OBVIOUS
<1>4. TypeOK
  <2>1. files \in [DOMAIN files -> [whole : BOOLEAN]]
    BY <1>3
  <2>2. set \in SetFile /\ rep.set \in SetFile
    BY <1>1, <1>2 DEF SetFile, Kind
  <2>3. QED
    BY <1>1, <1>2, <1>3, <2>1, <2>2 DEF TypeOK, Kind, Stage
<1>5. IdsNameRuns
  BY DEF IdsNameRuns
<1>6. RecordsWritten /\ SetOfCommand
  BY DEF RecordsWritten, SetOfCommand
<1>7. StampsUnused
  BY DEF StampsUnused
<1>8. ScoresAttributed /\ ScoresKept
  BY DEF ScoresAttributed, ScoresKept, Grown
<1>9. QED
  BY <1>4, <1>5, <1>6, <1>7, <1>8 DEF CampaignInv

(* Types that the proofs below keep needing. *)
LEMMA LengthTyped == \A S : \A s \in Seq(S) : Len(s) \in Nat
<1>1. SUFFICES ASSUME NEW S, NEW s \in Seq(S) PROVE Len(s) \in Nat
  OBVIOUS
<1>2. QED
  BY <1>1

LEMMA FieldTypes ==
  ASSUME TypeOK
  PROVE  /\ set.tasks \in Seq(Task) /\ rep.set.tasks \in Seq(Task) /\ mapping.entries \in Seq(Entry)
         /\ set.stamp \in 0..LastCommand /\ rep.set.stamp \in 0..LastCommand
         /\ mapping.stamp \in 0..LastCommand
         /\ report.stamps = <<report.stamps[1], report.stamps[2]>>
         /\ report.stamps[1] \in 0..LastCommand /\ report.stamps[2] \in 0..LastCommand
         /\ commands \in 0..LastCommand /\ commands \in Nat
         /\ cmd.plan \in Seq(Runs) /\ Len(cmd.plan) \in Nat
         /\ Len(set.tasks) \in Nat
         /\ edits \in 0..MaxEdits /\ crashes \in 0..MaxCrashes
<1>1. /\ set \in SetFile /\ rep.set \in SetFile /\ commands \in 0..LastCommand
      /\ mapping.entries \in Seq(Entry) /\ mapping.stamp \in 0..LastCommand
      /\ cmd.plan \in Seq(Runs)
      /\ report.stamps \in (0..LastCommand) \X (0..LastCommand)
      /\ edits \in 0..MaxEdits /\ crashes \in 0..MaxCrashes
  BY DEF TypeOK
<1>2. /\ set.tasks \in Seq(Task) /\ rep.set.tasks \in Seq(Task)
      /\ set.stamp \in 0..LastCommand /\ rep.set.stamp \in 0..LastCommand
  BY <1>1 DEF SetFile
<1>3. commands \in Nat
  BY <1>1, BoundsTyped
<1>4. Len(cmd.plan) \in Nat /\ Len(set.tasks) \in Nat
  <2>1. cmd.plan \in Seq(Runs) /\ set.tasks \in Seq(Task)
    BY <1>1, <1>2
  <2>2. QED
    BY <2>1, LengthTyped
<1>5. /\ report.stamps = <<report.stamps[1], report.stamps[2]>>
      /\ report.stamps[1] \in 0..LastCommand /\ report.stamps[2] \in 0..LastCommand
  BY <1>1
<1>6. QED
  BY <1>1, <1>2, <1>3, <1>4, <1>5

(* The operator edits the campaign: nothing else depends on it any more.    *)
LEMMA EditInv == ASSUME CampaignInv, NEW c \in Configs, Edit(c) PROVE CampaignInv'
<1>1. /\ config' = c /\ edits < MaxEdits /\ edits' = edits + 1
      /\ UNCHANGED <<files, set, mapping, cmd, rep, report, commands, crashes>>
  BY DEF Edit, artifacts
<1> USE DEF CampaignInv
<1>2. TypeOK'
  <2>1. edits' \in 0..MaxEdits
    <3>1. edits \in 0..MaxEdits /\ MaxEdits \in Nat
      BY FieldTypes, BoundsTyped
    <3> HIDE DEF CampaignInv
    <3>2. QED
      BY <1>1, <3>1
  <2>2. QED
    BY <1>1, <2>1 DEF TypeOK
<1>3. IdsNameRuns' /\ RecordsWritten' /\ SetOfCommand' /\ StampsUnused' /\ ScoresAttributed'
  BY <1>1 DEF IdsNameRuns, RecordsWritten, SetOfCommand, StampsUnused, ScoresAttributed
<1>4. ScoresKept'
  BY <1>1 DEF ScoresKept
<1>5. QED
  BY <1>2, <1>3, <1>4

(* A campaign run starts: its number is new.                                *)
LEMMA StartRunInv == ASSUME CampaignInv, NEW seed \in Seeds, StartRun(seed) PROVE CampaignInv'
<1> DEFINE c == [stage |-> "execute", pos |-> 1, plan |-> Plan(config), seed |-> seed]
<1>1. /\ cmd.stage = "down" /\ Len(config.refs) > 0
      /\ commands < MaxCommands \/ commands < LastCommand
      /\ commands' = commands + 1 /\ cmd' = c
      /\ UNCHANGED <<config, files, set, mapping, rep, report, edits, crashes>>
  BY DEF StartRun, NoCommand, artifacts, bounds
<1> USE DEF CampaignInv
<1>2. Plan(config) \in Seq(Runs) /\ Len(Plan(config)) > 0 /\ Len(Plan(config)) \in Nat
  <2>1. config \in Configs
    BY DEF TypeOK
  <2> HIDE DEF CampaignInv
  <2>2. Plan(config) \in Seq(Runs) /\ Len(Plan(config)) > 0
    BY <1>1, <2>1, PlanTyped
  <2>3. QED
    BY <2>2
<1>3. commands \in Nat /\ commands' \in 0..LastCommand
  <2>1. commands \in Nat /\ LastCommand \in Nat /\ MaxCommands \in Nat /\ MaxCommands <= LastCommand
    BY FieldTypes, BoundsTyped
  <2> HIDE DEF CampaignInv
  <2>2. QED
    BY <1>1, <2>1
<1>4. /\ cmd'.stage = "execute" /\ cmd'.pos = 1 /\ cmd'.plan = Plan(config) /\ cmd'.seed = seed
      /\ cmd' \in [stage : Stage, pos : Nat, plan : Seq(Runs), seed : Seeds \cup {"none"}]
  BY <1>1, <1>2 DEF Stage
<1> HIDE DEF c
<1>5. TypeOK'
  <2>1. cmd'.pos \in 1..Len(cmd'.plan) /\ cmd'.seed \in Seeds
    BY <1>2, <1>4
  <2>2. /\ config' \in Configs /\ set' \in SetFile
        /\ files' \in [DOMAIN files' -> [whole : BOOLEAN]] /\ DOMAIN files' \subseteq Runs
        /\ mapping' \in [kind : Kind, stamp : 0..LastCommand, entries : Seq(Entry)]
    BY <1>1 DEF TypeOK
  <2>3. /\ rep' \in [stage : {"down", "set", "mapping"}, set : SetFile]
        /\ report' \in [stamps : (0..LastCommand) \X (0..LastCommand),
                        scores : SUBSET [model : {r.model : r \in Runs}, about : Runs]]
        /\ edits' \in 0..MaxEdits /\ crashes' \in 0..MaxCrashes
    BY <1>1 DEF TypeOK
  <2> HIDE DEF CampaignInv
  <2>4. QED
    BY <1>3, <1>4, <2>1, <2>2, <2>3 DEF TypeOK
<1>6. IdsNameRuns' /\ SetOfCommand' /\ ScoresAttributed'
  <2>1. IdsNameRuns' /\ ScoresAttributed'
    BY <1>1 DEF IdsNameRuns, ScoresAttributed
  <2>2. SetOfCommand'
    BY <1>4 DEF SetOfCommand
  <2>3. QED
    BY <2>1, <2>2
<1>7. RecordsWritten'
  BY <1>2, <1>4 DEF RecordsWritten
<1>8. StampsUnused'
  <2>1. \A s \in {set.stamp, rep.set.stamp, report.stamps[1], mapping.stamp, report.stamps[2]} :
          s \in 0..LastCommand /\ s <= commands
    BY FieldTypes DEF StampsUnused
  <2> HIDE DEF CampaignInv
  <2>2. \A s \in {set.stamp, rep.set.stamp, report.stamps[1], mapping.stamp, report.stamps[2]} :
          s <= commands' /\ s < commands'
    <3>1. \A s \in 0..LastCommand : s <= commands => s <= commands' /\ s < commands'
      BY <1>1, <1>3, BoundsTyped
    <3>2. QED
      BY <2>1, <3>1
  <2>3. QED
    BY <1>1, <2>2 DEF StampsUnused
<1>9. ScoresKept'
  BY <1>1 DEF ScoresKept
<1>10. QED
  BY <1>5, <1>6, <1>7, <1>8, <1>9

(* A step of the record loop: the record of the run at the command's        *)
(* position is torn or whole, and the loop goes on or ends.                 *)
LEMMA RecordFileStep ==
  ASSUME CampaignInv, cmd.stage \in {"execute", "record"}, NEW whole \in BOOLEAN,
         files' = RecordFile(whole)
  PROVE  /\ files' \in [DOMAIN files' -> [whole : BOOLEAN]] /\ DOMAIN files' \subseteq Runs
         /\ DOMAIN files' = DOMAIN files \cup {cmd.plan[cmd.pos]}
         /\ files'[cmd.plan[cmd.pos]].whole = whole
         /\ \A r \in DOMAIN files : r # cmd.plan[cmd.pos] => files'[r] = files[r]
<1> DEFINE run == cmd.plan[cmd.pos]
<1>1. run \in Runs
  <2>1. cmd.plan \in Seq(Runs)
    BY FieldTypes DEF CampaignInv
  <2>2. cmd.pos \in 1..Len(cmd.plan)
    BY DEF CampaignInv, TypeOK
  <2>3. QED
    BY <2>1, <2>2
<1>2. files' = [r \in DOMAIN files \cup {run} |-> IF r = run THEN [whole |-> whole] ELSE files[r]]
  BY DEF RecordFile
<1>3. files \in [DOMAIN files -> [whole : BOOLEAN]] /\ DOMAIN files \subseteq Runs
  BY DEF CampaignInv, TypeOK
<1> HIDE DEF run
<1>4. /\ DOMAIN files' = DOMAIN files \cup {run}
      /\ files'[run] = [whole |-> whole]
      /\ \A r \in DOMAIN files : r # run => files'[r] = files[r]
  BY <1>2
<1>5. \A r \in DOMAIN files' : files'[r] \in [whole : BOOLEAN]
  BY <1>3, <1>4
<1>6. files' \in [DOMAIN files' -> [whole : BOOLEAN]]
  BY <1>2, <1>4, <1>5
<1>7. QED
  BY <1>1, <1>3, <1>4, <1>6 DEF run

(* A generation ends and its record file is truncated. *)
LEMMA ExecuteInv == ASSUME CampaignInv, Execute PROVE CampaignInv'
<1>1. /\ cmd.stage = "execute" /\ files' = RecordFile(FALSE)
      /\ cmd' = [cmd EXCEPT !.stage = "record"]
      /\ UNCHANGED <<config, set, mapping, rep, report, commands, edits, crashes>>
  BY DEF Execute, bounds
<1> USE DEF CampaignInv
<1>2. /\ cmd'.stage = "record" /\ cmd'.pos = cmd.pos /\ cmd'.plan = cmd.plan /\ cmd'.seed = cmd.seed
      /\ cmd' \in [stage : Stage, pos : Nat, plan : Seq(Runs), seed : Seeds \cup {"none"}]
  BY <1>1 DEF TypeOK, Stage
<1>3. /\ files' \in [DOMAIN files' -> [whole : BOOLEAN]] /\ DOMAIN files' \subseteq Runs
      /\ DOMAIN files' = DOMAIN files \cup {cmd.plan[cmd.pos]}
      /\ \A r \in DOMAIN files : r # cmd.plan[cmd.pos] => files'[r] = files[r]
  BY <1>1, RecordFileStep
<1>4. TypeOK'
  BY <1>1, <1>2, <1>3 DEF TypeOK
<1>5. IdsNameRuns' /\ SetOfCommand' /\ StampsUnused' /\ ScoresAttributed'
  BY <1>1, <1>2 DEF IdsNameRuns, SetOfCommand, StampsUnused, ScoresAttributed
<1>6. RecordsWritten'
  BY <1>1, <1>2, <1>3 DEF RecordsWritten
<1>7. ScoresKept'
  BY <1>1 DEF ScoresKept
<1>8. QED
  BY <1>4, <1>5, <1>6, <1>7

(* The record is whole; the loop goes on, or the review set is next. *)
LEMMA WriteRecordInv == ASSUME CampaignInv, WriteRecord PROVE CampaignInv'
<1>1. /\ cmd.stage = "record" /\ files' = RecordFile(TRUE)
      /\ cmd' = IF cmd.pos < Len(cmd.plan) THEN [cmd EXCEPT !.stage = "execute", !.pos = @ + 1]
                ELSE [cmd EXCEPT !.stage = "openSet"]
      /\ UNCHANGED <<config, set, mapping, rep, report, commands, edits, crashes>>
  BY DEF WriteRecord, bounds
<1> USE DEF CampaignInv
<1>2. cmd.pos \in 1..Len(cmd.plan) /\ Len(cmd.plan) \in Nat /\ cmd.seed \in Seeds
  BY <1>1, FieldTypes DEF TypeOK
<1>3. /\ cmd'.plan = cmd.plan /\ cmd'.seed = cmd.seed
      /\ \/ cmd.pos < Len(cmd.plan) /\ cmd'.stage = "execute" /\ cmd'.pos = cmd.pos + 1
         \/ cmd.pos = Len(cmd.plan) /\ cmd'.stage = "openSet" /\ cmd'.pos = cmd.pos
      /\ cmd' \in [stage : Stage, pos : Nat, plan : Seq(Runs), seed : Seeds \cup {"none"}]
  <2>1. cmd \in [stage : Stage, pos : Nat, plan : Seq(Runs), seed : Seeds \cup {"none"}]
    BY DEF TypeOK
  <2>2. CASE cmd.pos < Len(cmd.plan)
    <3>1. cmd' = [cmd EXCEPT !.stage = "execute", !.pos = cmd.pos + 1]
      BY <1>1, <2>2
    <3>2. cmd.pos + 1 \in Nat /\ "execute" \in Stage
      BY <1>2 DEF Stage
    <3>3. /\ cmd'.stage = "execute" /\ cmd'.pos = cmd.pos + 1
          /\ cmd'.plan = cmd.plan /\ cmd'.seed = cmd.seed
      BY <2>1, <3>1
    <3>4. cmd' \in [stage : Stage, pos : Nat, plan : Seq(Runs), seed : Seeds \cup {"none"}]
      BY <2>1, <3>1, <3>2
    <3>5. QED
      BY <2>2, <3>3, <3>4
  <2>3. CASE ~(cmd.pos < Len(cmd.plan))
    <3>1. cmd' = [cmd EXCEPT !.stage = "openSet"] /\ cmd.pos = Len(cmd.plan)
      BY <1>1, <1>2, <2>3
    <3>2. QED
      BY <2>1, <3>1 DEF Stage
  <2>4. QED
    BY <2>2, <2>3
<1>4. /\ files' \in [DOMAIN files' -> [whole : BOOLEAN]] /\ DOMAIN files' \subseteq Runs
      /\ DOMAIN files' = DOMAIN files \cup {cmd.plan[cmd.pos]}
      /\ files'[cmd.plan[cmd.pos]].whole
      /\ \A r \in DOMAIN files : r # cmd.plan[cmd.pos] => files'[r] = files[r]
  BY <1>1, RecordFileStep
<1>5. TypeOK'
  <2>1. cmd'.pos \in 1..Len(cmd'.plan) /\ cmd'.seed \in Seeds
    BY <1>2, <1>3
  <2>2. QED
    BY <1>1, <1>3, <1>4, <2>1 DEF TypeOK
<1>6. IdsNameRuns' /\ SetOfCommand' /\ ScoresAttributed'
  BY <1>1, <1>3 DEF IdsNameRuns, SetOfCommand, ScoresAttributed
<1>7. StampsUnused'
  BY <1>1, <1>3 DEF StampsUnused
<1>8. RecordsWritten'
  <2> SUFFICES ASSUME NEW k \in 1..Len(cmd.plan), cmd'.stage = "execute" => k < cmd'.pos
               PROVE  cmd.plan[k] \in DOMAIN files' /\ files'[cmd.plan[k]].whole
    BY <1>3 DEF RecordsWritten
  <2>1. k < cmd.pos \/ k = cmd.pos
    BY <1>2, <1>3
  <2>2. CASE k < cmd.pos
    BY <1>1, <1>4, <2>2 DEF RecordsWritten
  <2>3. CASE k = cmd.pos
    BY <1>4, <2>3
  <2>4. QED
    BY <2>1, <2>2, <2>3
<1>9. ScoresKept'
  BY <1>1 DEF ScoresKept
<1>10. QED
  BY <1>5, <1>6, <1>7, <1>8, <1>9

(* The review set is truncated. *)
LEMMA OpenSetInv == ASSUME CampaignInv, OpenSet PROVE CampaignInv'
<1>1. /\ cmd.stage = "openSet" /\ set' = [kind |-> "torn", stamp |-> 0, tasks |-> << >>]
      /\ cmd' = [cmd EXCEPT !.stage = "set"]
      /\ UNCHANGED <<config, files, mapping, rep, report, commands, edits, crashes>>
  BY DEF OpenSet, NoSet, bounds
<1> USE DEF CampaignInv
<1>2. /\ cmd'.stage = "set" /\ cmd'.pos = cmd.pos /\ cmd'.plan = cmd.plan /\ cmd'.seed = cmd.seed
      /\ cmd' \in [stage : Stage, pos : Nat, plan : Seq(Runs), seed : Seeds \cup {"none"}]
  BY <1>1 DEF TypeOK, Stage
<1>3. set' \in SetFile
  BY <1>1, BoundsTyped DEF SetFile, Kind
<1>4. TypeOK'
  BY <1>1, <1>2, <1>3 DEF TypeOK
<1>5. IdsNameRuns' /\ SetOfCommand' /\ ScoresAttributed'
  BY <1>1, <1>2 DEF IdsNameRuns, SetOfCommand, ScoresAttributed
<1>6. RecordsWritten'
  BY <1>1, <1>2 DEF RecordsWritten
<1>7. StampsUnused'
  BY <1>1, <1>2, FieldTypes DEF StampsUnused
<1>8. ScoresKept'
  <2>1. set'.stamp = 0 /\ set'.tasks = << >> /\ UNCHANGED <<rep, mapping, report>>
    BY <1>1
  <2>2. report.stamps = <<report.stamps[1], report.stamps[2]>>
    BY FieldTypes
  <2>3. rep'.set.stamp = set'.stamp => Grown(rep'.set.tasks, set'.tasks)
    BY <2>1 DEF IdsNameRuns, Grown
  <2>4. report'.stamps = <<set'.stamp, mapping'.stamp>> => report'.scores = {}
    BY <2>1, <2>2 DEF ScoresKept
  <2>5. /\ rep'.stage = "mapping" /\ report'.stamps = <<rep'.set.stamp, mapping'.stamp>> =>
             report'.scores \subseteq AggregateResults(rep'.set.tasks, mapping'.entries)
        /\ 0 \in {report'.stamps[1], report'.stamps[2]} => report'.scores = {}
    BY <2>1 DEF ScoresKept
  <2> HIDE DEF CampaignInv
  <2>6. QED
    BY <2>3, <2>4, <2>5 DEF ScoresKept
<1>9. QED
  BY <1>4, <1>5, <1>6, <1>7, <1>8

(* The review set that a command writes lists its plan. *)
LEMMA ReviewSetTyped ==
  ASSUME NEW plan \in Seq(Runs), NEW seed \in Seeds, NEW stamp \in 0..LastCommand
  PROVE  /\ ReviewSet(plan, seed, stamp) \in SetFile
         /\ ReviewSet(plan, seed, stamp).kind = "ok" /\ ReviewSet(plan, seed, stamp).stamp = stamp
         /\ Len(ReviewSet(plan, seed, stamp).tasks) = Len(plan)
         /\ \A i \in 1..Len(plan) :
              /\ ReviewSet(plan, seed, stamp).tasks[i].about = plan[i]
              /\ ReviewSet(plan, seed, stamp).tasks[i].blindId = AssignBlindIds(plan, seed)[plan[i]]
              /\ AssignBlindIds(plan, seed)[plan[i]][2] = plan[i]
<1> DEFINE id(i) == AssignBlindIds(plan, seed)[plan[i]]
           task(i) == [blindId |-> id(i), state |-> "CREATED", comment |-> FALSE, about |-> plan[i]]
           tasks == [i \in 1..Len(plan) |-> task(i)]
<1>1. Len(plan) \in Nat /\ \A i \in 1..Len(plan) : plan[i] \in Runs
  OBVIOUS
<1>2. \A i \in 1..Len(plan) : id(i) \in BlindId /\ id(i)[2] = plan[i]
  BY IdsTyped
<1>3. ReviewSet(plan, seed, stamp) = [kind |-> "ok", stamp |-> stamp, tasks |-> tasks]
  BY DEF ReviewSet
<1> HIDE DEF id
<1>4. "CREATED" \in ToSet(States)
  BY DEF ToSet, States
<1>5. \A i \in 1..Len(plan) : task(i) \in Task /\ task(i).about = plan[i] /\ task(i).blindId = id(i)
  BY <1>1, <1>2, <1>4 DEF Task
<1> HIDE DEF task
<1>6. tasks \in Seq(Task) /\ Len(tasks) = Len(plan) /\ \A i \in 1..Len(plan) : tasks[i] = task(i)
  BY <1>1, <1>5
<1> HIDE DEF tasks
<1>7. [kind |-> "ok", stamp |-> stamp, tasks |-> tasks] \in SetFile
  BY <1>6 DEF SetFile, Kind
<1>8. QED
  BY <1>2, <1>3, <1>5, <1>6, <1>7 DEF id

(* The same for the mapping. *)
LEMMA ReviewMappingTyped ==
  ASSUME NEW plan \in Seq(Runs), NEW seed \in Seeds, NEW stamp \in 0..LastCommand
  PROVE  /\ ReviewMapping(plan, seed, stamp) \in [kind : Kind, stamp : 0..LastCommand, entries : Seq(Entry)]
         /\ ReviewMapping(plan, seed, stamp).kind = "ok"
         /\ ReviewMapping(plan, seed, stamp).stamp = stamp
         /\ Len(ReviewMapping(plan, seed, stamp).entries) = Len(plan)
         /\ \A i \in 1..Len(plan) :
              /\ ReviewMapping(plan, seed, stamp).entries[i]
                   = [blindId |-> AssignBlindIds(plan, seed)[plan[i]], run |-> plan[i]]
              /\ AssignBlindIds(plan, seed)[plan[i]][2] = plan[i]
<1> DEFINE id(i) == AssignBlindIds(plan, seed)[plan[i]]
           entry(i) == [blindId |-> id(i), run |-> plan[i]]
           entries == [i \in 1..Len(plan) |-> entry(i)]
<1>1. Len(plan) \in Nat /\ \A i \in 1..Len(plan) : plan[i] \in Runs
  OBVIOUS
<1>2. \A i \in 1..Len(plan) : id(i) \in BlindId /\ id(i)[2] = plan[i]
  BY IdsTyped
<1>3. ReviewMapping(plan, seed, stamp) = [kind |-> "ok", stamp |-> stamp, entries |-> entries]
  BY DEF ReviewMapping
<1> HIDE DEF id
<1>4. \A i \in 1..Len(plan) : entry(i) \in Entry
  BY <1>1, <1>2 DEF Entry
<1>5. entries \in Seq(Entry) /\ Len(entries) = Len(plan)
      /\ \A i \in 1..Len(plan) : entries[i] = [blindId |-> id(i), run |-> plan[i]]
  <2> HIDE DEF entry
  <2>1. entries \in Seq(Entry) /\ Len(entries) = Len(plan) /\ \A i \in 1..Len(plan) : entries[i] = entry(i)
    BY <1>1, <1>4
  <2>2. QED
    BY <2>1 DEF entry
<1> HIDE DEF entries
<1>6. [kind |-> "ok", stamp |-> stamp, entries |-> entries]
        \in [kind : Kind, stamp : 0..LastCommand, entries : Seq(Entry)]
  BY <1>5 DEF Kind
<1>7. QED
  BY <1>2, <1>3, <1>5, <1>6 DEF id

(* The review set is written, under the command's number, which nobody has  *)
(* seen on a set.                                                          *)
LEMMA WriteSetInv == ASSUME CampaignInv, WriteSet PROVE CampaignInv'
<1>1. /\ cmd.stage = "set" /\ set' = ReviewSet(cmd.plan, cmd.seed, commands)
      /\ cmd' = [cmd EXCEPT !.stage = "openMapping"]
      /\ UNCHANGED <<config, files, mapping, rep, report, commands, edits, crashes>>
  BY DEF WriteSet, bounds
<1> USE DEF CampaignInv
<1>2. /\ cmd'.stage = "openMapping" /\ cmd'.pos = cmd.pos /\ cmd'.plan = cmd.plan
      /\ cmd'.seed = cmd.seed
      /\ cmd' \in [stage : Stage, pos : Nat, plan : Seq(Runs), seed : Seeds \cup {"none"}]
  BY <1>1 DEF TypeOK, Stage
<1>3. cmd.plan \in Seq(Runs) /\ cmd.seed \in Seeds /\ commands \in 0..LastCommand
      /\ Len(cmd.plan) \in Nat
  BY <1>1, FieldTypes DEF TypeOK
<1>4. /\ set' \in SetFile /\ set'.kind = "ok" /\ set'.stamp = commands
      /\ Len(set'.tasks) = Len(cmd.plan)
      /\ \A i \in 1..Len(cmd.plan) :
           /\ set'.tasks[i].about = cmd.plan[i]
           /\ set'.tasks[i].blindId = AssignBlindIds(cmd.plan, cmd.seed)[cmd.plan[i]]
           /\ set'.tasks[i].blindId[2] = cmd.plan[i]
  BY <1>1, <1>3, ReviewSetTyped
<1>5. TypeOK'
  <2>1. /\ config' \in Configs /\ commands' \in 0..LastCommand
        /\ files' \in [DOMAIN files' -> [whole : BOOLEAN]] /\ DOMAIN files' \subseteq Runs
        /\ mapping' \in [kind : Kind, stamp : 0..LastCommand, entries : Seq(Entry)]
    BY <1>1 DEF TypeOK
  <2>2. /\ rep' \in [stage : {"down", "set", "mapping"}, set : SetFile]
        /\ report' \in [stamps : (0..LastCommand) \X (0..LastCommand),
                        scores : SUBSET [model : {r.model : r \in Runs}, about : Runs]]
        /\ edits' \in 0..MaxEdits /\ crashes' \in 0..MaxCrashes
    BY <1>1 DEF TypeOK
  <2>3. cmd'.pos \in 1..Len(cmd'.plan) /\ cmd'.seed \in Seeds
    BY <1>1, <1>2 DEF TypeOK
  <2> HIDE DEF CampaignInv
  <2>4. QED
    BY <1>2, <1>4, <2>1, <2>2, <2>3 DEF TypeOK
<1>6. /\ rep.set.stamp \in Nat /\ rep.set.stamp < commands
      /\ report.stamps[1] \in Nat /\ report.stamps[1] < commands
      /\ commands # 0
  <2>1. rep.set.stamp \in Nat /\ report.stamps[1] \in Nat /\ commands \in Nat
    <3>1. /\ rep.set.stamp \in 0..LastCommand /\ report.stamps[1] \in 0..LastCommand
          /\ commands \in Nat
      BY FieldTypes
    <3> HIDE DEF CampaignInv
    <3>2. QED
      BY <3>1, BoundsTyped
  <2>2. cmd.stage \in {"execute", "record", "openSet", "set"}
    BY <1>1
  <2>3. rep.set.stamp < commands /\ report.stamps[1] < commands
    BY <2>2 DEF StampsUnused
  <2>4. QED
    BY <2>1, <2>3
<1>7. IdsNameRuns'
  BY <1>1, <1>4, <1>6 DEF IdsNameRuns
<1>8. SetOfCommand' /\ ScoresAttributed'
  BY <1>1, <1>2, <1>4 DEF SetOfCommand, ScoresAttributed
<1>9. RecordsWritten'
  BY <1>1, <1>2 DEF RecordsWritten
<1>10. StampsUnused'
  BY <1>1, <1>2, <1>3, <1>4, BoundsTyped DEF StampsUnused
<1>11. ScoresKept'
  <2>1. rep'.set.stamp # set'.stamp /\ report'.stamps # <<set'.stamp, mapping'.stamp>>
    BY <1>1, <1>4, <1>6
  <2>2. QED
    BY <1>1, <2>1 DEF ScoresKept
<1>12. QED
  BY <1>5, <1>7, <1>8, <1>9, <1>10, <1>11

(* The mapping is truncated. *)
LEMMA OpenMappingInv == ASSUME CampaignInv, OpenMapping PROVE CampaignInv'
<1>1. /\ cmd.stage = "openMapping"
      /\ mapping' = [kind |-> "torn", stamp |-> 0, entries |-> << >>]
      /\ cmd' = [cmd EXCEPT !.stage = "mapping"]
      /\ UNCHANGED <<config, files, set, rep, report, commands, edits, crashes>>
  BY DEF OpenMapping, NoMapping, bounds
<1> USE DEF CampaignInv
<1>2. /\ cmd'.stage = "mapping" /\ cmd'.pos = cmd.pos /\ cmd'.plan = cmd.plan /\ cmd'.seed = cmd.seed
      /\ cmd' \in [stage : Stage, pos : Nat, plan : Seq(Runs), seed : Seeds \cup {"none"}]
  BY <1>1 DEF TypeOK, Stage
<1>3. mapping' \in [kind : Kind, stamp : 0..LastCommand, entries : Seq(Entry)]
  BY <1>1, BoundsTyped DEF Kind
<1>4. TypeOK'
  BY <1>1, <1>2, <1>3 DEF TypeOK
<1>5. IdsNameRuns' /\ SetOfCommand' /\ ScoresAttributed'
  <2>1. IdsNameRuns'
    BY <1>1 DEF IdsNameRuns
  <2>2. SetOfCommand' /\ ScoresAttributed'
    BY <1>1, <1>2 DEF SetOfCommand, ScoresAttributed
  <2>3. QED
    BY <2>1, <2>2
<1>6. RecordsWritten'
  BY <1>1, <1>2 DEF RecordsWritten
<1>7. StampsUnused'
  <2>1. commands \in Nat /\ commands # 0
    BY <1>1, FieldTypes DEF StampsUnused
  <2>2. mapping'.stamp = 0
    BY <1>1
  <2>3. QED
    BY <1>1, <1>2, <2>1, <2>2 DEF StampsUnused
<1>8. ScoresKept'
  <2>1. mapping'.stamp = 0 /\ UNCHANGED <<set, rep, report>>
    BY <1>1
  <2>2. report.stamps = <<report.stamps[1], report.stamps[2]>>
    BY FieldTypes
  <2>3. report'.stamps = <<set'.stamp, mapping'.stamp>> => report'.scores = {}
    BY <2>1, <2>2 DEF ScoresKept
  <2>4. report'.stamps = <<rep'.set.stamp, mapping'.stamp>> => report'.scores = {}
    BY <2>1, <2>2 DEF ScoresKept
  <2>5. /\ rep'.set.stamp = set'.stamp => Grown(rep'.set.tasks, set'.tasks)
        /\ 0 \in {report'.stamps[1], report'.stamps[2]} => report'.scores = {}
    BY <2>1 DEF ScoresKept
  <2> HIDE DEF CampaignInv
  <2>6. QED
    BY <2>3, <2>4, <2>5 DEF ScoresKept
<1>9. QED
  BY <1>4, <1>5, <1>6, <1>7, <1>8

(* The mapping is written, under a number nobody has seen on a mapping.     *)
LEMMA WriteMappingInv == ASSUME CampaignInv, WriteMapping PROVE CampaignInv'
<1>1. /\ cmd.stage = "mapping" /\ mapping' = ReviewMapping(cmd.plan, cmd.seed, commands)
      /\ cmd' = NoCommand
      /\ UNCHANGED <<config, files, set, rep, report, commands, edits, crashes>>
  BY DEF WriteMapping, bounds
<1> USE DEF CampaignInv
<1>2. /\ cmd'.stage = "down"
      /\ cmd' \in [stage : Stage, pos : Nat, plan : Seq(Runs), seed : Seeds \cup {"none"}]
      /\ cmd'.plan = << >>
  <2>1. << >> \in Seq(Runs) /\ "down" \in Stage
    BY DEF Stage
  <2>2. cmd' = [stage |-> "down", pos |-> 0, plan |-> << >>, seed |-> "none"]
    BY <1>1 DEF NoCommand
  <2>3. QED
    BY <2>1, <2>2
<1>3. cmd.plan \in Seq(Runs) /\ cmd.seed \in Seeds /\ commands \in 0..LastCommand
      /\ Len(cmd.plan) \in Nat
  BY <1>1, FieldTypes DEF TypeOK
<1>4. /\ mapping' \in [kind : Kind, stamp : 0..LastCommand, entries : Seq(Entry)]
      /\ mapping'.stamp = commands
      /\ Len(mapping'.entries) = Len(cmd.plan)
      /\ \A j \in 1..Len(mapping'.entries) : mapping'.entries[j].blindId[2] = mapping'.entries[j].run
  <2>1. /\ mapping' \in [kind : Kind, stamp : 0..LastCommand, entries : Seq(Entry)]
        /\ mapping'.stamp = commands
        /\ Len(mapping'.entries) = Len(cmd.plan)
    BY <1>1, <1>3, ReviewMappingTyped
  <2>2. ASSUME NEW j \in 1..Len(cmd.plan)
        PROVE  mapping'.entries[j].blindId[2] = mapping'.entries[j].run
    <3> DEFINE id == AssignBlindIds(cmd.plan, cmd.seed)[cmd.plan[j]]
    <3>1. mapping'.entries[j] = [blindId |-> id, run |-> cmd.plan[j]] /\ id[2] = cmd.plan[j]
      BY <1>1, <1>3, ReviewMappingTyped
    <3> HIDE DEF id
    <3>2. QED
      BY <3>1
  <2>3. QED
    BY <2>1, <2>2
<1>5. TypeOK'
  BY <1>1, <1>2, <1>4 DEF TypeOK
<1>6. report.stamps[2] \in Nat /\ report.stamps[2] < commands /\ commands # 0
  <2>1. report.stamps[2] \in 0..LastCommand /\ commands \in Nat /\ LastCommand \in Nat
    BY FieldTypes, BoundsTyped
  <2>2. report.stamps[2] < commands
    BY <1>1 DEF StampsUnused
  <2> HIDE DEF CampaignInv
  <2>3. QED
    BY <2>1, <2>2
<1>7. IdsNameRuns'
  BY <1>1, <1>4, <1>6 DEF IdsNameRuns
<1>8. SetOfCommand' /\ ScoresAttributed' /\ RecordsWritten'
  BY <1>1, <1>2 DEF SetOfCommand, ScoresAttributed, RecordsWritten
<1>9. StampsUnused'
  BY <1>1, <1>2, <1>3, <1>4, BoundsTyped DEF StampsUnused
<1>10. ScoresKept'
  <2>1. /\ report'.stamps # <<set'.stamp, mapping'.stamp>>
        /\ report'.stamps # <<rep'.set.stamp, mapping'.stamp>>
    BY <1>1, <1>4, <1>6
  <2>2. QED
    BY <1>1, <2>1 DEF ScoresKept
<1>11. QED
  BY <1>5, <1>7, <1>8, <1>9, <1>10

(* The command dies: its files stay as they are. *)
LEMMA CrashInv == ASSUME CampaignInv, Crash PROVE CampaignInv'
<1>1. /\ crashes < MaxCrashes /\ crashes' = crashes + 1 /\ cmd' = NoCommand
      /\ UNCHANGED <<config, files, set, mapping, rep, report, commands, edits>>
  BY DEF Crash, artifacts
<1> USE DEF CampaignInv
<1>2. /\ cmd'.stage = "down"
      /\ cmd' \in [stage : Stage, pos : Nat, plan : Seq(Runs), seed : Seeds \cup {"none"}]
  <2>1. << >> \in Seq(Runs) /\ "down" \in Stage
    BY DEF Stage
  <2>2. cmd' = [stage |-> "down", pos |-> 0, plan |-> << >>, seed |-> "none"]
    BY <1>1 DEF NoCommand
  <2>3. QED
    BY <2>1, <2>2
<1>3. crashes' \in 0..MaxCrashes
  <2>1. crashes \in 0..MaxCrashes /\ MaxCrashes \in Nat
    BY FieldTypes, BoundsTyped
  <2> HIDE DEF CampaignInv
  <2>2. QED
    BY <1>1, <2>1
<1>4. TypeOK'
  BY <1>1, <1>2, <1>3 DEF TypeOK
<1>5. IdsNameRuns' /\ SetOfCommand' /\ ScoresAttributed' /\ RecordsWritten'
  BY <1>1, <1>2 DEF IdsNameRuns, SetOfCommand, ScoresAttributed, RecordsWritten
<1>6. StampsUnused'
  BY <1>1, <1>2 DEF StampsUnused
<1>7. ScoresKept'
  BY <1>1 DEF ScoresKept
<1>8. QED
  BY <1>4, <1>5, <1>6, <1>7

(* A reviewer's step: one task of the set changes its state or comment, and *)
(* stays scored if it was.                                                 *)
LEMMA TaskStep ==
  ASSUME CampaignInv, NEW i \in 1..Len(set.tasks), NEW task \in Task, set.kind = "ok",
         task.blindId = set.tasks[i].blindId, task.about = set.tasks[i].about,
         IsScored(set.tasks[i]) => IsScored(task),
         set' = [set EXCEPT !.tasks = [set.tasks EXCEPT ![i] = task]],
         UNCHANGED <<config, files, mapping, cmd, rep, report, commands, bounds>>
  PROVE  CampaignInv'
<1> USE DEF CampaignInv
<1>1. /\ set.tasks \in Seq(Task) /\ rep.set.tasks \in Seq(Task) /\ mapping.entries \in Seq(Entry)
      /\ set \in SetFile
  BY FieldTypes DEF TypeOK
<1>2. /\ set'.tasks = [set.tasks EXCEPT ![i] = task]
      /\ set'.kind = set.kind /\ set'.stamp = set.stamp
  BY <1>1 DEF SetFile
<1>3. /\ set'.tasks \in Seq(Task) /\ Len(set'.tasks) = Len(set.tasks)
      /\ set'.tasks[i] = task
      /\ \A k \in 1..Len(set.tasks) : k # i => set'.tasks[k] = set.tasks[k]
  BY <1>1, <1>2
<1>4. set' \in SetFile
  BY <1>1, <1>3 DEF SetFile
<1>5. Grown(set.tasks, set'.tasks)
  BY <1>3 DEF Grown
<1>6. TypeOK'
  BY <1>4 DEF TypeOK, bounds
<1>7. IdsNameRuns'
  <2>1. \A k \in 1..Len(set'.tasks) : set'.tasks[k].blindId[2] = set'.tasks[k].about
    BY <1>3 DEF IdsNameRuns
  <2>2. set.stamp = 0 => set'.tasks = << >>
    BY <1>1 DEF IdsNameRuns
  <2>3. QED
    BY <1>2, <2>1, <2>2 DEF IdsNameRuns
<1>8. SetOfCommand'
  BY <1>2, <1>3 DEF SetOfCommand
<1>9. RecordsWritten' /\ ScoresAttributed'
  BY DEF RecordsWritten, ScoresAttributed
<1>10. StampsUnused'
  BY <1>2 DEF StampsUnused
<1>11. ScoresKept'
  <2>1. rep.set.stamp = set.stamp => Grown(rep.set.tasks, set'.tasks)
    BY <1>1, <1>3, <1>5, GrownTransitive DEF ScoresKept
  <2>2. AggregateResults(set.tasks, mapping.entries) \subseteq AggregateResults(set'.tasks, mapping.entries)
    BY <1>1, <1>3, <1>5, AggregateGrows
  <2>3. QED
    BY <1>2, <2>1, <2>2 DEF ScoresKept
<1>12. QED
  BY <1>6, <1>7, <1>8, <1>9, <1>10, <1>11

(* A task moves on in its lifecycle. *)
LEMMA AdvanceTaskInv ==
  ASSUME CampaignInv, NEW i \in 1..Len(set.tasks), NEW to \in ToSet(States), AdvanceTask(i, to)
  PROVE  CampaignInv'
<1> DEFINE task == [set.tasks[i] EXCEPT !.state = to]
<1>1. /\ set.kind = "ok" /\ CanTransition(set.tasks[i].state, to)
      /\ set' = [set EXCEPT !.tasks[i].state = to]
      /\ UNCHANGED <<config, files, mapping, cmd, rep, report, commands, bounds>>
  BY DEF AdvanceTask
<1>2. set.tasks[i] \in Task /\ set.tasks \in Seq(Task) /\ set \in SetFile
  <2>1. set.tasks \in Seq(Task) /\ set \in SetFile
    BY FieldTypes DEF CampaignInv, TypeOK
  <2>2. QED
    BY <2>1
<1>3. /\ task \in Task /\ task.state = to /\ task.comment = set.tasks[i].comment
      /\ task.blindId = set.tasks[i].blindId /\ task.about = set.tasks[i].about
  BY <1>2 DEF Task
<1>4. set' = [set EXCEPT !.tasks = [set.tasks EXCEPT ![i] = task]]
  BY <1>1, <1>2 DEF SetFile
<1> HIDE DEF task
<1>5. set.tasks[i].state \in Reviewed => to \in Reviewed
  BY <1>1 DEF CanTransition, States, Reviewed
<1>6. IsScored(set.tasks[i]) => IsScored(task)
  BY <1>3, <1>5 DEF IsScored
<1>7. QED
  BY <1>1, <1>3, <1>4, <1>6, TaskStep

(* A review is submitted. *)
LEMMA SubmitReviewInv ==
  ASSUME CampaignInv, NEW i \in 1..Len(set.tasks), SubmitReview(i)
  PROVE  CampaignInv'
<1> DEFINE task == [set.tasks[i] EXCEPT !.comment = TRUE, !.state = "REVIEWED"]
<1>1. /\ set.kind = "ok"
      /\ set' = [set EXCEPT !.tasks[i].comment = TRUE, !.tasks[i].state = "REVIEWED"]
      /\ UNCHANGED <<config, files, mapping, cmd, rep, report, commands, bounds>>
  BY DEF SubmitReview
<1>2. set.tasks[i] \in Task /\ set.tasks \in Seq(Task) /\ set \in SetFile
  <2>1. set.tasks \in Seq(Task) /\ set \in SetFile
    BY FieldTypes DEF CampaignInv, TypeOK
  <2>2. QED
    BY <2>1
<1>3. "REVIEWED" \in ToSet(States) /\ "REVIEWED" \in Reviewed
  BY DEF ToSet, States, Reviewed
<1>4. /\ task \in Task /\ task.state = "REVIEWED" /\ task.comment
      /\ task.blindId = set.tasks[i].blindId /\ task.about = set.tasks[i].about
  BY <1>2, <1>3 DEF Task
<1>5. set' = [set EXCEPT !.tasks = [set.tasks EXCEPT ![i] = task]]
  BY <1>1, <1>2 DEF SetFile
<1> HIDE DEF task
<1>6. IsScored(task)
  BY <1>3, <1>4 DEF IsScored
<1>7. QED
  BY <1>1, <1>4, <1>5, <1>6, TaskStep

(* A report reads the records. *)
LEMMA LoadRecordsInv == ASSUME CampaignInv, LoadRecords PROVE CampaignInv'
<1>1. /\ rep.stage = "down" /\ rep' = [rep EXCEPT !.stage = "set"]
      /\ UNCHANGED <<config, files, set, mapping, cmd, report, commands, edits, crashes>>
  BY DEF LoadRecords, artifacts, bounds
<1> USE DEF CampaignInv
<1>2. rep'.stage = "set" /\ rep'.set = rep.set
      /\ rep' \in [stage : {"down", "set", "mapping"}, set : SetFile]
  BY <1>1 DEF TypeOK
<1>3. TypeOK'
  BY <1>1, <1>2 DEF TypeOK
<1>4. IdsNameRuns' /\ SetOfCommand' /\ RecordsWritten' /\ ScoresAttributed' /\ StampsUnused'
  BY <1>1, <1>2 DEF IdsNameRuns, SetOfCommand, RecordsWritten, ScoresAttributed, StampsUnused
<1>5. ScoresKept'
  BY <1>1, <1>2 DEF ScoresKept
<1>6. QED
  BY <1>3, <1>4, <1>5

(* A report reads the review set: what it has read is the set, or nothing.  *)
LEMMA LoadSetInv == ASSUME CampaignInv, LoadSet PROVE CampaignInv'
<1>1. /\ rep.stage = "set"
      /\ rep' = [rep EXCEPT !.stage = "mapping", !.set = IF set.kind = "ok" THEN set ELSE NoSet]
      /\ UNCHANGED <<config, files, set, mapping, cmd, report, commands, edits, crashes>>
  BY DEF LoadSet, artifacts, bounds
<1> USE DEF CampaignInv
<1>2. /\ NoSet \in SetFile /\ NoSet.stamp = 0 /\ NoSet.tasks = << >>
  BY BoundsTyped DEF NoSet, SetFile, Kind
<1>3. /\ rep'.set = set \/ rep'.set = NoSet
      /\ rep' \in [stage : {"down", "set", "mapping"}, set : SetFile]
  BY <1>1, <1>2 DEF TypeOK
<1>4. TypeOK'
  BY <1>1, <1>3 DEF TypeOK
<1>5. IdsNameRuns'
  <2>1. \A k \in 1..Len(rep'.set.tasks) : rep'.set.tasks[k].blindId[2] = rep'.set.tasks[k].about
    BY <1>2, <1>3 DEF IdsNameRuns
  <2>2. rep'.set.stamp = 0 => rep'.set.tasks = << >>
    BY <1>2, <1>3 DEF IdsNameRuns
  <2>3. QED
    BY <1>1, <2>1, <2>2 DEF IdsNameRuns
<1>6. SetOfCommand' /\ RecordsWritten' /\ ScoresAttributed'
  BY <1>1 DEF SetOfCommand, RecordsWritten, ScoresAttributed
<1>7. StampsUnused'
  <2>1. rep'.set.stamp = set.stamp \/ rep'.set.stamp = 0
    BY <1>2, <1>3
  <2>2. 0 <= commands /\ (cmd.stage # "down" => 0 < commands)
    BY FieldTypes DEF StampsUnused
  <2>3. \A s \in {set.stamp, 0} :
          s <= commands /\ (cmd.stage \in {"execute", "record", "openSet", "set"} => s < commands)
    BY <2>2 DEF StampsUnused
  <2>4. QED
    BY <1>1, <2>1, <2>3 DEF StampsUnused
<1>8. ScoresKept'
  <2>1. Grown(set.tasks, set.tasks) /\ Grown(<< >>, << >>)
    BY DEF Grown
  <2>2. rep'.set.stamp = set.stamp => Grown(rep'.set.tasks, set.tasks)
    BY <1>2, <1>3, <2>1 DEF IdsNameRuns
  <2>3. report.stamps = <<rep'.set.stamp, mapping.stamp>> =>
          report.scores \subseteq AggregateResults(rep'.set.tasks, mapping.entries)
    BY <1>2, <1>3, FieldTypes DEF ScoresKept
  <2>4. QED
    BY <1>1, <2>2, <2>3 DEF ScoresKept
<1>9. QED
  BY <1>4, <1>5, <1>6, <1>7, <1>8

(* A report reads the mapping and is written. *)
LEMMA WriteReportInv == ASSUME CampaignInv, WriteReport PROVE CampaignInv'
<1> DEFINE scores == AggregateResults(rep.set.tasks, mapping.entries)
<1>1. /\ rep.stage = "mapping" /\ rep' = NoReporter
      /\ report' = [stamps |-> <<rep.set.stamp, mapping.stamp>>, scores |-> scores]
      /\ UNCHANGED <<config, files, set, mapping, cmd, commands, edits, crashes>>
  BY DEF WriteReport, artifacts, bounds
<1> USE DEF CampaignInv
<1>2. /\ set.tasks \in Seq(Task) /\ rep.set.tasks \in Seq(Task) /\ mapping.entries \in Seq(Entry)
      /\ rep.set.stamp \in 0..LastCommand /\ mapping.stamp \in 0..LastCommand
  BY FieldTypes
<1>3. /\ report'.stamps = <<rep.set.stamp, mapping.stamp>> /\ report'.scores = scores
      /\ report'.stamps[1] = rep.set.stamp /\ report'.stamps[2] = mapping.stamp
      /\ report'.stamps \in (0..LastCommand) \X (0..LastCommand)
  BY <1>1, <1>2
<1>4. /\ scores \subseteq [model : {r.model : r \in Runs}, about : Runs]
      /\ rep.set.tasks = << >> \/ mapping.entries = << >> => scores = {}
  BY <1>2, AggregateTyped
<1>5. \A s \in scores : s.model = s.about.model
  BY <1>2, AggregateAttributed DEF IdsNameRuns
<1>6. rep.set.stamp = set.stamp => scores \subseteq AggregateResults(set.tasks, mapping.entries)
  BY <1>2, AggregateGrows DEF ScoresKept
<1> HIDE DEF scores
<1>7. /\ rep'.stage = "down" /\ rep'.set = NoSet
      /\ rep' \in [stage : {"down", "set", "mapping"}, set : SetFile]
      /\ NoSet.stamp = 0 /\ NoSet.tasks = << >>
  BY <1>1, BoundsTyped DEF NoReporter, NoSet, SetFile, Kind
<1>8. TypeOK'
  <2>1. report' \in [stamps : (0..LastCommand) \X (0..LastCommand),
                     scores : SUBSET [model : {r.model : r \in Runs}, about : Runs]]
    BY <1>1, <1>2, <1>4
  <2>2. /\ config' \in Configs /\ set' \in SetFile /\ commands' \in 0..LastCommand
        /\ files' \in [DOMAIN files' -> [whole : BOOLEAN]] /\ DOMAIN files' \subseteq Runs
        /\ mapping' \in [kind : Kind, stamp : 0..LastCommand, entries : Seq(Entry)]
    BY <1>1 DEF TypeOK
  <2>3. /\ cmd' \in [stage : Stage, pos : Nat, plan : Seq(Runs), seed : Seeds \cup {"none"}]
        /\ cmd'.stage = "down" \/ (cmd'.pos \in 1..Len(cmd'.plan) /\ cmd'.seed \in Seeds)
        /\ edits' \in 0..MaxEdits /\ crashes' \in 0..MaxCrashes
    BY <1>1 DEF TypeOK
  <2> HIDE DEF CampaignInv
  <2>4. QED
    BY <1>7, <2>1, <2>2, <2>3 DEF TypeOK
<1>9. IdsNameRuns'
  BY <1>1, <1>7 DEF IdsNameRuns
<1>10. SetOfCommand' /\ RecordsWritten'
  BY <1>1 DEF SetOfCommand, RecordsWritten
<1>11. ScoresAttributed'
  BY <1>3, <1>5 DEF ScoresAttributed
<1>12. StampsUnused'
  <2>1. rep'.set.stamp = 0 /\ report'.stamps[1] = rep.set.stamp /\ report'.stamps[2] = mapping.stamp
    BY <1>3, <1>7
  <2>2. 0 <= commands /\ (cmd.stage # "down" => 0 < commands)
    BY FieldTypes DEF StampsUnused
  <2>3. \A s \in {set.stamp, 0, rep.set.stamp} :
          s <= commands /\ (cmd.stage \in {"execute", "record", "openSet", "set"} => s < commands)
    BY <2>2 DEF StampsUnused
  <2>4. mapping.stamp <= commands /\ (cmd.stage # "down" => mapping.stamp < commands)
    BY DEF StampsUnused
  <2> HIDE DEF CampaignInv
  <2>5. QED
    BY <1>1, <2>1, <2>3, <2>4 DEF StampsUnused
<1>13. ScoresKept'
  <2>1. rep'.set.stamp = set'.stamp => Grown(rep'.set.tasks, set'.tasks)
    BY <1>1, <1>7 DEF IdsNameRuns, Grown
  <2>2. report'.stamps = <<set'.stamp, mapping'.stamp>> =>
          report'.scores \subseteq AggregateResults(set'.tasks, mapping'.entries)
    BY <1>1, <1>3, <1>6
  <2>3. 0 \in {report'.stamps[1], report'.stamps[2]} => report'.scores = {}
    BY <1>3, <1>4 DEF IdsNameRuns
  <2>4. QED
    BY <1>7, <2>1, <2>2, <2>3 DEF ScoresKept
<1>14. QED
  BY <1>8, <1>9, <1>10, <1>11, <1>12, <1>13

(* CampaignInv is inductive. *)
LEMMA CampaignStep == CampaignInv /\ [Next]_vars => CampaignInv'
<1> SUFFICES ASSUME CampaignInv, [Next]_vars PROVE CampaignInv'
  OBVIOUS
<1>1. ASSUME NEW c \in Configs, Edit(c) PROVE CampaignInv'
  BY <1>1, EditInv
<1>2. ASSUME NEW seed \in Seeds, StartRun(seed) PROVE CampaignInv'
  BY <1>2, StartRunInv
<1>3. CASE CommandStep
  BY <1>3, ExecuteInv, WriteRecordInv, OpenSetInv, WriteSetInv, OpenMappingInv, WriteMappingInv
     DEF CommandStep
<1>4. CASE Crash
  BY <1>4, CrashInv
<1>5. CASE ReportStep
  BY <1>5, LoadRecordsInv, LoadSetInv, WriteReportInv DEF ReportStep
<1>6. ASSUME NEW i \in 1..Len(set.tasks), SubmitReview(i) PROVE CampaignInv'
  BY <1>6, SubmitReviewInv
<1>7. ASSUME NEW i \in 1..Len(set.tasks), NEW to \in ToSet(States), AdvanceTask(i, to)
      PROVE  CampaignInv'
  BY <1>7, AdvanceTaskInv
<1>8. CASE UNCHANGED vars
  <2>1. UNCHANGED <<config, files, set, mapping, cmd, rep, report, commands, edits, crashes>>
    BY <1>8 DEF vars, artifacts, bounds
  <2> USE DEF CampaignInv
  <2>2. TypeOK' /\ IdsNameRuns' /\ RecordsWritten' /\ SetOfCommand'
    BY <2>1 DEF TypeOK, IdsNameRuns, RecordsWritten, SetOfCommand
  <2>3. StampsUnused' /\ ScoresAttributed' /\ ScoresKept'
    BY <2>1 DEF StampsUnused, ScoresAttributed, ScoresKept
  <2>4. QED
    BY <2>2, <2>3
<1>9. QED
  BY <1>1, <1>2, <1>3, <1>4, <1>5, <1>6, <1>7, <1>8 DEF Next

-----------------------------------------------------------------------------
(* The inductive invariant holds throughout: blind ids name the runs they   *)
(* were made for, a command's files carry a number of their own, and a      *)
(* review set only grows while it keeps its number.                        *)
THEOREM CampaignInvariant == Safety => []CampaignInv
BY CampaignInit, CampaignStep, PTL DEF Safety

(* A score is attributed to the model whose output was scored, even if the  *)
(* review set and the mapping come from different commands.                *)
THEOREM AttributionIsRight == Safety => []ScoresAttributed
<1>1. CampaignInv => ScoresAttributed
  BY DEF CampaignInv
<1>2. QED
  BY <1>1, CampaignInvariant, PTL

(* A command that ends normally ends with the mapping.                      *)
LEMMA NormalEnd ==
  ASSUME CampaignInv, [Next]_vars, cmd.stage # "down", cmd'.stage = "down", crashes' = crashes
  PROVE  WriteMapping
<1> USE DEF CampaignInv
<1>1. crashes \in Nat /\ cmd \in [stage : Stage, pos : Nat, plan : Seq(Runs), seed : Seeds \cup {"none"}]
  BY DEF TypeOK
<1>2. cmd' # cmd
  OBVIOUS
<1>3. ~UNCHANGED vars /\ ~ReportStep /\ ~Crash
  BY <1>1, <1>2 DEF vars, ReportStep, LoadRecords, LoadSet, WriteReport, Crash
<1>4. \A c \in Configs : ~Edit(c)
  BY <1>2 DEF Edit
<1>5. \A seed \in Seeds : ~StartRun(seed)
  BY DEF StartRun
<1>6. \A i : ~SubmitReview(i) /\ \A to : ~AdvanceTask(i, to)
  BY <1>2 DEF SubmitReview, AdvanceTask
<1>7. ~Execute /\ ~OpenSet /\ ~WriteSet /\ ~OpenMapping
  BY <1>1 DEF Execute, OpenSet, WriteSet, OpenMapping
<1>8. ~WriteRecord
  BY <1>1 DEF WriteRecord
<1>9. QED
  BY <1>3, <1>4, <1>5, <1>6, <1>7, <1>8 DEF Next, CommandStep

(* When a campaign run ends normally its artifacts fit together, whatever   *)
(* earlier commands left behind and whatever reviewers did meanwhile.       *)
THEOREM CompletedRunJoined == Safety => CompletedRunIsJoined
<1>1. ASSUME CampaignInv, CampaignInv', [Next]_vars,
             cmd.stage # "down", cmd'.stage = "down", crashes' = crashes
      PROVE  /\ set'.kind = "ok" /\ mapping'.kind = "ok"
             /\ \A i \in 1..Len(set'.tasks) :
                  /\ [blindId |-> set'.tasks[i].blindId, run |-> set'.tasks[i].about]
                       \in ToSet(mapping'.entries)
                  /\ files'[set'.tasks[i].about].whole
  <2>1. /\ cmd.stage = "mapping" /\ mapping' = ReviewMapping(cmd.plan, cmd.seed, commands)
        /\ set' = set /\ files' = files
    BY <1>1, NormalEnd DEF WriteMapping
  <2>2. cmd.plan \in Seq(Runs) /\ cmd.seed \in Seeds /\ commands \in 0..LastCommand
        /\ Len(cmd.plan) \in Nat
    BY <1>1, <2>1, FieldTypes DEF CampaignInv, TypeOK
  <2>3. /\ set.kind = "ok" /\ Len(set.tasks) = Len(cmd.plan)
        /\ \A i \in 1..Len(cmd.plan) :
             /\ set.tasks[i].about = cmd.plan[i]
             /\ set.tasks[i].blindId = AssignBlindIds(cmd.plan, cmd.seed)[cmd.plan[i]]
    BY <1>1, <2>1 DEF CampaignInv, SetOfCommand
  <2>4. mapping'.kind = "ok" /\ mapping'.entries \in Seq(Entry) /\ Len(mapping'.entries) = Len(cmd.plan)
    BY <2>1, <2>2, ReviewMappingTyped
  <2>5. ASSUME NEW i \in 1..Len(cmd.plan)
        PROVE  [blindId |-> set.tasks[i].blindId, run |-> set.tasks[i].about]
                 \in ToSet(mapping'.entries)
    <3> DEFINE entry == [blindId |-> AssignBlindIds(cmd.plan, cmd.seed)[cmd.plan[i]],
                         run |-> cmd.plan[i]]
    <3>1. mapping'.entries[i] = entry
      BY <2>1, <2>2, ReviewMappingTyped
    <3>2. entry = [blindId |-> set.tasks[i].blindId, run |-> set.tasks[i].about]
      BY <2>3
    <3> HIDE DEF entry
    <3>3. entry \in ToSet(mapping'.entries)
      BY <2>4, <3>1 DEF ToSet
    <3>4. QED
      BY <3>2, <3>3
  <2>6. ASSUME NEW i \in 1..Len(cmd.plan)
        PROVE  files[set.tasks[i].about].whole
    BY <1>1, <2>1, <2>3 DEF CampaignInv, RecordsWritten
  <2>7. QED
    BY <2>1, <2>3, <2>4, <2>5, <2>6
<1>2. CampaignInv /\ CampaignInv' /\ [Next]_vars
      => [cmd.stage # "down" /\ cmd'.stage = "down" /\ crashes' = crashes =>
            /\ set'.kind = "ok" /\ mapping'.kind = "ok"
            /\ \A i \in 1..Len(set'.tasks) :
                 /\ [blindId |-> set'.tasks[i].blindId, run |-> set'.tasks[i].about]
                      \in ToSet(mapping'.entries)
                 /\ files'[set'.tasks[i].about].whole]_vars
  BY <1>1
<1>3. QED
  BY <1>2, CampaignInvariant, PTL DEF Safety, CompletedRunIsJoined

(* What a report has counted, every later report over the same review set   *)
(* and mapping counts too.                                                 *)
THEOREM ReportsOnlyGrow == Safety => ReportsGrow
<1>1. ASSUME CampaignInv, [Next]_vars, report' # report, report'.stamps = report.stamps
      PROVE  report.scores \subseteq report'.scores
  <2>1. WriteReport
    <3>1. ~UNCHANGED vars /\ ~LoadRecords /\ ~LoadSet /\ ~Crash
      BY <1>1 DEF vars, LoadRecords, LoadSet, Crash
    <3>2. \A c \in Configs : ~Edit(c)
      BY <1>1 DEF Edit
    <3>3. \A seed \in Seeds : ~StartRun(seed)
      BY <1>1 DEF StartRun
    <3>4. \A i : ~SubmitReview(i) /\ \A to : ~AdvanceTask(i, to)
      BY <1>1 DEF SubmitReview, AdvanceTask
    <3>5. ~CommandStep
      BY <1>1 DEF CommandStep, Execute, WriteRecord, OpenSet, WriteSet, OpenMapping, WriteMapping
    <3>6. QED
      BY <1>1, <3>1, <3>2, <3>3, <3>4, <3>5 DEF Next, ReportStep
  <2>2. /\ rep.stage = "mapping" /\ report'.stamps = <<rep.set.stamp, mapping.stamp>>
        /\ report'.scores = AggregateResults(rep.set.tasks, mapping.entries)
    BY <2>1 DEF WriteReport
  <2>3. QED
    BY <1>1, <2>2 DEF CampaignInv, ScoresKept
<1>2. CampaignInv /\ [Next]_vars
      => [report' # report /\ report'.stamps = report.stamps
            => report.scores \subseteq report'.scores]_vars
  BY <1>1
<1>3. QED
  BY <1>2, CampaignInvariant, PTL DEF Safety, ReportsGrow
=============================================================================
