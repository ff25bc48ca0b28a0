--------------------------- MODULE OnlineCampaign ---------------------------
(* What meets the catalogue of served models while it changes              *)
(* (src/commands/models.ts, src/framework/runner.ts, src/backend,          *)
(* src/commands/reproduce.ts, src/commands/audit.ts): `models sync' stores *)
(* it, `models recommend' advises on the cohorts, a campaign run asks the  *)
(* backends and notes the catalogue it ran against, and `reproduce' and    *)
(* `audit' judge that run later from what it left.                         *)
(*                                                                         *)
(* A file name is the content its hash is taken of.  Modification times    *)
(* are told apart by `writes', which counts snapshots written.  The fields *)
(* marked ghost are in no file and no action depends on them.              *)
EXTENDS Catalog

CONSTANTS
  Catalogues,    \* what OpenRouter may serve: sequences of raw models
  Local,         \* what a vLLM server serves: ids and context lengths
  Backends, Models,   \* of the campaign, in sorted order
  Prompts,       \* the texts the benchmark's prompt has had
  Environments,  \* the versions and machines the commands run with
  Faults,        \* how a completion may fail
  Rules,         \* the discovery rules
  Pinned,        \* the names the cohort files start with
  LastDay, MaxChanges, MaxSyncs, MaxRuns, MaxAccepted, MaxCrashes  \* bounds

ASSUME OnlineAssumption ==
  /\ \A c \in Catalogues : c \in Seq(ToSet(c))
  /\ IsFiniteSet(Local)
  /\ Backends # << >> /\ Backends \in Seq({"openrouter", "vllm"})
  /\ Models # << >> /\ Models \in Seq(ToSet(Models))
  /\ \A e, f \in Environments : DOMAIN e = DOMAIN f /\ e = [k \in DOMAIN e |-> e[k]]
  /\ \A f \in Faults : /\ f.kind \in {"http", "timeout", "network", "invalid_response"}
                       /\ f.kind = "http" => f.status \in Nat
  /\ {LastDay, MaxChanges, MaxSyncs, MaxRuns, MaxAccepted, MaxCrashes} \subseteq Nat

VARIABLES
  served, prompt, environment, today,  \* the world around the program
  snaps,     \* benchmark/artifacts/catalog: snapshot files
  cohort,    \* the names the cohort files pin or request
  sync,      \* the `models sync' in progress
  synced,    \* ghost: the snapshot of the last sync, if it has ended and no other begun
  advice,    \* the last recommendation written
  accepted,  \* ghost: models the cohorts owe to a recommendation
  run,       \* the `campaign run' in progress
  records,   \* reports/<campaign>/runs: a file for each run id
  catalogs,  \* reports/<campaign>/runs/catalog
  verdict,   \* the last output of `reproduce' or `audit'
  writes, changes, runs, crashes

world == <<served, prompt, environment, today, changes>>
planning == <<snaps, cohort, sync, synced, advice, accepted, writes>>
running == <<run, records, catalogs, runs>>
vars == <<world, planning, running, verdict, crashes>>

NoSync == [stage |-> "none", snapshot |-> << >>]

NoAdvice == [snapshot |-> << >>, aliasDrift |-> {}, additions |-> {}, removals |-> {}]

NoRun == [stage |-> "down"]

NoVerdict == [kind |-> "none"]

(* A campaign run shares no file with `models sync' and `models recommend' *)
(* and `reproduce' takes any catalogue: a behaviour has either the former  *)
(* or the latter.  `reproduce' and `audit' read the same after a crash as  *)
(* before it: they come when no campaign runs.  The world changes at any   *)
(* time.                                                                   *)
Campaigning == run.stage # "down"

(* The output of a command is looked at before anything else happens.      *)
Leave == verdict' = NoVerdict

(* The file x now holds v. *)
Put(f, x, v) == [y \in DOMAIN f \cup {x} |-> IF y = x THEN v ELSE f[y]]

NoFiles == [x \in {} |-> << >>]

Stored(snapshot) == Put(NoFiles, snapshot.id, [whole |-> TRUE, models |-> snapshot.models, at |-> 0])

(* There may be a snapshot from an earlier day.                            *)
Init ==
  /\ served \in Catalogues /\ prompt \in Prompts /\ environment \in Environments /\ today = 0
  /\ snaps \in {NoFiles} \cup {Stored(BuildSnapshot(c)) : c \in Catalogues}
  /\ cohort = Pinned /\ sync = NoSync /\ synced = << >>
  /\ advice = NoAdvice /\ accepted = {}
  /\ run = NoRun /\ records = NoFiles /\ catalogs = {} /\ verdict = NoVerdict
  /\ writes = 0 /\ changes = 0 /\ runs = 0 /\ crashes = 0
-----------------------------------------------------------------------------
(* The world *)

(* The catalogue, the prompt's text or the installation changes.           *)
Change ==
  /\ changes < MaxChanges
  /\ changes' = changes + 1
  /\ \/ \E c \in Catalogues \ {served} : served' = c /\ UNCHANGED <<prompt, environment>>
     \/ \E p \in Prompts \ {prompt} : prompt' = p /\ UNCHANGED <<served, environment>>
     \/ \E e \in Environments \ {environment} : environment' = e /\ UNCHANGED <<served, prompt>>
  /\ Leave /\ UNCHANGED <<today, planning, running, crashes>>

DayPasses ==
  /\ today < LastDay
  /\ today' = today + 1
  /\ Leave /\ UNCHANGED <<served, prompt, environment, changes, planning, running, crashes>>
-----------------------------------------------------------------------------
(* models sync, models recommend *)

(* Mutated form: a snapshot that is there already is not written again.    *)
OpenSnapshotIfNew ==
  /\ sync.stage = "none" /\ runs = 0 /\ writes < MaxSyncs
  /\ LET snapshot == BuildSnapshot(served)
         at == IF snapshot.id \in DOMAIN snaps THEN snaps[snapshot.id].at ELSE writes + 1
     IN  /\ snaps' = Put(snaps, snapshot.id, [whole |-> FALSE, models |-> << >>, at |-> at])
         /\ sync' = [stage |-> "snapshot", snapshot |-> snapshot]
  /\ writes' = writes + 1 /\ synced' = << >>
  /\ Leave /\ UNCHANGED <<world, cohort, advice, accepted, running, crashes>>

(* The catalogue is fetched and the snapshot's file truncated, whatever is *)
(* in it.                                                                  *)
OpenSnapshot ==
  /\ sync.stage = "none" /\ runs = 0 /\ writes < MaxSyncs
  /\ LET snapshot == BuildSnapshot(served)
     IN  /\ snaps' = Put(snaps, snapshot.id, [whole |-> FALSE, models |-> << >>, at |-> writes + 1])
         /\ sync' = [stage |-> "snapshot", snapshot |-> snapshot]
  /\ writes' = writes + 1 /\ synced' = << >>
  /\ Leave /\ UNCHANGED <<world, cohort, advice, accepted, running, crashes>>

WriteSnapshot ==
  /\ sync.stage = "snapshot"
  /\ snaps' = [snaps EXCEPT ![sync.snapshot.id] = [@ EXCEPT !.whole = TRUE, !.models = sync.snapshot.models]]
  /\ sync' = [sync EXCEPT !.stage = "raw"]
  /\ Leave
  /\ UNCHANGED <<world, cohort, synced, advice, accepted, writes, running, crashes>>

(* The raw answer is kept beside it; nothing reads it back.                *)
WriteRaw ==
  /\ sync.stage = "raw"
  /\ sync' = NoSync /\ synced' = <<sync.snapshot.id>>
  /\ Leave
  /\ UNCHANGED <<world, snaps, cohort, advice, accepted, writes, running, crashes>>

SyncCrashes ==
  /\ sync.stage # "none" /\ crashes < MaxCrashes
  /\ crashes' = crashes + 1 /\ sync' = NoSync
  /\ Leave
  /\ UNCHANGED <<world, snaps, cohort, synced, advice, accepted, writes, running>>

(* The file last written, whole or not.                                    *)
LatestSnapshotPath == CHOOSE id \in DOMAIN snaps : \A s \in DOMAIN snaps : snaps[s].at <= snaps[id].at

(* A snapshot that was left torn makes the command throw; a cohort file    *)
(* that does not parse, or a directory that cannot be read, is passed over.*)
RunModelsRecommend ==
  /\ runs = 0 /\ DOMAIN snaps # {} /\ snaps[LatestSnapshotPath].whole
  /\ \E read \in SUBSET cohort :
       advice' = GenerateRecommendation([id |-> LatestSnapshotPath, models |-> snaps[LatestSnapshotPath].models],
                                        read, Rules, today)
  /\ Leave
  /\ UNCHANGED <<world, snaps, cohort, sync, synced, accepted, writes, running, crashes>>

(* The operator, who alone changes cohorts, follows the recommendation: a  *)
(* target is added by the name it was proposed under, or one is removed.   *)
Accept ==
  /\ runs = 0 /\ Cardinality(accepted) < MaxAccepted
  /\ \/ \E id \in advice.additions : cohort' = cohort \cup {id} /\ accepted' = accepted \cup {id}
     \/ \E id \in advice.removals : cohort' = cohort \ {id} /\ accepted' = accepted \ {id}
  /\ Leave /\ UNCHANGED <<world, snaps, sync, synced, advice, writes, running, crashes>>
-----------------------------------------------------------------------------
(* campaign run *)

Backend == Backends[run.backend]
Model == Models[run.model]

RunId(b, m, p) == [backend |-> b, model |-> m, prompt |-> p]

(* What a backend tells of a model, neither its expiry nor its description.*)
Descriptor(m) ==
  [id |-> m.id, slug |-> m.slug, context |-> m.context, price |-> m.price, params |-> m.params,
   expires |-> Absent, retiring |-> FALSE]

(* A local server knows no aliases and no prices.                          *)
LocalModel(m) == [id |-> m.id, slug |-> m.id, context |-> m.context, price |-> Absent, params |-> {}]

(* The catalogue of a campaign is named after all that it tells.           *)
BuildCatalogSnapshot(backend, descriptors) ==
  [id |-> <<"catalog", backend, descriptors>>, models |-> SetToSeq(descriptors)]

(* What discoverModels of the two backends answers with.                   *)
Offered(backend, catalogue) ==
  {Descriptor(m) : m \in IF backend = "openrouter" THEN ToSet(BuildSnapshot(catalogue).models)
                         ELSE {LocalModel(raw) : raw \in Local}}

(* The assets and the environment are read once, when the command starts.  *)
(* ghost: origin, what the runs of the command are really made from.       *)
StartRun ==
  /\ run.stage = "down" /\ writes = 0 /\ advice = NoAdvice /\ runs < MaxRuns
  /\ runs' = runs + 1
  /\ run' = [stage |-> "discover", backend |-> 1, model |-> 1, prompt |-> prompt,
             environment |-> environment, cache |-> << >>, catalog |-> << >>, captured |-> {},
             reply |-> << >>,
             origin |-> [prompt |-> prompt, environment |-> environment, catalog |-> << >>]]
  /\ Leave /\ UNCHANGED <<world, planning, records, catalogs, crashes>>

(* OpenRouter's discovery keeps the snapshot, and keeps the failure to get *)
(* one just the same; vLLM's keeps nothing.                                *)
Discover(reached) ==
  /\ run.stage = "discover"
  /\ LET catalog == BuildCatalogSnapshot(Backend, IF reached THEN Offered(Backend, served) ELSE {})
     IN  run' = [run EXCEPT !.stage = "execute", !.catalog = <<catalog>>,
                            !.captured = @ \cup {catalog}, !.origin.catalog = <<catalog>>,
                            !.cache = IF reached THEN <<BuildSnapshot(served)>> ELSE << >>]
  /\ Leave /\ UNCHANGED <<world, planning, records, catalogs, runs, crashes>>

KindFromStatus(status) ==
  CASE status \in {401, 403} -> "auth"
    [] status = 404 -> "not_found"
    [] status = 408 -> "timeout"
    [] status = 429 -> "rate_limit"
    [] status \in 400..499 \ {401, 403, 404, 408, 429} -> "invalid_request"
    [] status >= 500 -> "unavailable"
    [] OTHER -> "unknown"

(* OpenRouter's client calls whatever its SDK throws unknown, and an       *)
(* answer without a choice invalid, which vLLM's has no case for.          *)
ToBackendError(backend, fault) ==
  IF backend = "openrouter"
  THEN IF fault.kind = "invalid_response" THEN "invalid_response" ELSE "unknown"
  ELSE CASE fault.kind = "http" -> KindFromStatus(fault.status)
         [] fault.kind \in {"timeout", "network"} -> fault.kind
         [] OTHER -> "unknown"

Failed(kind) == [text |-> FALSE, error |-> kind, generationId |-> FALSE, cost |-> Absent, answered |-> FALSE]

(* Mutated form: a model the catalogue does not list has no price, which   *)
(* is an error.                                                            *)
EstimateCostOfListed(usage) ==
  LET found == FindModel(run.cache[1], Model)
  IN  IF found = << >> THEN [thrown |-> TRUE, cost |-> Absent]
      ELSE [thrown |-> FALSE, cost |-> IF usage = Absent THEN Absent ELSE usage * found[1].price]

(* The list price of what the response used; unknown without a usage or a  *)
(* model in the catalogue.                                                 *)
EstimateCost(usage) ==
  LET found == FindModel(run.cache[1], Model)
  IN  [thrown |-> FALSE, cost |-> IF found = << >> \/ usage = Absent THEN Absent ELSE usage * found[1].price]

(* execute: what it costs is asked after the completion, and if that       *)
(* throws, as every time after a failed discovery, the answer is gone.     *)
(* vLLM's costs nothing.                                                   *)
Execute(usage, hasId) ==
  LET estimate == IF Backend = "vllm" THEN [thrown |-> FALSE, cost |-> 0]
                  ELSE IF run.cache = << >> THEN [thrown |-> TRUE, cost |-> Absent]
                  ELSE EstimateCost(usage)
  IN  IF estimate.thrown THEN [Failed("unknown") EXCEPT !.answered = TRUE]
      ELSE [text |-> TRUE, error |-> Unnamed, generationId |-> hasId, cost |-> estimate.cost,
            answered |-> TRUE]

Replied(reply) ==
  /\ run.stage = "execute"
  /\ run' = [run EXCEPT !.stage = "open", !.reply = <<reply>>]
  /\ Leave /\ UNCHANGED <<world, planning, records, catalogs, runs, crashes>>

Completes == run.stage = "execute" /\ \E usage \in {Absent, 1}, hasId \in BOOLEAN : Replied(Execute(usage, hasId))

Fails == run.stage = "execute" /\ \E fault \in Faults : Replied(Failed(ToBackendError(Backend, fault)))

(* Mutated form: the prompt is read again when the manifest is built.      *)
ManifestOfToday ==
  [catalog |-> run.catalog[1].id, prompt |-> prompt, environment |-> run.environment,
   backend |-> Backend,
   target |-> [canonicalSlug |-> Model, lifecycle |-> "UNKNOWN",
               provenance |-> ClassifyProvenance(run.reply[1].generationId, TRUE)]]

(* buildManifest and toGenerationProvenance: the slug is the name that was *)
(* asked for, the lifecycle is never looked up.                            *)
Manifest ==
  [catalog |-> run.catalog[1].id, prompt |-> run.prompt, environment |-> run.environment,
   backend |-> Backend,
   target |-> [canonicalSlug |-> Model, lifecycle |-> "UNKNOWN",
               provenance |-> ClassifyProvenance(run.reply[1].generationId, TRUE)]]

Torn == [whole |-> FALSE]

OpenRecord ==
  /\ run.stage = "open"
  /\ records' = Put(records, RunId(Backend, Model, run.prompt), Torn)
  /\ run' = [run EXCEPT !.stage = "write"]
  /\ Leave /\ UNCHANGED <<world, planning, catalogs, runs, crashes>>

(* The next model; after the last one a new instance of the next backend,  *)
(* and in the end the catalogues.                                          *)
NextRun ==
  IF run.model < Len(Models)
  THEN [run EXCEPT !.stage = "execute", !.model = @ + 1, !.reply = << >>]
  ELSE IF run.backend < Len(Backends)
  THEN [run EXCEPT !.stage = "discover", !.model = 1, !.backend = @ + 1, !.reply = << >>,
                   !.catalog = << >>, !.cache = << >>]
  ELSE [run EXCEPT !.stage = "catalogs"]

(* ghost: whether the backend had answered, and could be asked for its     *)
(* models before, and what the run was made from.                          *)
WriteRecord ==
  /\ run.stage = "write"
  /\ records' = [records EXCEPT ![RunId(Backend, Model, run.prompt)] =
                   [whole |-> TRUE, text |-> run.reply[1].text, error |-> run.reply[1].error,
                    cost |-> run.reply[1].cost, manifest |-> Manifest,
                    answered |-> run.reply[1].answered, reached |-> run.cache # << >>,
                    origin |-> run.origin]]
  /\ run' = NextRun
  /\ Leave /\ UNCHANGED <<world, planning, catalogs, runs, crashes>>

(* A catalogue that a crash leaves torn can only make `reproduce' throw.   *)
WriteCatalogs ==
  /\ run.stage = "catalogs"
  /\ catalogs' = catalogs \cup run.captured
  /\ run' = NoRun
  /\ Leave /\ UNCHANGED <<world, planning, records, runs, crashes>>

RunCrashes ==
  /\ run.stage # "down" /\ crashes < MaxCrashes
  /\ crashes' = crashes + 1 /\ run' = NoRun
  /\ Leave /\ UNCHANGED <<world, planning, records, catalogs, runs>>
-----------------------------------------------------------------------------
(* reproduce, audit *)

Optional(S) == {<< >>} \cup {<<s>> : s \in S}

Changed(origin, given) ==
  \/ given.catalog # << >> /\ given.catalog # origin.catalog
  \/ given.prompt # << >> /\ given.prompt # <<origin.prompt>>
  \/ "schema" \in EnvironmentDiffs(origin.environment, given.environment)

(* The catalogue lists the model, too, under the name it was asked by.     *)
Exact(r, origin, given) ==
  /\ given.catalog = origin.catalog /\ given.prompt = <<origin.prompt>>
  /\ given.environment = origin.environment /\ given.backend \in Optional({r.backend})
  /\ \E m \in ToSet(FindModel(given.catalog[1], r.model)) : m.slug = r.model

WholeSnapshots ==
  {[id |-> id, models |-> snaps[id].models] : id \in {s \in DOMAIN snaps : snaps[s].whole}}

(* On a whole record, with or without a catalogue, a prompt snapshot, a    *)
(* backend's name.  ghosts: whether something given, or the schema, is not *)
(* what the run was made from, and whether everything is and is given.     *)
RunReproduce ==
  ~Campaigning /\
  \E r \in {q \in DOMAIN records : records[q].whole} :
  \E catalog \in Optional(catalogs \cup WholeSnapshots), p \in Optional(Prompts) :
  \E backend \in Optional(ToSet(Backends)) :
    LET origin == records[r].origin
        given == [catalog |-> catalog, prompt |-> p, backend |-> backend,
                  environment |-> environment, today |-> today]
    IN  /\ verdict' =
             [kind |-> "reproduce", answer |-> CompareManifest(records[r].manifest, given),
              changed |-> Changed(origin, given), exact |-> Exact(r, origin, given)]
        /\ UNCHANGED <<world, planning, running, crashes>>

(* The prompt snapshot may have been edited by hand since it was made.     *)
RunAudit ==
  ~Campaigning /\
  \E r \in {q \in DOMAIN records : records[q].whole} :
  \E p \in Optional([parts : Prompts, promptId : Prompts]) :
    /\ verdict' = [kind |-> "audit", errors |-> AuditErrors(records[r].manifest, p),
                   changed |-> p # << >> /\ p[1].parts # records[r].origin.prompt]
    /\ UNCHANGED <<world, planning, running, crashes>>

SyncStep == OpenSnapshot \/ WriteSnapshot \/ WriteRaw

RunStep ==
  \/ StartRun \/ (\E reached \in BOOLEAN : Discover(reached))
  \/ Completes \/ Fails \/ OpenRecord \/ WriteRecord \/ WriteCatalogs

Next ==
  \/ Change \/ DayPasses
  \/ SyncStep \/ SyncCrashes \/ RunModelsRecommend \/ Accept
  \/ RunStep \/ RunCrashes
  \/ RunReproduce \/ RunAudit

Spec == Init /\ [][Next]_vars
-----------------------------------------------------------------------------
(* A recommendation speaks of the catalogue that was synchronized last,    *)
(* even if that is one the disk had before; it proposes no model that is   *)
(* about to go; and it never proposes to remove a model that the cohorts   *)
(* owe to an earlier recommendation while the catalogue still lists it.    *)
AdviceHolds ==
  [][RunModelsRecommend =>
       LET listed == advice'.snapshot[2]
       IN  /\ synced # << >> => advice'.snapshot = synced[1]
           /\ \A m \in listed : m.id \in advice'.additions => m.expires = Absent /\ ~m.retiring
           /\ \A m \in listed : accepted \cap {m.id, m.slug} \cap advice'.removals = {}]_vars

(* An answer that was generated, and on OpenRouter paid for, is in its     *)
(* record, unless the catalogue could not be had when the run started; on  *)
(* a backend without prices it always is.                                  *)
GenerationKept ==
  \A r \in DOMAIN records :
    records[r].whole /\ records[r].answered /\ (records[r].reached \/ r.backend = "vllm")
      => records[r].text

(* Whatever was edited, synchronized or installed since, and whatever an   *)
(* earlier run of the same name left behind, a run is called not           *)
(* reproducible exactly when the catalogue or the id of the prompt given   *)
(* is not the one it was made from, or the schema has changed; and its     *)
(* audit has an error exactly when the parts of the prompt snapshot given  *)
(* are not those it was made from, whatever id is written there            *)
(* (compareManifest, auditManifest and what runCampaign notes).            *)
VerdictsGrounded ==
  /\ verdict.kind = "reproduce" => (verdict.answer = "NOT_REPRODUCIBLE" <=> verdict.changed)
  /\ verdict.kind = "audit" => (verdict.errors # {} <=> verdict.changed)

(* "**REPRODUCIBLE** -- catalog + prompt match, no diffs, no lifecycle     *)
(* change" (docs/reproducibility.md:91): given the very catalogue, prompt  *)
(* and environment of a run, and a catalogue that lists its model, the     *)
(* verdict is that.  It is not: buildManifest notes every lifecycle of a   *)
(* campaign run as UNKNOWN (framework/runner.ts:279), which counts as      *)
(* changed once the model is found.                                        *)
ExactIsReproducible ==
  verdict.kind = "reproduce" /\ verdict.exact => verdict.answer = "REPRODUCIBLE"

(* The parts of the inductive invariant.                                   *)

(* A snapshot file that is whole is named after what is in it, no two were *)
(* opened at the same time, and the last one is that of the `models sync'  *)
(* in progress, or that of the last one if none was begun since.           *)
SnapshotFile ==
  [whole : BOOLEAN, models : {<< >>} \cup {BuildSnapshot(c).models : c \in Catalogues}, at : 0..writes]

IsLatest(id) == id \in DOMAIN snaps /\ snaps[id].at = writes

SnapshotsNamed ==
  /\ snaps \in [DOMAIN snaps -> SnapshotFile]
  /\ \A id \in DOMAIN snaps : snaps[id].whole => ComputeSnapshotId(snaps[id].models) = id
  /\ \A i, j \in DOMAIN snaps : snaps[i].at = snaps[j].at => i = j
  /\ \/ sync = NoSync
     \/ /\ sync \in [stage : {"snapshot", "raw"}, snapshot : {BuildSnapshot(c) : c \in Catalogues}]
        /\ IsLatest(sync.snapshot.id)
  /\ synced = << >> \/ \E id \in DOMAIN snaps : synced = <<id>> /\ IsLatest(id)

(* The catalogues a campaign can note.                                     *)
Noted ==
  {BuildCatalogSnapshot(b, Offered(b, c)) : b \in ToSet(Backends), c \in Catalogues}
    \cup {BuildCatalogSnapshot(b, {}) : b \in ToSet(Backends)}

(* A reply has either a text or an error, and an answer that was given     *)
(* keeps its text if its price could be looked up.                         *)
IsReply(reply) ==
  /\ reply.text = (reply.error = Unnamed)
  /\ reply.answered /\ (run.cache # << >> \/ Backend = "vllm") => reply.text

(* A campaign run knows the catalogue it runs against from discovery on,   *)
(* the reply from the completion on, and opens a record before it is       *)
(* written.                                                                *)
RunInOrder ==
  run = NoRun \/
    /\ DOMAIN run = {"stage", "backend", "model", "prompt", "environment", "cache", "catalog",
                     "captured", "reply", "origin"}
    /\ run.stage \in {"discover", "execute", "open", "write", "catalogs"}
    /\ run.backend \in 1..Len(Backends) /\ run.model \in 1..Len(Models)
    /\ run.prompt \in Prompts /\ run.environment \in Environments
    /\ run.captured \subseteq Noted
    /\ run.origin = [prompt |-> run.prompt, environment |-> run.environment, catalog |-> run.origin.catalog]
    /\ run.stage \in {"execute", "open", "write"} =>
         run.catalog = run.origin.catalog /\ \E n \in Noted : run.catalog = <<n>>
    /\ run.stage \in {"open", "write"} => run.reply # << >> /\ IsReply(run.reply[1])
    /\ run.stage = "write" => RunId(Backend, Model, run.prompt) \in DOMAIN records

(* What a record claims of its run is what its name says and what the run  *)
(* was made from, and its catalogue is one a campaign noted.               *)
RecordsFaithful ==
  \A r \in DOMAIN records : records[r].whole =>
    LET manifest == records[r].manifest
    IN  /\ records[r].text = (records[r].error = Unnamed)
        /\ manifest.prompt = r.prompt /\ manifest.backend = r.backend
        /\ records[r].origin = [prompt |-> manifest.prompt, environment |-> manifest.environment,
                                catalog |-> records[r].origin.catalog]
        /\ manifest.prompt \in Prompts /\ manifest.environment \in Environments
        /\ manifest.target.lifecycle = "UNKNOWN" /\ manifest.target.provenance # "missing"
        /\ \E n \in Noted : manifest.catalog = n.id /\ records[r].origin.catalog = <<n>>

(* Every variable has its type, and what the programs leave on disk is     *)
(* what its names say.                                                     *)
OnlineInv ==
  /\ served \in Catalogues /\ prompt \in Prompts /\ environment \in Environments
  /\ today \in 0..LastDay /\ writes \in 0..MaxSyncs /\ runs \in 0..MaxRuns
  /\ changes \in 0..MaxChanges /\ crashes \in 0..MaxCrashes
  /\ catalogs \subseteq Noted
  /\ SnapshotsNamed /\ RunInOrder /\ RecordsFaithful
  /\ GenerationKept /\ VerdictsGrounded
=============================================================================
