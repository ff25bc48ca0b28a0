------------------------------- MODULE Catalog -------------------------------
(* Model catalogues as data (src/catalog, src/campaign/lifecycle.ts,       *)
(* src/campaign/discovery.ts): what a served model becomes in a snapshot,  *)
(* what a snapshot is named, which models a rule proposes, and what a      *)
(* recommendation says about a cohort.                                     *)
(*                                                                         *)
(* Absent stands for a null number.  Descriptions are kept as `retiring':  *)
(* whether one of the words deprecated, legacy or retired is in it.        *)
EXTENDS Integers, SequencesExt, FiniteSetsExt

Absent == -1

Unnamed == "none"

(* What a raw model leaves out is filled in: the slug from the id, the     *)
(* context length from the top provider's.                                 *)
NormalizeModel(raw) ==
  [id |-> raw.id,
   slug |-> IF raw.canonicalSlug = Unnamed THEN raw.id ELSE raw.canonicalSlug,
   created |-> raw.created, expires |-> raw.expires, retiring |-> raw.retiring,
   context |-> IF raw.context = Absent THEN raw.topContext ELSE raw.context,
   price |-> raw.price, params |-> raw.params, outputs |-> raw.outputs,
   intelligence |-> raw.intelligence, popularity |-> raw.popularity]

(* The hash of the models, which does not depend on their order or on when *)
(* they were fetched.                                                      *)
ComputeSnapshotId(models) == <<"snap", ToSet(models)>>

BuildSnapshot(served) ==
  LET models == [i \in DOMAIN served |-> NormalizeModel(served[i])]
  IN  [id |-> ComputeSnapshotId(models), models |-> models]

(* The first model with that id or slug, and with no other: none if the    *)
(* sequence is empty.                                                      *)
FindModel(snapshot, name) ==
  LET named == {i \in DOMAIN snapshot.models : name \in {snapshot.models[i].id, snapshot.models[i].slug}}
  IN  IF named = {} THEN << >> ELSE <<snapshot.models[Min(named)]>>

(* A model past its expiry is retired; with one to come, or a description  *)
(* that says so, it is deprecated.                                         *)
ClassifyLifecycle(found, today) ==
  IF found = << >> THEN "UNKNOWN"
  ELSE LET m == found[1]
       IN  IF m.expires # Absent THEN IF m.expires < today THEN "RETIRED" ELSE "DEPRECATED"
           ELSE IF m.retiring THEN "DEPRECATED" ELSE "ACTIVE"

(* The places of the models with the parameters and the context asked for. *)
FilterModels(models, rule) ==
  {i \in DOMAIN models : /\ rule.params \subseteq models[i].params
                         /\ Max({models[i].context, 0}) >= rule.minContext}

SortKey(m, key) ==
  CASE key = "newest" -> m.created
    [] key = "intelligence-high-to-low" -> m.intelligence
    [] key = "most-popular" -> m.popularity

(* Stable, from high to low; models without the number come last.          *)
SortsBefore(models, key, i, j) ==
  \/ SortKey(models[i], key) > SortKey(models[j], key)
  \/ SortKey(models[i], key) = SortKey(models[j], key) /\ i < j

(* The models a rule asks for, as far as its rank goes, which is cut off   *)
(* before anyone looks at lifecycles or cohorts.                           *)
ProposeCandidates(snapshot, rule, today) ==
  LET models == snapshot.models
      fitting == {i \in FilterModels(models, rule) :
                    /\ rule.outputs \subseteq models[i].outputs
                    /\ rule.addedWithin # Absent
                         => /\ models[i].created # Absent
                            /\ models[i].created >= today - rule.addedWithin}
      rank(i) == Cardinality({j \in fitting : SortsBefore(models, rule.sort, j, i)})
  IN  {models[i] : i \in {j \in fitting : rule.maxRank = Absent \/ rank(j) < rule.maxRank}}

ToCandidate(m) == m.id

(* Without an earlier snapshot nothing counts as expired, and the command  *)
(* never gives one.                                                        *)
GenerateRecommendation(snapshot, cohortIds, rules, today) ==
  LET proposed == UNION {ProposeCandidates(snapshot, rule, today) : rule \in rules}
      listed == {snapshot.models[i].id : i \in DOMAIN snapshot.models}
  IN  [snapshot |-> snapshot.id,
       aliasDrift |-> {m.id : m \in {n \in ToSet(snapshot.models) : n.slug # n.id}},
       additions |-> {ToCandidate(m) :
                        m \in {n \in proposed : /\ n.id \notin cohortIds
                                                /\ ClassifyLifecycle(<<n>>, today) = "ACTIVE"}},
       removals |-> cohortIds \ listed]

Check(given, wanted) ==
  IF given = << >> THEN "not checked" ELSE IF given[1] = wanted THEN "yes" ELSE "no"

Verified(match) == match = "yes"

(* The fields that two environments differ in. *)
EnvironmentDiffs(e, f) == {k \in DOMAIN e : e[k] # f[k]}

(* The command `plinius reproduce' and compareManifest: what it is given   *)
(* of today's state (sequences of no or one element) against the manifest. *)
(* Providers are never given.  A target is looked up by its slug if it has *)
(* one: in the manifests of framework campaigns that is the requested name. *)
CompareManifest(manifest, given) ==
  LET catalogMatch == Check([i \in DOMAIN given.catalog |-> given.catalog[i].id], manifest.catalog)
      promptMatch == Check(given.prompt, manifest.prompt)
      backendMatch == Check(given.backend, manifest.backend)
      environmentDiffs == EnvironmentDiffs(manifest.environment, given.environment)
      found == IF given.catalog = << >> THEN << >>
               ELSE FindModel(given.catalog[1], manifest.target.canonicalSlug)
      lifecycle == ClassifyLifecycle(found, given.today)
      lifecycleDiff == given.catalog # << >> /\ lifecycle # manifest.target.lifecycle
      aliasDiff == /\ given.catalog # << >>
                   /\ \/ found = << >>
                      \/ found # << >> /\ found[1].slug # manifest.target.canonicalSlug
      identityBroken == \/ catalogMatch = "no" \/ promptMatch = "no"
                        \/ "schema" \in environmentDiffs
                        \/ lifecycleDiff /\ lifecycle = "RETIRED"
      fullyVerified == /\ Verified(catalogMatch) /\ Verified(promptMatch) /\ backendMatch # "no"
                       /\ environmentDiffs = {} /\ ~lifecycleDiff /\ ~aliasDiff
  IN  IF identityBroken THEN "NOT_REPRODUCIBLE"
      ELSE IF fullyVerified THEN "REPRODUCIBLE" ELSE "PARTIALLY_REPRODUCIBLE"

(* A generation id and a provider, one of them, or neither.                *)
ClassifyProvenance(hasId, hasProvider) ==
  IF hasId /\ hasProvider THEN "complete"
  ELSE IF hasId \/ hasProvider THEN "partial" ELSE "missing"

(* Mutated form: the id written in the prompt snapshot is believed.        *)
AuditErrorsOfIds(manifest, promptSnapshot) ==
  {check \in {"provenance", "fingerprint", "lifecycle"} :
     \/ check = "provenance" /\ manifest.target.provenance = "missing"
     \/ check = "lifecycle" /\ manifest.target.lifecycle = "RETIRED"
     \/ check = "fingerprint" /\ promptSnapshot # << >> /\ promptSnapshot[1].promptId # manifest.prompt}

(* The checks that can be an error: the snapshot ids are there, no target  *)
(* lacks provenance or is retired, and the parts of a given prompt snapshot *)
(* hash to the manifest's prompt id.  The others only warn.                *)
AuditErrors(manifest, promptSnapshot) ==
  {check \in {"provenance", "fingerprint", "lifecycle"} :
     \/ check = "provenance" /\ manifest.target.provenance = "missing"
     \/ check = "lifecycle" /\ manifest.target.lifecycle = "RETIRED"
     \/ check = "fingerprint" /\ promptSnapshot # << >> /\ promptSnapshot[1].parts # manifest.prompt}
=============================================================================
