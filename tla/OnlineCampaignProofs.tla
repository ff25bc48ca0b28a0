------------------------- MODULE OnlineCampaignProofs -------------------------
(***************************************************************************)
(* Proofs about OnlineCampaign for every set of catalogues, prompts,       *)
(* environments and faults, any number of synchronizations, campaign runs  *)
(* and crashes, and any change of the world between two steps.             *)
(***************************************************************************)
EXTENDS OnlineCampaign, FiniteSetTheorems, WellFoundedInduction, TLAPS

(* A set of numbers that is not empty has a least one.                     *)
LEMMA LeastIsOne ==
  ASSUME NEW S \in SUBSET Nat, S # {}
  PROVE  Min(S) \in S /\ \A y \in S : Min(S) <= y
<1> DEFINE R == OpToRel(<, Nat)
<1>1. IsWellFoundedOn(R, Nat)
  BY NatLessThanWellFounded
<1>2. \A x, y \in Nat : <<y, x>> \in R <=> y < x
  BY DEF OpToRel
<1> HIDE DEF R
<1>3. \E x \in S : \A y \in S : ~ (<<y, x>> \in R)
  <2>1. S \subseteq Nat /\ S # {}
    OBVIOUS
  <2>2. QED
    BY <1>1, <2>1, WFMin
<1>4. \E x \in S : \A y \in S : x <= y
  <2>1. PICK x \in S : \A y \in S : ~ (<<y, x>> \in R)
    BY <1>3
  <2>2. \A y \in S : ~ (y < x)
    <3>1. x \in Nat /\ \A y \in S : y \in Nat
      OBVIOUS
    <3>2. QED
      BY <1>2, <2>1, <3>1, Zenon
  <2>3. \A y \in S : x \in Nat /\ y \in Nat
    OBVIOUS
  <2>4. QED
    BY <2>2, <2>3
<1>5. Min(S) = CHOOSE x \in S : \A y \in S : x <= y
  BY Zenon DEF Min
<1>6. QED
  BY <1>4, <1>5

(* A model that is found is one of the list.                               *)
LEMMA FoundIsListed ==
  ASSUME NEW snapshot, DOMAIN snapshot.models \subseteq Nat, NEW name
  PROVE  \/ FindModel(snapshot, name) = << >>
         \/ \E i \in DOMAIN snapshot.models : FindModel(snapshot, name) = <<snapshot.models[i]>>
<1> DEFINE named == {i \in DOMAIN snapshot.models : name \in {snapshot.models[i].id, snapshot.models[i].slug}}
<1>1. named \in SUBSET Nat /\ named \subseteq DOMAIN snapshot.models
  OBVIOUS
<1>2. FindModel(snapshot, name) = IF named = {} THEN << >> ELSE <<snapshot.models[Min(named)]>>
  BY Zenon DEF FindModel
<1> HIDE DEF named
<1>3. named # {} => Min(named) \in DOMAIN snapshot.models
  BY <1>1, LeastIsOne
<1>4. QED
  BY <1>2, <1>3

(* A finite set can be put in a sequence.                                  *)
LEMMA SetInSequence ==
  ASSUME NEW S, IsFiniteSet(S)
  PROVE  Cardinality(S) \in Nat /\ SetToSeq(S) \in [1..Cardinality(S) -> S]
<1>1. Cardinality(S) \in Nat /\ ExistsBijection(1..Cardinality(S), S)
  BY FS_CardinalityType
<1>2. \E f \in [1..Cardinality(S) -> S] : IsInjective(f)
  <2>1. PICK f : f \in Bijection(1..Cardinality(S), S)
    BY <1>1 DEF ExistsBijection
  <2>2. /\ f \in [1..Cardinality(S) -> S]
        /\ \A a, b \in 1..Cardinality(S) : f[a] = f[b] => a = b
    BY <2>1 DEF Bijection, Injection, IsInjective
  <2>3. IsInjective(f)
    BY <2>2 DEF IsInjective
  <2>4. QED
    BY <2>2, <2>3
<1>3. QED
  BY <1>1, <1>2 DEF SetToSeq

(* What a backend offers is finite, and knows neither expiry nor retirement. *)
LEMMA OfferedFinite ==
  ASSUME NEW b, NEW c \in Catalogues
  PROVE  /\ IsFiniteSet(Offered(b, c))
         /\ \A d \in Offered(b, c) : d.expires = Absent /\ ~d.retiring
<1>1. \A d \in Offered(b, c) : d.expires = Absent /\ ~d.retiring
  BY DEF Offered, Descriptor
<1>2. CASE b = "openrouter"
  <2> DEFINE ms == BuildSnapshot(c).models
             f == [i \in DOMAIN c |-> Descriptor(ms[i])]
  <2>1. DOMAIN c = 1..Len(c) /\ Len(c) \in Nat
    BY OnlineAssumption
  <2>2. ms = [i \in DOMAIN c |-> NormalizeModel(c[i])]
    BY DEF BuildSnapshot
  <2>3. Offered(b, c) = {Descriptor(m) : m \in {ms[i] : i \in DOMAIN c}}
    <3>1. ToSet(ms) = {ms[i] : i \in DOMAIN c}
      BY <2>2 DEF ToSet
    <3>2. Offered(b, c) = {Descriptor(m) : m \in ToSet(ms)}
      BY <1>2, Zenon DEF Offered
    <3>3. QED
      BY <3>1, <3>2, Zenon
  <2> HIDE DEF ms
  <2>4. f \in Surjection(DOMAIN c, Offered(b, c))
    BY <2>3 DEF Surjection
  <2>5. IsFiniteSet(DOMAIN c)
    BY <2>1, FS_Interval, 1 \in Int
  <2>6. QED
    BY <1>1, <2>4, <2>5, FS_Surjection
<1>3. CASE b # "openrouter"
  <2> DEFINE f == [raw \in Local |-> Descriptor(LocalModel(raw))]
  <2>1. Offered(b, c) = {Descriptor(m) : m \in {LocalModel(raw) : raw \in Local}}
    BY <1>3, Zenon DEF Offered
  <2>2. f \in Surjection(Local, Offered(b, c))
    BY <2>1 DEF Surjection
  <2>3. QED
    BY <1>1, <2>2, FS_Surjection, OnlineAssumption
<1>4. QED
  BY <1>2, <1>3

(* A catalogue a campaign notes lists models of which nothing is known but *)
(* their names.                                                            *)
LEMMA NotedIsBare ==
  ASSUME NEW n \in Noted
  PROVE  /\ n.id[1] = "catalog" /\ DOMAIN n.models \subseteq Nat
         /\ \A i \in DOMAIN n.models : n.models[i].expires = Absent /\ ~n.models[i].retiring
<1>1. PICK b, D : /\ n = BuildCatalogSnapshot(b, D) /\ IsFiniteSet(D)
                  /\ \A d \in D : d.expires = Absent /\ ~d.retiring
  <2>1. CASE n \in {BuildCatalogSnapshot(b, Offered(b, c)) : b \in ToSet(Backends), c \in Catalogues}
    BY <2>1, OfferedFinite
  <2>2. CASE n \in {BuildCatalogSnapshot(b, {}) : b \in ToSet(Backends)}
    BY <2>2, FS_EmptySet
  <2>3. QED
    BY <2>1, <2>2 DEF Noted
<1>2. n.id = <<"catalog", b, D>> /\ n.models = SetToSeq(D)
  BY <1>1 DEF BuildCatalogSnapshot
<1>3. Cardinality(D) \in Nat /\ SetToSeq(D) \in [1..Cardinality(D) -> D]
  BY <1>1, SetInSequence
<1>4. QED
  BY <1>1, <1>2, <1>3


(* The model that a noted catalogue has under a name is never one that      *)
(* expires, so its lifecycle is never RETIRED, and never UNKNOWN.          *)
LEMMA NotedLifecycle ==
  ASSUME NEW n \in Noted, NEW name, NEW day
  PROVE  \/ FindModel(n, name) = << >>
         \/ ClassifyLifecycle(FindModel(n, name), day) = "ACTIVE"
<1>1. CASE \E i \in DOMAIN n.models : FindModel(n, name) = <<n.models[i]>>
  <2>1. PICK i \in DOMAIN n.models : FindModel(n, name) = <<n.models[i]>>
    BY <1>1
  <2>2. n.models[i].expires = Absent /\ ~n.models[i].retiring
    BY NotedIsBare
  <2> DEFINE m == n.models[i]
  <2>3. <<m>> # << >> /\ <<m>>[1] = m
    OBVIOUS
  <2> HIDE DEF m
  <2>4. ClassifyLifecycle(<<m>>, day) = "ACTIVE"
    BY <2>2, <2>3 DEF ClassifyLifecycle, m
  <2>5. QED
    BY <2>1, <2>4 DEF m
<1>2. QED
  BY <1>1, FoundIsListed, NotedIsBare

(* A whole snapshot has not the name of a catalogue a campaign noted.      *)
LEMMA SnapshotsAreNotNoted ==
  ASSUME SnapshotsNamed, NEW s \in WholeSnapshots, NEW n \in Noted
  PROVE  s.id # n.id
<1>1. s.id[1] = "snap"
  BY DEF WholeSnapshots, SnapshotsNamed, ComputeSnapshotId
<1>2. QED
  BY <1>1, NotedIsBare

(* A noted catalogue is known by its name.                                 *)
LEMMA NotedByName ==
  ASSUME NEW m \in Noted, NEW n \in Noted, m.id = n.id
  PROVE  m = n
<1>1. ASSUME NEW x \in Noted PROVE \E b, D : x = BuildCatalogSnapshot(b, D)
  <2>1. CASE x \in {BuildCatalogSnapshot(b, Offered(b, c)) : b \in ToSet(Backends), c \in Catalogues}
    <3>1. PICK b \in ToSet(Backends), c \in Catalogues : x = BuildCatalogSnapshot(b, Offered(b, c))
      BY <2>1
    <3>2. QED
      BY <3>1
  <2>2. CASE x \in {BuildCatalogSnapshot(b, {}) : b \in ToSet(Backends)}
    <3>1. PICK b \in ToSet(Backends) : x = BuildCatalogSnapshot(b, {})
      BY <2>2
    <3>2. QED
      BY <3>1
  <2>3. QED
    BY <2>1, <2>2 DEF Noted
<1>2. PICK b, D : m = BuildCatalogSnapshot(b, D)
  BY <1>1
<1>3. PICK c, E : n = BuildCatalogSnapshot(c, E)
  BY <1>1
<1>4. b = c /\ D = E
  BY <1>2, <1>3 DEF BuildCatalogSnapshot
<1>5. QED
  BY <1>2, <1>3, <1>4

(* What is not given is not compared.                                      *)
LEMMA Checked ==
  ASSUME NEW given, NEW wanted, given = << >> \/ \E g : given = <<g>>
  PROVE  Check(given, wanted) = "no" <=> given # << >> /\ given # <<wanted>>
<1>1. CASE given = << >>
  BY <1>1 DEF Check
<1>2. CASE \E g : given = <<g>>
  <2>1. PICK g : given = <<g>>
    BY <1>2
  <2>2. given[1] = g /\ given # << >> /\ (given = <<wanted>> <=> g = wanted)
    BY <2>1
  <2>3. QED
    BY <2>2 DEF Check
<1>3. QED
  BY <1>1, <1>2

(* `reproduce' refuses a run exactly if something given, or the schema, is *)
(* not what the run was made from: the model that is looked up in the      *)
(* run's own catalogue never counts as retired.                            *)
LEMMA ReproduceGrounded ==
  ASSUME NEW manifest, NEW n \in Noted, manifest.catalog = n.id,
         manifest.target.lifecycle = "UNKNOWN",
         NEW origin,
         origin = [prompt |-> manifest.prompt, environment |-> manifest.environment, catalog |-> <<n>>],
         NEW given,
         \/ given.catalog = << >>
         \/ \E c : given.catalog = <<c>> /\ (c.id = n.id => c = n),
         given.prompt = << >> \/ \E q : given.prompt = <<q>>
  PROVE  CompareManifest(manifest, given) = "NOT_REPRODUCIBLE" <=> Changed(origin, given)
<1> DEFINE ids == [i \in DOMAIN given.catalog |-> given.catalog[i].id]
           catalogMatch == Check(ids, manifest.catalog)
           promptMatch == Check(given.prompt, manifest.prompt)
           backendMatch == Check(given.backend, manifest.backend)
           diffs == EnvironmentDiffs(manifest.environment, given.environment)
           found == IF given.catalog = << >> THEN << >>
                    ELSE FindModel(given.catalog[1], manifest.target.canonicalSlug)
           lifecycle == ClassifyLifecycle(found, given.today)
           lifecycleDiff == given.catalog # << >> /\ lifecycle # manifest.target.lifecycle
           aliasDiff == /\ given.catalog # << >>
                        /\ \/ found = << >>
                           \/ found # << >> /\ found[1].slug # manifest.target.canonicalSlug
           broken == \/ catalogMatch = "no" \/ promptMatch = "no" \/ "schema" \in diffs
                     \/ lifecycleDiff /\ lifecycle = "RETIRED"
           full == /\ Verified(catalogMatch) /\ Verified(promptMatch) /\ backendMatch # "no"
                   /\ diffs = {} /\ ~lifecycleDiff /\ ~aliasDiff
<1>1. CompareManifest(manifest, given)
        = IF broken THEN "NOT_REPRODUCIBLE" ELSE IF full THEN "REPRODUCIBLE" ELSE "PARTIALLY_REPRODUCIBLE"
  BY Zenon DEF CompareManifest
<1>2. catalogMatch = "no" <=> given.catalog # << >> /\ given.catalog # <<n>>
  <2>1. CASE given.catalog = << >>
    <3>1. ids = << >>
      BY <2>1
    <3>2. QED
      BY <2>1, <3>1, Checked
  <2>2. CASE \E c : given.catalog = <<c>> /\ (c.id = n.id => c = n)
    <3>1. PICK c : given.catalog = <<c>> /\ (c.id = n.id => c = n)
      BY <2>2
    <3>2. ids = <<c.id>>
      BY <3>1
    <3> HIDE DEF ids
    <3>3. catalogMatch = "no" <=> ids # << >> /\ ids # <<n.id>>
      BY <3>2, Checked
    <3>4. QED
      BY <3>1, <3>2, <3>3
  <2>3. QED
    BY <2>1, <2>2
<1>3. promptMatch = "no" <=> given.prompt # << >> /\ given.prompt # <<manifest.prompt>>
  BY Checked
<1>4. given.catalog = <<n>> => lifecycle # "RETIRED"
  <2>1. SUFFICES ASSUME given.catalog = <<n>> PROVE lifecycle # "RETIRED"
    OBVIOUS
  <2>2. found = FindModel(n, manifest.target.canonicalSlug)
    BY <2>1
  <2> HIDE DEF found
  <2>3. found = << >> \/ lifecycle = "ACTIVE"
    BY <2>2, NotedLifecycle
  <2>4. found = << >> => lifecycle = "UNKNOWN"
    BY DEF ClassifyLifecycle
  <2>5. QED
    BY <2>3, <2>4
<1>5. lifecycleDiff => given.catalog # << >>
  OBVIOUS
<1>6. Changed(origin, given) <=>
        \/ given.catalog # << >> /\ given.catalog # <<n>>
        \/ given.prompt # << >> /\ given.prompt # <<manifest.prompt>>
        \/ "schema" \in diffs
  <2>1. origin.catalog = <<n>> /\ origin.prompt = manifest.prompt /\ origin.environment = manifest.environment
    OBVIOUS
  <2>2. QED
    BY <2>1 DEF Changed
<1>7. broken <=>
        \/ catalogMatch = "no" \/ promptMatch = "no" \/ "schema" \in diffs
        \/ lifecycleDiff /\ lifecycle = "RETIRED"
  OBVIOUS
<1> HIDE DEF catalogMatch, promptMatch, backendMatch, diffs, lifecycle, lifecycleDiff, full, broken
<1>8. broken <=> Changed(origin, given)
  BY <1>2, <1>3, <1>4, <1>5, <1>6, <1>7
<1>9. QED
  BY <1>1, <1>8

(* A failed completion has an error and no text; an answer that was given  *)
(* has a text, if its price could be looked up or it has none.             *)
LEMMA RepliesTyped ==
  /\ \A b : \A fault \in Faults : ToBackendError(b, fault) # Unnamed
  /\ \A kind : kind # Unnamed => IsReply(Failed(kind))
  /\ \A usage, hasId : IsReply(Execute(usage, hasId))
<1>1. ASSUME NEW fault \in Faults, NEW b PROVE ToBackendError(b, fault) # Unnamed
  <2>1. fault.kind \in {"http", "timeout", "network", "invalid_response"}
    BY OnlineAssumption
  <2>2. CASE fault.kind = "http"
    <3>1. fault.status \in Nat
      BY <2>2, OnlineAssumption
    <3>2. KindFromStatus(fault.status) # "none"
      BY <3>1 DEF KindFromStatus
    <3>3. QED
      BY <2>2, <3>2 DEF ToBackendError, Unnamed
  <2>3. CASE fault.kind # "http"
    BY <2>1, <2>3 DEF ToBackendError, Unnamed
  <2>4. QED
    BY <2>2, <2>3
<1>2. ASSUME NEW kind, kind # Unnamed PROVE IsReply(Failed(kind))
  BY <1>2 DEF IsReply, Failed
<1>3. ASSUME NEW usage, NEW hasId PROVE IsReply(Execute(usage, hasId))
  <2> DEFINE estimate == IF Backend = "vllm" THEN [thrown |-> FALSE, cost |-> 0]
                         ELSE IF run.cache = << >> THEN [thrown |-> TRUE, cost |-> Absent]
                         ELSE EstimateCost(usage)
             failed == [Failed("unknown") EXCEPT !.answered = TRUE]
             kept == [text |-> TRUE, error |-> Unnamed, generationId |-> hasId, cost |-> estimate.cost,
                      answered |-> TRUE]
  <2>1. Execute(usage, hasId) = IF estimate.thrown THEN failed ELSE kept
    BY DEF Execute
  <2>2. estimate.thrown => Backend # "vllm" /\ run.cache = << >>
    BY DEF EstimateCost
  <2>3. failed.text = FALSE /\ failed.error = "unknown" /\ failed.answered = TRUE
    BY DEF Failed
  <2>4. kept.text = TRUE /\ kept.error = Unnamed
    OBVIOUS
  <2> HIDE DEF estimate, failed, kept
  <2>5. CASE estimate.thrown
    BY <2>1, <2>2, <2>3, <2>5 DEF IsReply, Unnamed
  <2>6. CASE ~estimate.thrown
    BY <2>1, <2>4, <2>6 DEF IsReply
  <2>7. QED
    BY <2>5, <2>6
<1>4. QED
  BY <1>1, <1>2, <1>3

(* What a step leaves alone stays as it was.                               *)
LEMMA LeftAlone ==
  ASSUME OnlineInv
  PROVE  /\ UNCHANGED <<snaps, sync, synced, writes>> => SnapshotsNamed'
         /\ UNCHANGED <<run, records>> => RunInOrder'
         /\ UNCHANGED records => RecordsFaithful' /\ GenerationKept'
         /\ UNCHANGED verdict => VerdictsGrounded'
         /\ Leave => VerdictsGrounded'
<1>1. UNCHANGED <<snaps, sync, synced, writes>> => SnapshotsNamed'
  BY DEF OnlineInv, SnapshotsNamed, SnapshotFile, IsLatest
<1>2. UNCHANGED <<run, records>> => RunInOrder'
  BY DEF OnlineInv, RunInOrder, IsReply, Backend, Model
<1>3. UNCHANGED records => RecordsFaithful' /\ GenerationKept'
  BY DEF OnlineInv, RecordsFaithful, GenerationKept
<1>4. UNCHANGED verdict => VerdictsGrounded'
  BY DEF OnlineInv, VerdictsGrounded
<1>5. Leave => VerdictsGrounded'
  BY DEF Leave, NoVerdict, VerdictsGrounded
<1>6. QED
  BY <1>1, <1>2, <1>3, <1>4, <1>5

(* The invariant holds at the start.                                       *)
LEMMA OnlineInitial == Init => OnlineInv
<1> SUFFICES ASSUME Init PROVE OnlineInv
  OBVIOUS
<1>1. /\ served \in Catalogues /\ prompt \in Prompts /\ environment \in Environments
      /\ today \in 0..LastDay /\ writes \in 0..MaxSyncs /\ runs \in 0..MaxRuns
      /\ changes \in 0..MaxChanges /\ crashes \in 0..MaxCrashes
  BY OnlineAssumption DEF Init
<1>2. SnapshotsNamed
  <2>0. writes = 0 /\ sync = NoSync /\ synced = << >>
    BY DEF Init
  <2>1. CASE snaps = NoFiles
    <3>1. DOMAIN snaps = {} /\ snaps = [x \in DOMAIN snaps |-> snaps[x]]
      BY <2>1 DEF NoFiles
    <3>2. QED
      BY <2>0, <3>1 DEF SnapshotsNamed
  <2>2. CASE \E c \in Catalogues : snaps = Stored(BuildSnapshot(c))
    <3>1. PICK c \in Catalogues : snaps = Stored(BuildSnapshot(c))
      BY <2>2
    <3> DEFINE s == BuildSnapshot(c)
               file == [whole |-> TRUE, models |-> s.models, at |-> 0]
    <3>2. s.id = ComputeSnapshotId(s.models)
      BY DEF BuildSnapshot
    <3>3. file \in SnapshotFile
      <4>1. s.models \in {BuildSnapshot(d).models : d \in Catalogues}
        OBVIOUS
      <4> HIDE DEF s
      <4>2. QED
        BY <2>0, <4>1 DEF SnapshotFile, s
    <3>4. file.whole = TRUE /\ file.models = s.models
      OBVIOUS
    <3>5. snaps = [y \in {s.id} |-> file]
      BY <3>1 DEF Stored, Put, NoFiles
    <3> HIDE DEF s, file
    <3>6. DOMAIN snaps = {s.id} /\ snaps[s.id] = file /\ snaps \in [DOMAIN snaps -> SnapshotFile]
      BY <3>3, <3>5
    <3>7. QED
      BY <2>0, <3>2, <3>4, <3>6 DEF SnapshotsNamed
  <2>3. QED
    BY <2>1, <2>2 DEF Init
<1>3. RunInOrder
  BY DEF Init, RunInOrder
<1>4. RecordsFaithful /\ GenerationKept /\ VerdictsGrounded
  BY DEF Init, RecordsFaithful, GenerationKept, VerdictsGrounded, NoFiles, NoVerdict
<1>5. catalogs \subseteq Noted
  BY DEF Init
<1>6. QED
  BY <1>1, <1>2, <1>3, <1>4, <1>5 DEF OnlineInv


(* Every step keeps the snapshots named after their models and the last    *)
(* one known.                                                              *)
LEMMA SnapshotStep == OnlineInv /\ [Next]_vars => SnapshotsNamed'
<1> SUFFICES ASSUME OnlineInv, [Next]_vars PROVE SnapshotsNamed'
  OBVIOUS
<1> USE DEF planning
<1>0. SnapshotsNamed /\ served \in Catalogues /\ writes \in Nat
  BY OnlineAssumption DEF OnlineInv
<1>t. /\ snaps \in [DOMAIN snaps -> SnapshotFile]
      /\ \A id \in DOMAIN snaps : /\ snaps[id] \in SnapshotFile
                                  /\ snaps[id].whole => ComputeSnapshotId(snaps[id].models) = id
      /\ \A i, j \in DOMAIN snaps : snaps[i].at = snaps[j].at => i = j
  BY <1>0 DEF SnapshotsNamed
<1>1. CASE UNCHANGED <<snaps, sync, synced, writes>>
  BY <1>1, LeftAlone
<1>2. ASSUME OpenSnapshot PROVE SnapshotsNamed'
  <2> DEFINE s == BuildSnapshot(served)
             file == [whole |-> FALSE, models |-> << >>, at |-> writes + 1]
  <2>1. /\ snaps' = Put(snaps, s.id, file) /\ sync' = [stage |-> "snapshot", snapshot |-> s]
        /\ writes' = writes + 1 /\ synced' = << >>
    BY <1>2 DEF OpenSnapshot
  <2>2. s \in {BuildSnapshot(c) : c \in Catalogues}
    BY <1>0
  <2>3. file \in SnapshotFile' /\ file.whole = FALSE /\ file.at = writes + 1
    BY <1>0, <2>1 DEF SnapshotFile
  <2> HIDE DEF s, file
  <2>4. /\ DOMAIN snaps' = DOMAIN snaps \cup {s.id} /\ snaps'[s.id] = file
        /\ \A id \in DOMAIN snaps : id # s.id => snaps'[id] = snaps[id]
        /\ snaps' = [id \in DOMAIN snaps' |-> snaps'[id]]
    BY <2>1 DEF Put
  <2>5. \A f \in SnapshotFile : f \in SnapshotFile' /\ f.at < writes + 1
    BY <1>0, <2>1 DEF SnapshotFile
  <2>6. snaps' \in [DOMAIN snaps' -> SnapshotFile']
    BY <1>t, <2>3, <2>4, <2>5
  <2>7. \A id \in DOMAIN snaps' : snaps'[id].whole => ComputeSnapshotId(snaps'[id].models) = id
    BY <1>t, <2>3, <2>4
  <2>8. \A i, j \in DOMAIN snaps' : snaps'[i].at = snaps'[j].at => i = j
    <3> SUFFICES ASSUME NEW i \in DOMAIN snaps', NEW j \in DOMAIN snaps', snaps'[i].at = snaps'[j].at
                 PROVE  i = j
      OBVIOUS
    <3>1. \A k \in DOMAIN snaps : snaps[k].at < writes + 1 /\ snaps[k].at \in Int
      BY <1>t, <2>5 DEF SnapshotFile
    <3>2. CASE i = s.id
      BY <1>0, <2>3, <2>4, <3>1, <3>2
    <3>3. CASE j = s.id
      BY <1>0, <2>3, <2>4, <3>1, <3>3
    <3>4. CASE i # s.id /\ j # s.id
      BY <1>t, <2>4, <3>4
    <3>5. QED
      BY <3>2, <3>3, <3>4
  <2>9. /\ sync' \in [stage : {"snapshot", "raw"}, snapshot : {BuildSnapshot(c) : c \in Catalogues}]
        /\ sync'.snapshot.id \in DOMAIN snaps' /\ snaps'[sync'.snapshot.id].at = writes'
    BY <2>1, <2>2, <2>3, <2>4
  <2>10. QED
    BY <2>1, <2>6, <2>7, <2>8, <2>9 DEF SnapshotsNamed, IsLatest
<1>3. ASSUME WriteSnapshot PROVE SnapshotsNamed'
  <2>1. sync.stage = "snapshot" /\ sync # NoSync
    BY <1>3 DEF WriteSnapshot, NoSync
  <2>2. /\ sync \in [stage : {"snapshot", "raw"}, snapshot : {BuildSnapshot(c) : c \in Catalogues}]
        /\ sync.snapshot.id \in DOMAIN snaps /\ snaps[sync.snapshot.id].at = writes
    BY <1>0, <2>1 DEF SnapshotsNamed, IsLatest
  <2> DEFINE s == sync.snapshot
             file == [snaps[s.id] EXCEPT !.whole = TRUE, !.models = s.models]
  <2>3. /\ s \in {BuildSnapshot(c) : c \in Catalogues} /\ s.id = ComputeSnapshotId(s.models)
    <3>1. s \in {BuildSnapshot(c) : c \in Catalogues}
      BY <2>2
    <3>2. PICK c \in Catalogues : s = BuildSnapshot(c)
      BY <3>1
    <3> HIDE DEF s
    <3>3. s.id = ComputeSnapshotId(s.models)
      BY <3>2 DEF BuildSnapshot
    <3>4. QED
      BY <3>1, <3>3
  <2>4. s.models \in {BuildSnapshot(c).models : c \in Catalogues}
    BY <2>3
  <2>5. /\ snaps' = [snaps EXCEPT ![s.id] = file] /\ sync' = [sync EXCEPT !.stage = "raw"]
        /\ UNCHANGED <<synced, writes>>
    BY <1>3 DEF WriteSnapshot
  <2> HIDE DEF s
  <2>6. s.id \in DOMAIN snaps /\ snaps[s.id] \in SnapshotFile
    BY <1>t, <2>2 DEF s
  <2>7. file \in SnapshotFile /\ file.whole = TRUE /\ file.models = s.models /\ file.at = snaps[s.id].at
    BY <2>4, <2>6 DEF SnapshotFile
  <2> HIDE DEF file
  <2>8. /\ DOMAIN snaps' = DOMAIN snaps /\ snaps'[s.id] = file
        /\ \A id \in DOMAIN snaps : id # s.id => snaps'[id] = snaps[id]
        /\ snaps' \in [DOMAIN snaps -> SnapshotFile]
    BY <1>t, <2>5, <2>6, <2>7
  <2>9. SnapshotFile' = SnapshotFile
    BY <2>5 DEF SnapshotFile
  <2>10. /\ sync' \in [stage : {"snapshot", "raw"}, snapshot : {BuildSnapshot(c) : c \in Catalogues}]
         /\ sync'.snapshot = s
    BY <2>2, <2>5 DEF s
  <2>11. \A id \in DOMAIN snaps : snaps'[id].at = snaps[id].at
    BY <2>7, <2>8
  <2>12. \A id \in DOMAIN snaps' : snaps'[id].whole => ComputeSnapshotId(snaps'[id].models) = id
    BY <1>t, <2>3, <2>7, <2>8
  <2>13. \A i, j \in DOMAIN snaps' : snaps'[i].at = snaps'[j].at => i = j
    BY <1>t, <2>8, <2>11
  <2>14. s.id \in DOMAIN snaps' /\ snaps'[s.id].at = writes'
    BY <2>2, <2>5, <2>8, <2>11 DEF s
  <2>15. synced' = << >> \/ \E id \in DOMAIN snaps' : synced' = <<id>> /\ snaps'[id].at = writes'
    BY <1>0, <2>5, <2>8, <2>11 DEF SnapshotsNamed, IsLatest
  <2>16. QED
    BY <2>8, <2>9, <2>10, <2>12, <2>13, <2>14, <2>15 DEF SnapshotsNamed, IsLatest
<1>4. ASSUME sync' = NoSync, UNCHANGED <<snaps, writes>>,
             synced' = synced \/ (sync # NoSync /\ synced' = <<sync.snapshot.id>>)
      PROVE  SnapshotsNamed'
  <2>1. SnapshotFile' = SnapshotFile
    BY <1>4 DEF SnapshotFile
  <2>2. synced' = << >> \/ \E id \in DOMAIN snaps : synced' = <<id>> /\ IsLatest(id)
    BY <1>0, <1>4 DEF SnapshotsNamed, IsLatest
  <2>3. QED
    BY <1>t, <1>4, <2>1, <2>2 DEF SnapshotsNamed, IsLatest
<1>5. WriteRaw => SnapshotsNamed'
  BY <1>4 DEF WriteRaw, NoSync
<1>6. SyncCrashes => SnapshotsNamed'
  BY <1>4 DEF SyncCrashes
<1>7. Change \/ DayPasses \/ RunModelsRecommend \/ Accept => SnapshotsNamed'
  <2>1. (Change => UNCHANGED planning) /\ (DayPasses => UNCHANGED planning)
    BY DEF Change, DayPasses
  <2>2. RunModelsRecommend => UNCHANGED <<snaps, sync, writes, synced>>
    BY DEF RunModelsRecommend
  <2>3. Accept => UNCHANGED <<snaps, sync, writes, synced>>
    BY DEF Accept
  <2>4. QED
    BY <1>1, <2>1, <2>2, <2>3 DEF planning
<1>8. RunStep \/ RunCrashes \/ RunReproduce \/ RunAudit => SnapshotsNamed'
  BY <1>1 DEF RunStep, StartRun, Discover, Completes, Fails, Replied, OpenRecord, WriteRecord, WriteCatalogs,
              RunCrashes, RunReproduce, RunAudit
<1>9. UNCHANGED vars => SnapshotsNamed'
  BY <1>1 DEF vars
<1>10. QED
  BY <1>2, <1>3, <1>5, <1>6, <1>7, <1>8, <1>9 DEF Next, SyncStep


(* The campaign run that goes on is one of the campaign.                   *)
LEMMA Running ==
  ASSUME RunInOrder, run # NoRun
  PROVE  /\ DOMAIN run = {"stage", "backend", "model", "prompt", "environment", "cache", "catalog",
                          "captured", "reply", "origin"}
         /\ run.origin = [prompt |-> run.prompt, environment |-> run.environment,
                          catalog |-> run.origin.catalog]
         /\ run.backend \in 1..Len(Backends) /\ run.model \in 1..Len(Models)
         /\ Len(Backends) \in Nat \ {0} /\ Len(Models) \in Nat \ {0}
         /\ Backend \in ToSet(Backends)
         /\ run.prompt \in Prompts /\ run.environment \in Environments /\ run.captured \subseteq Noted
         /\ run.stage \in {"execute", "open", "write"} =>
              run.catalog = run.origin.catalog /\ \E n \in Noted : run.catalog = <<n>>
         /\ run.stage \in {"open", "write"} => run.reply # << >> /\ IsReply(run.reply[1])
         /\ run.stage = "write" => RunId(Backend, Model, run.prompt) \in DOMAIN records
<1>1. /\ run.backend \in 1..Len(Backends) /\ Len(Backends) \in Nat \ {0} /\ Len(Models) \in Nat \ {0}
      /\ DOMAIN Backends = 1..Len(Backends)
  BY OnlineAssumption DEF RunInOrder
<1>2. Backend \in ToSet(Backends)
  BY <1>1 DEF Backend, ToSet
<1>3. QED
  BY <1>1, <1>2 DEF RunInOrder

(* Every step keeps the campaign run in its order.                         *)
LEMMA RunStepInOrder == OnlineInv /\ [Next]_vars => RunInOrder'
<1> SUFFICES ASSUME OnlineInv, [Next]_vars PROVE RunInOrder'
  OBVIOUS
<1>0. RunInOrder /\ served \in Catalogues /\ prompt \in Prompts /\ environment \in Environments
  BY DEF OnlineInv
<1>14. Len(Backends) \in Nat \ {0} /\ Len(Models) \in Nat \ {0}
  BY OnlineAssumption
<1>1. UNCHANGED <<run, records>> => RunInOrder'
  BY LeftAlone
<1>2. run' = NoRun => RunInOrder'
  BY DEF RunInOrder
<1>3. ASSUME StartRun PROVE RunInOrder'
  <2>1. run' = [stage |-> "discover", backend |-> 1, model |-> 1, prompt |-> prompt,
             environment |-> environment, cache |-> << >>, catalog |-> << >>, captured |-> {},
             reply |-> << >>,
             origin |-> [prompt |-> prompt, environment |-> environment, catalog |-> << >>]]
    BY <1>3 DEF StartRun
  <2>2. QED
    BY <1>0, <1>14, <2>1 DEF RunInOrder
<1>4. ASSUME NEW reached \in BOOLEAN, Discover(reached) PROVE RunInOrder'
  <2> DEFINE D == IF reached THEN Offered(Backend, served) ELSE {}
             n == BuildCatalogSnapshot(Backend, D)
             cache == IF reached THEN <<BuildSnapshot(served)>> ELSE << >>
  <2>1. /\ run.stage = "discover" /\ run # NoRun
        /\ run' = [run EXCEPT !.stage = "execute", !.catalog = <<n>>, !.captured = @ \cup {n},
                              !.origin.catalog = <<n>>, !.cache = cache]
    BY <1>4 DEF Discover, NoRun
  <2>2. n \in Noted
    <3>1. Backend \in ToSet(Backends)
      BY <1>0, <2>1, Running
    <3>2. CASE reached
      BY <1>0, <3>1, <3>2 DEF Noted
    <3>3. CASE ~reached
      BY <3>1, <3>3 DEF Noted
    <3>4. QED
      BY <3>2, <3>3
  <2> HIDE DEF n, cache
  <2>0. run.origin = [prompt |-> run.prompt, environment |-> run.environment, catalog |-> run.origin.catalog]
    BY <1>0, <2>1, Running
  <2>3. /\ run'.stage = "execute" /\ run'.catalog = <<n>> /\ run'.captured = run.captured \cup {n}
        /\ run'.backend = run.backend /\ run'.model = run.model /\ run'.prompt = run.prompt
        /\ run'.environment = run.environment /\ DOMAIN run' = DOMAIN run
        /\ run'.origin = [run.origin EXCEPT !.catalog = <<n>>]
    BY <1>0, <2>1, Running
  <2>5. run'.origin = [prompt |-> run'.prompt, environment |-> run'.environment, catalog |-> <<n>>]
    BY <2>0, <2>3
  <2>4. QED
    BY <1>0, <2>1, <2>2, <2>3, <2>5, Running DEF RunInOrder
<1>5. ASSUME NEW reply, IsReply(reply), Replied(reply) PROVE RunInOrder'
  <2>1. run.stage = "execute" /\ run # NoRun /\ run' = [run EXCEPT !.stage = "open", !.reply = <<reply>>]
    BY <1>5 DEF Replied, NoRun
  <2>2. /\ run'.stage = "open" /\ run'.catalog = run.catalog /\ run'.captured = run.captured
        /\ run'.reply = <<reply>> /\ run'.cache = run.cache
        /\ run'.backend = run.backend /\ run'.model = run.model /\ run'.prompt = run.prompt
        /\ run'.environment = run.environment /\ run'.origin = run.origin /\ DOMAIN run' = DOMAIN run
    BY <1>0, <2>1, Running
  <2>3. run'.reply # << >> /\ run'.reply[1] = reply
    BY <2>2
  <2>4. IsReply(reply)'
    BY <1>5, <2>2 DEF IsReply, Backend
  <2>5. QED
    BY <1>0, <2>1, <2>2, <2>3, <2>4, Running DEF RunInOrder
<1>6. Completes => RunInOrder'
  BY <1>5, RepliesTyped DEF Completes
<1>7. Fails => RunInOrder'
  BY <1>5, RepliesTyped DEF Fails
<1>8. ASSUME OpenRecord PROVE RunInOrder'
  <2>1. /\ run.stage = "open" /\ run # NoRun /\ run' = [run EXCEPT !.stage = "write"]
        /\ records' = Put(records, RunId(Backend, Model, run.prompt), Torn)
    BY <1>8 DEF OpenRecord, NoRun
  <2>2. /\ run'.stage = "write" /\ run'.catalog = run.catalog /\ run'.captured = run.captured
        /\ run'.reply = run.reply /\ run'.cache = run.cache
        /\ run'.backend = run.backend /\ run'.model = run.model /\ run'.prompt = run.prompt
        /\ run'.environment = run.environment /\ run'.origin = run.origin /\ DOMAIN run' = DOMAIN run
    BY <1>0, <2>1, Running
  <2>3. RunId(Backend, Model, run.prompt)' \in DOMAIN records'
    BY <2>1, <2>2 DEF Put, RunId, Backend, Model
  <2>4. \A reply : IsReply(reply) => IsReply(reply)'
    BY <2>2 DEF IsReply, Backend
  <2>5. QED
    BY <1>0, <2>1, <2>2, <2>3, <2>4, Running DEF RunInOrder
<1>9. ASSUME WriteRecord PROVE RunInOrder'
  <2>1. run.stage = "write" /\ run # NoRun /\ run' = NextRun
    BY <1>9 DEF WriteRecord, NoRun
  <2>2. CASE run.model < Len(Models)
    <3>1. run' = [run EXCEPT !.stage = "execute", !.model = @ + 1, !.reply = << >>]
      BY <2>1, <2>2 DEF NextRun
    <3>2. /\ run'.stage = "execute" /\ run'.catalog = run.catalog /\ run'.captured = run.captured
          /\ run'.backend = run.backend /\ run'.model = run.model + 1 /\ run'.prompt = run.prompt
          /\ run'.environment = run.environment /\ run'.origin = run.origin /\ DOMAIN run' = DOMAIN run
      BY <1>0, <2>1, <3>1, Running
    <3>3. run.model + 1 \in 1..Len(Models)
      BY <1>0, <2>1, <2>2, Running
    <3>4. QED
      BY <1>0, <2>1, <3>2, <3>3, Running DEF RunInOrder
  <2>3. CASE ~(run.model < Len(Models)) /\ run.backend < Len(Backends)
    <3>1. run' = [run EXCEPT !.stage = "discover", !.model = 1, !.backend = @ + 1, !.reply = << >>,
                   !.catalog = << >>, !.cache = << >>]
      BY <2>1, <2>3 DEF NextRun
    <3>2. /\ run'.stage = "discover" /\ run'.captured = run.captured
          /\ run'.backend = run.backend + 1 /\ run'.model = 1 /\ run'.prompt = run.prompt
          /\ run'.environment = run.environment /\ run'.origin = run.origin /\ DOMAIN run' = DOMAIN run
      BY <1>0, <2>1, <3>1, Running
    <3>3. run.backend + 1 \in 1..Len(Backends) /\ 1 \in 1..Len(Models)
      BY <1>0, <2>1, <2>3, Running
    <3>4. QED
      BY <1>0, <2>1, <3>2, <3>3, Running DEF RunInOrder
  <2>4. CASE ~(run.model < Len(Models)) /\ ~(run.backend < Len(Backends))
    <3>1. run' = [run EXCEPT !.stage = "catalogs"]
      BY <2>1, <2>4 DEF NextRun
    <3>2. /\ run'.stage = "catalogs" /\ run'.captured = run.captured
          /\ run'.backend = run.backend /\ run'.model = run.model /\ run'.prompt = run.prompt
          /\ run'.environment = run.environment /\ run'.origin = run.origin /\ DOMAIN run' = DOMAIN run
      BY <1>0, <2>1, <3>1, Running
    <3>3. QED
      BY <1>0, <2>1, <3>2, Running DEF RunInOrder
  <2>5. QED
    BY <2>2, <2>3, <2>4
<1>10. WriteCatalogs \/ RunCrashes => RunInOrder'
  BY <1>2 DEF WriteCatalogs, RunCrashes
<1>11. Change \/ DayPasses \/ SyncStep \/ SyncCrashes \/ RunModelsRecommend \/ Accept => RunInOrder'
  BY <1>1 DEF Change, DayPasses, SyncStep, OpenSnapshot, WriteSnapshot, WriteRaw, SyncCrashes,
              RunModelsRecommend, Accept, running
<1>12. RunReproduce \/ RunAudit => RunInOrder'
  BY <1>1 DEF RunReproduce, RunAudit, running
<1>13. UNCHANGED vars => RunInOrder'
  BY <1>1 DEF vars, running
<1>15. QED
  BY <1>3, <1>4, <1>6, <1>7, <1>8, <1>9, <1>10, <1>11, <1>12, <1>13 DEF Next, RunStep


(* Every step leaves records that are what their names say, with the       *)
(* answers that were given.                                                *)
LEMMA RecordStep == OnlineInv /\ [Next]_vars => RecordsFaithful' /\ GenerationKept'
<1> SUFFICES ASSUME OnlineInv, [Next]_vars PROVE RecordsFaithful' /\ GenerationKept'
  OBVIOUS
<1> DEFINE faithful(r, record) ==
             /\ record.text = (record.error = Unnamed)
             /\ record.manifest.prompt = r.prompt /\ record.manifest.backend = r.backend
             /\ record.manifest.prompt \in Prompts /\ record.manifest.environment \in Environments
             /\ record.origin = [prompt |-> record.manifest.prompt, environment |-> record.manifest.environment,
                                 catalog |-> record.origin.catalog]
             /\ record.manifest.target.lifecycle = "UNKNOWN" /\ record.manifest.target.provenance # "missing"
             /\ \E n \in Noted : record.manifest.catalog = n.id /\ record.origin.catalog = <<n>>
             /\ record.answered /\ (record.reached \/ r.backend = "vllm") => record.text
<1>0. /\ RunInOrder
      /\ \A r \in DOMAIN records : records[r].whole => faithful(r, records[r])
  BY DEF OnlineInv, RecordsFaithful, GenerationKept
<1>8. SUFFICES \A r \in DOMAIN records' : records'[r].whole => faithful(r, records'[r])
  BY DEF RecordsFaithful, GenerationKept
<1>1. ASSUME UNCHANGED records PROVE \A r \in DOMAIN records' : records'[r].whole => faithful(r, records'[r])
  BY <1>0, <1>1
<1>2. ASSUME OpenRecord PROVE \A r \in DOMAIN records' : records'[r].whole => faithful(r, records'[r])
  <2> DEFINE x == RunId(Backend, Model, run.prompt)
  <2>1. records' = Put(records, x, Torn)
    BY <1>2 DEF OpenRecord
  <2> HIDE DEF x
  <2>2. /\ DOMAIN records' = DOMAIN records \cup {x} /\ records'[x] = Torn
        /\ \A r \in DOMAIN records : r # x => records'[r] = records[r]
    BY <2>1 DEF Put
  <2>3. ~Torn.whole
    BY DEF Torn
  <2> HIDE DEF faithful
  <2>4. QED
    BY <1>0, <2>2, <2>3
<1>3. ASSUME WriteRecord PROVE \A r \in DOMAIN records' : records'[r].whole => faithful(r, records'[r])
  <2> DEFINE x == RunId(Backend, Model, run.prompt)
             reply == run.reply[1]
             record == [whole |-> TRUE, text |-> reply.text, error |-> reply.error,
                        cost |-> reply.cost, manifest |-> Manifest,
                        answered |-> reply.answered, reached |-> run.cache # << >>, origin |-> run.origin]
  <2>1. /\ run.stage = "write" /\ run # NoRun /\ records' = [records EXCEPT ![x] = record]
    BY <1>3 DEF WriteRecord, NoRun
  <2>2. /\ x \in DOMAIN records /\ IsReply(reply) /\ run.prompt \in Prompts /\ run.environment \in Environments
        /\ run.catalog = run.origin.catalog /\ \E n \in Noted : run.catalog = <<n>>
        /\ run.origin = [prompt |-> run.prompt, environment |-> run.environment, catalog |-> run.origin.catalog]
    BY <1>0, <2>1, Running
  <2>3. /\ Manifest.prompt = run.prompt /\ Manifest.backend = Backend
        /\ Manifest.environment = run.environment /\ Manifest.target.lifecycle = "UNKNOWN"
        /\ Manifest.catalog = run.catalog[1].id /\ Manifest.target.provenance # "missing"
    BY DEF Manifest, ClassifyProvenance
  <2>4. x.prompt = run.prompt /\ x.backend = Backend
    BY DEF RunId
  <2>5. /\ record.text = reply.text /\ record.error = reply.error /\ record.manifest = Manifest
        /\ record.answered = reply.answered /\ (record.reached <=> run.cache # << >>)
        /\ record.origin = run.origin
    OBVIOUS
  <2> HIDE DEF x, reply, record
  <2>6. faithful(x, record)
    <3>1. \E n \in Noted : Manifest.catalog = n.id /\ run.origin.catalog = <<n>>
      BY <2>2, <2>3
    <3>2. record.text = (record.error = Unnamed)
      BY <2>2, <2>5 DEF IsReply
    <3>3. record.answered /\ (record.reached \/ x.backend = "vllm") => record.text
      BY <2>2, <2>4, <2>5 DEF IsReply
    <3>4. QED
      BY <2>2, <2>3, <2>4, <2>5, <3>1, <3>2, <3>3
  <2> HIDE DEF faithful
  <2>7. /\ DOMAIN records' = DOMAIN records /\ records'[x] = record
        /\ \A r \in DOMAIN records : r # x => records'[r] = records[r]
    BY <2>1, <2>2
  <2>8. QED
    BY <1>0, <2>6, <2>7
<1> HIDE DEF faithful
<1>4. Change \/ DayPasses \/ SyncStep \/ SyncCrashes \/ RunModelsRecommend \/ Accept => UNCHANGED records
  <2>1. (Change => UNCHANGED records) /\ (DayPasses => UNCHANGED records)
    BY DEF Change, DayPasses, running
  <2>2. (OpenSnapshot => UNCHANGED records) /\ (WriteSnapshot => UNCHANGED records)
    BY DEF OpenSnapshot, WriteSnapshot, running
  <2>3. (WriteRaw => UNCHANGED records) /\ (SyncCrashes => UNCHANGED records)
    BY DEF WriteRaw, SyncCrashes, running
  <2>4. RunModelsRecommend => UNCHANGED records
    BY DEF RunModelsRecommend, running
  <2>5. Accept => UNCHANGED records
    BY DEF Accept, running
  <2>6. QED
    BY <2>1, <2>2, <2>3, <2>4, <2>5 DEF SyncStep
<1>5. StartRun \/ (\E reached \in BOOLEAN : Discover(reached)) \/ Completes \/ Fails \/ WriteCatalogs
        => UNCHANGED records
  BY DEF StartRun, Discover, Completes, Fails, Replied, WriteCatalogs
<1>6. RunCrashes \/ RunReproduce \/ RunAudit \/ UNCHANGED vars => UNCHANGED records
  BY DEF RunCrashes, RunReproduce, RunAudit, vars, running
<1>7. QED
  BY <1>1, <1>2, <1>3, <1>4, <1>5, <1>6 DEF Next, RunStep

(* `reproduce' and `audit' answer on grounds, and everything else takes    *)
(* their answer away.                                                      *)
LEMMA VerdictStep == OnlineInv /\ [Next]_vars => VerdictsGrounded'
<1> SUFFICES ASSUME OnlineInv, [Next]_vars PROVE VerdictsGrounded'
  OBVIOUS
<1>0. /\ RecordsFaithful /\ SnapshotsNamed /\ catalogs \subseteq Noted /\ environment \in Environments
  BY DEF OnlineInv
<1>1. Leave \/ UNCHANGED verdict => VerdictsGrounded'
  BY LeftAlone
<1>2. ASSUME RunReproduce PROVE VerdictsGrounded'
  <2>1. PICK r \in {q \in DOMAIN records : records[q].whole},
             catalog \in Optional(catalogs \cup WholeSnapshots), p \in Optional(Prompts),
             backend \in Optional(ToSet(Backends)) :
               LET origin == records[r].origin
                   given == [catalog |-> catalog, prompt |-> p, backend |-> backend,
                             environment |-> environment, today |-> today]
               IN  verdict' =
                     [kind |-> "reproduce", answer |-> CompareManifest(records[r].manifest, given),
                      changed |-> Changed(origin, given), exact |-> Exact(r, origin, given)]
    BY <1>2, Zenon DEF RunReproduce
  <2> DEFINE m == records[r].manifest
             origin == records[r].origin
             given == [catalog |-> catalog, prompt |-> p, backend |-> backend,
                       environment |-> environment, today |-> today]
  <2>2. /\ verdict'.kind = "reproduce" /\ verdict'.answer = CompareManifest(m, given)
        /\ verdict'.changed = Changed(origin, given)
    BY <2>1
  <2>3. /\ m.target.lifecycle = "UNKNOWN"
        /\ origin = [prompt |-> m.prompt, environment |-> m.environment, catalog |-> origin.catalog]
        /\ \E n \in Noted : m.catalog = n.id /\ origin.catalog = <<n>>
    BY <1>0, <2>1 DEF RecordsFaithful
  <2>4. PICK n \in Noted : m.catalog = n.id /\ origin.catalog = <<n>>
    BY <2>3
  <2>5. catalog = << >> \/ \E c : catalog = <<c>> /\ (c.id = n.id => c = n)
    <3>1. CASE catalog = << >>
      BY <3>1
    <3>2. CASE \E c \in catalogs \cup WholeSnapshots : catalog = <<c>>
      <4>1. PICK c \in catalogs \cup WholeSnapshots : catalog = <<c>>
        BY <3>2
      <4>2. c \in WholeSnapshots => c.id # n.id
        BY <1>0, SnapshotsAreNotNoted
      <4>3. c \in catalogs => c \in Noted
        BY <1>0
      <4>4. c.id = n.id => c = n
        BY <4>1, <4>2, <4>3, NotedByName
      <4>5. QED
        BY <4>1, <4>4
    <3>3. QED
      BY <3>1, <3>2 DEF Optional
  <2>6. p = << >> \/ \E q : p = <<q>>
    BY DEF Optional
  <2>7. given.catalog = catalog /\ given.prompt = p
    OBVIOUS
  <2> HIDE DEF m, origin, given
  <2>8. CompareManifest(m, given) = "NOT_REPRODUCIBLE" <=> Changed(origin, given)
    BY <2>3, <2>4, <2>5, <2>6, <2>7, ReproduceGrounded
  <2>9. QED
    BY <2>2, <2>8 DEF VerdictsGrounded
<1>3. ASSUME RunAudit PROVE VerdictsGrounded'
  <2>1. PICK r \in {q \in DOMAIN records : records[q].whole},
             p \in Optional([parts : Prompts, promptId : Prompts]) :
               verdict' = [kind |-> "audit", errors |-> AuditErrors(records[r].manifest, p),
                           changed |-> p # << >> /\ p[1].parts # records[r].origin.prompt]
    BY <1>3, Zenon DEF RunAudit
  <2> DEFINE m == records[r].manifest
             errors == AuditErrors(m, p)
  <2>2. /\ m.target.lifecycle = "UNKNOWN" /\ m.target.provenance # "missing"
        /\ records[r].origin.prompt = m.prompt
    <3>1. r \in DOMAIN records /\ records[r].whole
      BY <2>1
    <3>2. /\ m.target.lifecycle = "UNKNOWN" /\ m.target.provenance # "missing"
          /\ records[r].origin = [prompt |-> m.prompt, environment |-> m.environment,
                                  catalog |-> records[r].origin.catalog]
      BY <1>0, <3>1, Zenon DEF RecordsFaithful
    <3>3. QED
      BY <3>2
  <2> HIDE DEF m
  <2>3. errors # {} <=> p # << >> /\ p[1].parts # m.prompt
    BY <2>2 DEF AuditErrors
  <2> HIDE DEF errors
  <2>4. /\ verdict'.kind = "audit" /\ verdict'.errors = errors
        /\ verdict'.changed <=> (p # << >> /\ p[1].parts # m.prompt)
    BY <2>1, <2>2 DEF errors, m
  <2>5. QED
    BY <2>3, <2>4 DEF VerdictsGrounded
<1>4. Change \/ DayPasses \/ SyncStep \/ SyncCrashes \/ RunModelsRecommend \/ Accept => Leave
  <2>1. (Change => Leave) /\ (DayPasses => Leave)
    BY DEF Change, DayPasses
  <2>2. (OpenSnapshot => Leave) /\ (WriteSnapshot => Leave)
    BY DEF OpenSnapshot, WriteSnapshot
  <2>3. (WriteRaw => Leave) /\ (SyncCrashes => Leave)
    BY DEF WriteRaw, SyncCrashes
  <2>4. RunModelsRecommend => Leave
    BY DEF RunModelsRecommend
  <2>5. Accept => Leave
    BY DEF Accept
  <2>6. QED
    BY <2>1, <2>2, <2>3, <2>4, <2>5 DEF SyncStep
<1>5. RunStep \/ RunCrashes => Leave
  BY DEF RunStep, StartRun, Discover, Completes, Fails, Replied, OpenRecord, WriteRecord, WriteCatalogs,
         RunCrashes
<1>6. UNCHANGED vars => UNCHANGED verdict
  BY DEF vars
<1>7. QED
  BY <1>1, <1>2, <1>3, <1>4, <1>5, <1>6 DEF Next

(* A count below its bound may be raised by one. *)
LEMMA CountUp == ASSUME NEW n \in Nat, NEW c \in 0..n, c < n PROVE c + 1 \in 0..n
OBVIOUS

(* Every step keeps the other variables in their types.                    *)
LEMMA WorldStep ==
  OnlineInv /\ [Next]_vars =>
    (/\ served \in Catalogues /\ prompt \in Prompts /\ environment \in Environments
     /\ today \in 0..LastDay /\ writes \in 0..MaxSyncs /\ runs \in 0..MaxRuns
     /\ changes \in 0..MaxChanges /\ crashes \in 0..MaxCrashes
     /\ catalogs \subseteq Noted)'
<1> DEFINE typed ==
     /\ served \in Catalogues /\ prompt \in Prompts /\ environment \in Environments
     /\ today \in 0..LastDay /\ writes \in 0..MaxSyncs /\ runs \in 0..MaxRuns
     /\ changes \in 0..MaxChanges /\ crashes \in 0..MaxCrashes
     /\ catalogs \subseteq Noted
<1> SUFFICES ASSUME OnlineInv, [Next]_vars PROVE typed'
  OBVIOUS
<1> USE DEF world, planning, running
<1>r. RunInOrder
  BY DEF OnlineInv
<1>0. typed
  BY DEF OnlineInv
<1>b. LastDay \in Nat /\ MaxSyncs \in Nat /\ MaxRuns \in Nat /\ MaxChanges \in Nat /\ MaxCrashes \in Nat
  BY OnlineAssumption
<1>1. Change \/ DayPasses => typed'
  <2>1. ASSUME Change PROVE typed'
    <3>1. changes < MaxChanges /\ changes' = changes + 1
      BY <2>1 DEF Change
    <3>2. changes' \in 0..MaxChanges
      BY <1>b, <1>0, <3>1, CountUp
    <3>3. served' \in Catalogues /\ prompt' \in Prompts /\ environment' \in Environments
      BY <1>0, <2>1 DEF Change
    <3>4. UNCHANGED <<today, writes, runs, crashes, catalogs>>
      BY <2>1 DEF Change
    <3>5. QED
      BY <1>0, <3>2, <3>3, <3>4
  <2>2. ASSUME DayPasses PROVE typed'
    <3>1. today < LastDay /\ today' = today + 1
      BY <2>2 DEF DayPasses
    <3>2. today' \in 0..LastDay
      BY <1>b, <1>0, <3>1, CountUp
    <3>3. UNCHANGED <<served, prompt, environment, changes, writes, runs, crashes, catalogs>>
      BY <2>2 DEF DayPasses
    <3>4. QED
      BY <1>0, <3>2, <3>3
  <2> HIDE DEF typed
  <2>3. QED
    BY <2>1, <2>2
<1>2. SyncStep \/ SyncCrashes \/ RunModelsRecommend \/ Accept => typed'
  <2>1. ASSUME OpenSnapshot PROVE typed'
    <3>1. writes < MaxSyncs /\ writes' = writes + 1
      BY <2>1 DEF OpenSnapshot
    <3>2. writes' \in 0..MaxSyncs
      BY <1>b, <1>0, <3>1, CountUp
    <3>3. UNCHANGED <<served, prompt, environment, today, changes, runs, crashes, catalogs>>
      BY <2>1 DEF OpenSnapshot
    <3>4. QED
      BY <1>0, <3>2, <3>3
  <2>2. ASSUME SyncCrashes PROVE typed'
    <3>1. crashes < MaxCrashes /\ crashes' = crashes + 1
      BY <2>2 DEF SyncCrashes
    <3>2. crashes' \in 0..MaxCrashes
      BY <1>b, <1>0, <3>1, CountUp
    <3>3. UNCHANGED <<served, prompt, environment, today, changes, writes, runs, catalogs>>
      BY <2>2 DEF SyncCrashes
    <3>4. QED
      BY <1>0, <3>2, <3>3
  <2>3. ASSUME UNCHANGED <<served, prompt, environment, today, changes, writes, runs, crashes, catalogs>>
        PROVE  typed'
    BY <1>0, <2>3
  <2>4. WriteSnapshot \/ WriteRaw \/ RunModelsRecommend \/ Accept =>
          UNCHANGED <<served, prompt, environment, today, changes, writes, runs, crashes, catalogs>>
    BY DEF WriteSnapshot, WriteRaw, RunModelsRecommend, Accept
  <2> HIDE DEF typed
  <2>5. QED
    BY <2>1, <2>2, <2>3, <2>4 DEF SyncStep
<1>3. StartRun \/ (\E reached \in BOOLEAN : Discover(reached)) \/ Completes \/ Fails \/ OpenRecord \/ WriteRecord
        => typed'
  <2>1. ASSUME StartRun PROVE typed'
    <3>1. runs < MaxRuns /\ runs' = runs + 1
      BY <2>1 DEF StartRun
    <3>2. runs' \in 0..MaxRuns
      BY <1>b, <1>0, <3>1, CountUp
    <3>3. UNCHANGED <<served, prompt, environment, today, changes, writes, crashes, catalogs>>
      BY <2>1 DEF StartRun
    <3>4. QED
      BY <1>0, <3>2, <3>3
  <2>2. ASSUME UNCHANGED <<world, catalogs, writes, runs, crashes>> PROVE typed'
    BY <1>0, <2>2
  <2> HIDE DEF typed
  <2>3. \A reached \in BOOLEAN :
           Discover(reached) => UNCHANGED <<world, catalogs, writes, runs, crashes>>
    BY DEF Discover
  <2>4. Completes \/ Fails => UNCHANGED <<world, catalogs, writes, runs, crashes>>
    BY DEF Completes, Fails, Replied
  <2>5. OpenRecord \/ WriteRecord => UNCHANGED <<world, catalogs, writes, runs, crashes>>
    BY DEF OpenRecord, WriteRecord
  <2> HIDE DEF world
  <2>6. QED
    BY <2>1, <2>2, <2>3, <2>4, <2>5
<1>4. ASSUME WriteCatalogs PROVE typed'
  <2>1. run # NoRun
    BY <1>4 DEF WriteCatalogs, NoRun
  <2>2. QED
    BY <1>r, <1>0, <1>4, <2>1, Running DEF WriteCatalogs
<1>5. RunCrashes \/ RunReproduce \/ RunAudit \/ UNCHANGED vars => typed'
  <2>1. ASSUME RunCrashes PROVE typed'
    <3>1. crashes < MaxCrashes /\ crashes' = crashes + 1
      BY <2>1 DEF RunCrashes
    <3>2. crashes' \in 0..MaxCrashes
      BY <1>b, <1>0, <3>1, CountUp
    <3>3. UNCHANGED <<served, prompt, environment, today, changes, writes, runs, catalogs>>
      BY <2>1 DEF RunCrashes
    <3>4. QED
      BY <1>0, <3>2, <3>3
  <2>2. ASSUME UNCHANGED <<world, catalogs, writes, runs, crashes>> PROVE typed'
    BY <1>0, <2>2
  <2>3. RunReproduce \/ RunAudit \/ UNCHANGED vars => UNCHANGED <<world, catalogs, writes, runs, crashes>>
    BY DEF RunReproduce, RunAudit, vars
  <2> HIDE DEF typed
  <2>4. QED
    BY <2>1, <2>2, <2>3
<1> HIDE DEF typed
<1>6. QED
  BY <1>1, <1>2, <1>3, <1>4, <1>5 DEF Next, RunStep

(* In every state the variables have their types, snapshots are named      *)
(* after their models, the campaign run is in order, and the records are   *)
(* what their names say (models sync, campaign run, reproduce, audit).     *)
THEOREM OnlineInvariant == Spec => []OnlineInv
<1>1. OnlineInv /\ [Next]_vars => OnlineInv'
  BY SnapshotStep, RunStepInOrder, RecordStep, VerdictStep, WorldStep DEF OnlineInv
<1>2. QED
  BY OnlineInitial, <1>1, PTL DEF Spec

(* An answer a backend gave is in its record, unless the backend has       *)
(* prices and its catalogue could not be had (execute of the OpenRouter    *)
(* and vLLM clients, writeRunRecord).                                      *)
THEOREM AnswersAreKept == Spec => []GenerationKept
<1>1. OnlineInv => GenerationKept
  BY DEF OnlineInv
<1>2. QED
  BY <1>1, OnlineInvariant, PTL

(* `reproduce' calls a run not reproducible exactly when the catalogue or   *)
(* the prompt it is given is not what the run was made from or the schema  *)
(* has changed, and `audit' has an error exactly when the parts of the     *)
(* prompt snapshot it is given are not what the run was made from          *)
(* (compareManifest, auditManifest): what a manifest says of its run is    *)
(* true, whatever was edited, synchronized, crashed or run again since.    *)
THEOREM VerdictsOnGrounds == Spec => []VerdictsGrounded
<1>1. OnlineInv => VerdictsGrounded
  BY DEF OnlineInv
<1>2. QED
  BY <1>1, OnlineInvariant, PTL

(* What `models recommend' writes is about the newest snapshot, which is    *)
(* the one that was synchronized last, and drops none that it lists.        *)
LEMMA AdviceGiven ==
  ASSUME OnlineInv, RunModelsRecommend
  PROVE  /\ synced # << >> => advice'.snapshot = synced[1]
         /\ \A id \in advice'.additions : \E m \in advice'.snapshot[2] :
              m.id = id /\ m.expires = Absent /\ ~m.retiring
         /\ \A m \in advice'.snapshot[2] : m.id \notin advice'.removals
         /\ \/ advice'.snapshot[2] = {}
            \/ \E c \in Catalogues : advice'.snapshot[2] = {NormalizeModel(c[i]) : i \in DOMAIN c}
<1>1. /\ advice'.snapshot = LatestSnapshotPath /\ LatestSnapshotPath \in DOMAIN snaps
      /\ synced # << >> => LatestSnapshotPath = synced[1]
  <2>1. \A s \in DOMAIN snaps : snaps[s].at \in Nat /\ snaps[s].at <= writes
    BY OnlineAssumption DEF OnlineInv, SnapshotsNamed, SnapshotFile
  <2>2. \A i, j \in DOMAIN snaps : snaps[i].at = snaps[j].at => i = j
    BY DEF OnlineInv, SnapshotsNamed
  <2>3. LatestSnapshotPath \in DOMAIN snaps /\ \A s \in DOMAIN snaps : snaps[s].at <= snaps[LatestSnapshotPath].at
    <3> DEFINE since == {writes - snaps[s].at : s \in DOMAIN snaps}
    <3>1. writes \in Nat /\ DOMAIN snaps # {}
      BY DEF RunModelsRecommend, OnlineInv
    <3>2. since \in SUBSET Nat /\ since # {}
      BY <2>1, <3>1
    <3>3. Min(since) \in since /\ \A n \in since : Min(since) <= n
      BY <3>2, LeastIsOne
    <3> HIDE DEF since
    <3>4. PICK id \in DOMAIN snaps : Min(since) = writes - snaps[id].at
      BY <3>3 DEF since
    <3>5. \A s \in DOMAIN snaps : writes - snaps[id].at <= writes - snaps[s].at
      BY <3>3, <3>4 DEF since
    <3>6. \A s \in DOMAIN snaps : snaps[s].at <= snaps[id].at
      BY <2>1, <3>1, <3>5
    <3>7. QED
      BY <3>6 DEF LatestSnapshotPath
  <2>4. ASSUME synced # << >> PROVE LatestSnapshotPath = synced[1]
    <3>1. PICK id \in DOMAIN snaps : synced = <<id>> /\ snaps[id].at = writes
      BY <2>4 DEF OnlineInv, SnapshotsNamed, IsLatest
    <3>2. snaps[LatestSnapshotPath].at = snaps[id].at
      BY <2>1, <2>3, <3>1
    <3>3. QED
      BY <2>2, <2>3, <3>1, <3>2
  <2>5. advice'.snapshot = LatestSnapshotPath
    BY DEF RunModelsRecommend, GenerateRecommendation
  <2>6. QED
    BY <2>3, <2>4, <2>5
<1>2. QED
  <2> DEFINE id == LatestSnapshotPath
             models == snaps[id].models
             snapshot == [id |-> id, models |-> models]
             proposed == UNION {ProposeCandidates(snapshot, rule, today) : rule \in Rules}
  <2>1. /\ synced # << >> => advice'.snapshot = synced[1]
        /\ advice'.snapshot = id /\ id \in DOMAIN snaps
    BY <1>1
  <2>2. id[2] = {models[i] : i \in DOMAIN models}
    <3>1. ComputeSnapshotId(models) = id
      BY <2>1 DEF RunModelsRecommend, OnlineInv, SnapshotsNamed
    <3>2. QED
      BY <3>1 DEF ComputeSnapshotId, ToSet
  <2>3. proposed \subseteq id[2]
    <3>1. \A rule : ProposeCandidates(snapshot, rule, today) \subseteq {models[i] : i \in DOMAIN models}
      BY DEF ProposeCandidates, FilterModels
    <3>2. QED
      BY <2>2, <3>1
  <2>4. PICK read \in SUBSET cohort : advice' = GenerateRecommendation(snapshot, read, Rules, today)
    BY DEF RunModelsRecommend
  <2>5. advice'.removals = read \ {models[i].id : i \in DOMAIN models}
    BY <2>4 DEF GenerateRecommendation
  <2>6. advice'.additions = {m.id : m \in {n \in proposed : /\ n.id \notin read
                                                           /\ ClassifyLifecycle(<<n>>, today) = "ACTIVE"}}
    BY <2>4 DEF GenerateRecommendation, ToCandidate
  <2>7. \A n : ClassifyLifecycle(<<n>>, today) = "ACTIVE" => n.expires = Absent /\ ~n.retiring
    BY DEF ClassifyLifecycle
  <2> HIDE DEF proposed, models, id
  <2>9. ASSUME NEW a \in advice'.additions
        PROVE  \E m \in advice'.snapshot[2] : m.id = a /\ m.expires = Absent /\ ~m.retiring
    <3>1. PICK m \in proposed : m.id = a /\ ClassifyLifecycle(<<m>>, today) = "ACTIVE"
      BY <2>6
    <3>2. m \in advice'.snapshot[2]
      BY <2>1, <2>3
    <3>3. QED
      BY <2>7, <3>1, <3>2
  <2>10. \A m \in advice'.snapshot[2] : m.id \notin advice'.removals
    BY <2>1, <2>2, <2>5
  <2>11. id[2] = {} \/ \E c \in Catalogues : id[2] = {NormalizeModel(c[i]) : i \in DOMAIN c}
    <3>1. models = << >> \/ \E c \in Catalogues : models = BuildSnapshot(c).models
      BY <2>1 DEF OnlineInv, SnapshotsNamed, SnapshotFile, models
    <3>2. CASE models = << >>
      BY <2>2, <3>2
    <3>3. CASE \E c \in Catalogues : models = BuildSnapshot(c).models
      <4>1. PICK c \in Catalogues : models = [i \in DOMAIN c |-> NormalizeModel(c[i])]
        BY <3>3 DEF BuildSnapshot
      <4>2. id[2] = {NormalizeModel(c[i]) : i \in DOMAIN c}
        BY <2>2, <4>1
      <4>3. QED
        BY <4>2
    <3>4. QED
      BY <3>1, <3>2, <3>3
  <2>12. QED
    BY <2>1, <2>9, <2>10, <2>11

(* A recommendation that is made after a synchronization ended, and before  *)
(* the next one begins, is about the catalogue that was synchronized, even  *)
(* if the same catalogue, or others, had been stored before; it proposes    *)
(* only models of that catalogue that are to stay, and removes none that is *)
(* served by that id (latestSnapshotPath and generateRecommendation).  What is left of AdviceHolds is the case of an  *)
(* id that comes back as the slug of another model.                         *)
THEOREM AdviceRestsOnCatalogue ==
  Spec => [][RunModelsRecommend =>
               /\ synced # << >> => advice'.snapshot = synced[1]
               /\ \A id \in advice'.additions : \E m \in advice'.snapshot[2] :
                    m.id = id /\ m.expires = Absent /\ ~m.retiring
               /\ \A m \in advice'.snapshot[2] : m.id \notin advice'.removals]_vars
<1>1. OnlineInv /\ [Next]_vars
      => [RunModelsRecommend =>
            /\ synced # << >> => advice'.snapshot = synced[1]
            /\ \A id \in advice'.additions : \E m \in advice'.snapshot[2] :
                 m.id = id /\ m.expires = Absent /\ ~m.retiring
            /\ \A m \in advice'.snapshot[2] : m.id \notin advice'.removals]_vars
  BY AdviceGiven
<1>2. QED
  BY <1>1, OnlineInvariant, PTL DEF Spec

(* The names of models do not get mixed up: a catalogue lists an id once,   *)
(* and whatever calls a model by what is an id, there or in another         *)
(* catalogue, lists a model with that id.                                   *)
NamesAreOwn ==
  /\ \A c \in Catalogues : \A i, j \in DOMAIN c : c[i].id = c[j].id => i = j
  /\ \A c, d \in Catalogues : \A i \in DOMAIN c, j \in DOMAIN d :
       c[i].canonicalSlug = d[j].id => \E k \in DOMAIN c : c[k].id = d[j].id

Known == UNION {{c[i].id : i \in DOMAIN c} : c \in Catalogues}

(* What is proposed, and what was taken over from a proposal, are ids of    *)
(* models.                                                                  *)
AdviceKnown == advice.additions \subseteq Known /\ accepted \subseteq Known

LEMMA KnownStep == OnlineInv /\ AdviceKnown /\ [Next]_vars => AdviceKnown'
<1> SUFFICES ASSUME OnlineInv, AdviceKnown, [Next]_vars PROVE AdviceKnown'
  OBVIOUS
<1>1. CASE RunModelsRecommend
  <2>1. accepted' = accepted
    BY <1>1 DEF RunModelsRecommend
  <2>2. ASSUME NEW a \in advice'.additions PROVE a \in Known
    <3>1. PICK m \in advice'.snapshot[2] : m.id = a
      BY <1>1, <2>2, AdviceGiven
    <3>2. PICK c \in Catalogues : advice'.snapshot[2] = {NormalizeModel(c[i]) : i \in DOMAIN c}
      BY <1>1, <3>1, AdviceGiven
    <3>3. PICK i \in DOMAIN c : m = NormalizeModel(c[i])
      BY <3>1, <3>2
    <3>4. c[i].id = a
      BY <3>1, <3>3 DEF NormalizeModel
    <3>5. QED
      BY <3>4 DEF Known
  <2>3. QED
    BY <2>1, <2>2 DEF AdviceKnown
<1>2. CASE Accept
  BY <1>2 DEF Accept, AdviceKnown
<1>3. CASE ~RunModelsRecommend /\ ~Accept
  <2>1. UNCHANGED <<advice, accepted>>
    <3>1. Change \/ DayPasses \/ UNCHANGED vars => UNCHANGED <<advice, accepted>>
      BY DEF Change, DayPasses, vars, planning
    <3>2. SyncStep \/ SyncCrashes => UNCHANGED <<advice, accepted>>
      BY DEF SyncStep, OpenSnapshot, WriteSnapshot, WriteRaw, SyncCrashes
    <3>3. RunStep \/ RunCrashes => UNCHANGED planning
      <4>1. StartRun => UNCHANGED planning
        BY DEF StartRun
      <4>2. \A reached \in BOOLEAN : Discover(reached) => UNCHANGED planning
        BY DEF Discover
      <4>3. Completes \/ Fails => UNCHANGED planning
        <5>1. \A reply : Replied(reply) => UNCHANGED planning
          BY Zenon DEF Replied
        <5>2. QED
          BY <5>1, Zenon DEF Completes, Fails
      <4>4. OpenRecord => UNCHANGED planning
        BY DEF OpenRecord
      <4>5. WriteRecord => UNCHANGED planning
        BY DEF WriteRecord
      <4>6. WriteCatalogs \/ RunCrashes => UNCHANGED planning
        BY DEF WriteCatalogs, RunCrashes
      <4>7. QED
        BY <4>1, <4>2, <4>3, <4>4, <4>5, <4>6, Zenon DEF RunStep
    <3>4. RunReproduce \/ RunAudit => UNCHANGED planning
      BY Zenon DEF RunReproduce, RunAudit
    <3>5. UNCHANGED planning => UNCHANGED <<advice, accepted>>
      BY DEF planning
    <3>6. QED
      BY <1>3, <3>1, <3>2, <3>3, <3>4, <3>5 DEF Next
  <2>2. QED
    BY <2>1 DEF AdviceKnown
<1>4. QED
  BY <1>1, <1>2, <1>3

(* Where names do not get mixed up, advice is about the catalogue that was  *)
(* synchronized last and never against itself: it proposes no model that is *)
(* to go, and does not propose to remove what was added on earlier advice   *)
(* while the catalogue lists it (generateRecommendation).                   *)
THEOREM AdviceIsConsistent ==
  ASSUME NamesAreOwn
  PROVE  Spec => AdviceHolds
<1>1. Init => AdviceKnown
  BY DEF Init, AdviceKnown, NoAdvice
<1>2. ASSUME OnlineInv, AdviceKnown, RunModelsRecommend
      PROVE  LET listed == advice'.snapshot[2]
             IN  /\ synced # << >> => advice'.snapshot = synced[1]
                 /\ \A m \in listed : m.id \in advice'.additions => m.expires = Absent /\ ~m.retiring
                 /\ \A m \in listed : accepted \cap {m.id, m.slug} \cap advice'.removals = {}
  <2> DEFINE listed == advice'.snapshot[2]
  <2>1. listed = {} \/ \E c \in Catalogues : listed = {NormalizeModel(c[i]) : i \in DOMAIN c}
    BY <1>2, AdviceGiven
  <2>2. synced # << >> => advice'.snapshot = synced[1]
    BY <1>2, AdviceGiven
  <2>3. ASSUME NEW m \in listed, m.id \in advice'.additions
        PROVE  m.expires = Absent /\ ~m.retiring
    <3>1. PICK n \in listed : n.id = m.id /\ n.expires = Absent /\ ~n.retiring
      BY <1>2, <2>3, AdviceGiven
    <3>2. PICK c \in Catalogues : listed = {NormalizeModel(c[i]) : i \in DOMAIN c}
      BY <2>1, <2>3
    <3>3. PICK i \in DOMAIN c, j \in DOMAIN c : m = NormalizeModel(c[i]) /\ n = NormalizeModel(c[j])
      BY <3>1, <3>2
    <3>4. c[i].id = c[j].id
      BY <3>1, <3>3 DEF NormalizeModel
    <3>5. i = j
      BY <3>4 DEF NamesAreOwn
    <3>6. QED
      BY <3>1, <3>3, <3>5
  <2>4. ASSUME NEW m \in listed, NEW a \in accepted, a \in {m.id, m.slug}
        PROVE  a \notin advice'.removals
    <3>1. m.id \notin advice'.removals
      BY <1>2, AdviceGiven
    <3>2. SUFFICES ASSUME a # m.id PROVE a \notin advice'.removals
      BY <3>1
    <3>3. PICK c \in Catalogues : listed = {NormalizeModel(c[i]) : i \in DOMAIN c}
      BY <2>1, <2>4
    <3>4. PICK i \in DOMAIN c : m = NormalizeModel(c[i])
      BY <3>3
    <3>5. c[i].canonicalSlug = a
      BY <2>4, <3>2, <3>4 DEF NormalizeModel
    <3>6. PICK d \in Catalogues : \E j \in DOMAIN d : d[j].id = a
      BY <1>2 DEF AdviceKnown, Known
    <3>7. PICK k \in DOMAIN c : c[k].id = a
      BY <3>5, <3>6 DEF NamesAreOwn
    <3>8. NormalizeModel(c[k]) \in listed /\ NormalizeModel(c[k]).id = a
      BY <3>3, <3>7 DEF NormalizeModel
    <3>9. QED
      BY <1>2, <3>8, AdviceGiven
  <2>5. QED
    BY <2>2, <2>3, <2>4
<1>3. AdviceKnown /\ OnlineInv /\ [Next]_vars
      => [RunModelsRecommend =>
            LET listed == advice'.snapshot[2]
            IN  /\ synced # << >> => advice'.snapshot = synced[1]
                /\ \A m \in listed : m.id \in advice'.additions => m.expires = Absent /\ ~m.retiring
                /\ \A m \in listed : accepted \cap {m.id, m.slug} \cap advice'.removals = {}]_vars
  BY <1>2
<1>4. Spec => []AdviceKnown
  BY <1>1, KnownStep, OnlineInvariant, PTL DEF Spec
<1>5. QED
  BY <1>3, <1>4, OnlineInvariant, PTL DEF Spec, AdviceHolds
=============================================================================
