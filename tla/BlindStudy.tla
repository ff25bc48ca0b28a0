----------------------------- MODULE BlindStudy -----------------------------
(***************************************************************************)
(* Blind human review (src/blind, src/commands/blind.ts and human-review.ts*)
(* ): `blind create` turns the records of an experiment into a public      *)
(* packet and a private mapping, reviewers score what they read, `human-   *)
(* review import` merges their files, and `unblind` and `report` join the  *)
(* reviews with the mapping.                                               *)
(*                                                                         *)
(* The module follows the directory of one review set.  It may be          *)
(* generated again over an older one, with another seed or selection or    *)
(* with records that came later; files that are not written again stay.    *)
(* A command may die between any two writes.                               *)
(***************************************************************************)
EXTENDS Integers, SequencesExt

CONSTANTS
  Records,         \* the run records, in the order of their ids
  Late,            \* those that are not there from the beginning
  RawId,           \* RawId[seed][record][salt]: the id a salt gives
  MaxSalt,         \* bound: the last salt that is tried
  PairId,          \* PairId[seed][<<r, s>>]: the id of a pair, without a salt
  Flip,            \* Flip[seed][n]: are the sides of the n-th pair swapped?
  Configs,         \* the configurations `blind create` is given
  InfraValidation, \* the experiment is an infrastructure validation
  Reviewers,
  Raws,            \* kinds of review a reviewer may hand in, see Review
  Preferences,     \* what a review of a pair may prefer
  MaxBatch,        \* bound: reviews in one imported file
  MaxCommands,     \* bound: what the operator does
  MaxCrashes       \* bound: how often a command dies

Ids == DOMAIN Records
Seeds == DOMAIN RawId
Salts == 0..MaxSalt

(* The salts suffice: whatever ids the others have, one is left.           *)
ASSUME BlindAssumption ==
  /\ Records \in Seq(Range(Records)) /\ Late \subseteq Ids
  /\ \A r \in Ids : Records[r].phrases \subseteq {"response", "artifact"}
  /\ \A config \in Configs : /\ config.seed \in Seeds
                               /\ config.mode \in {"all", "explicit", "stratified", "random"}
  /\ DOMAIN PairId = Seeds /\ \A seed \in Seeds : Flip[seed] \in Seq(BOOLEAN)
  /\ MaxSalt \in Nat /\ Preferences \subseteq {"a", "b", "equivalent"}
  /\ \A seed \in Seeds, r \in Ids : \A others \in SUBSET (Ids \ {r}) :
       \A salt \in [others -> Salts] :
         \E k \in Salts : \A s \in others : RawId[seed][r][k] # RawId[seed][s][salt[s]]
  /\ {MaxBatch, MaxCommands, MaxCrashes} \subseteq Nat

VARIABLES
  present,     \* the records on disk
  set,         \* public/review-set.json
  itemFiles,   \* public/items/*.md
  pairs,       \* public/pairwise/pairwise-set.json
  mapping,     \* private/mapping.json
  reviews,     \* reviews/imported.json
  pairReviews, \* reviews/pairwise*.json
  output,      \* the last unblinded-reviews.json or report
  job,         \* the command that runs
  seen,        \* ghost: the items that have been there to read, see Batches
  commands, crashes

bounds == <<commands, crashes>>
public == <<set, itemFiles, pairs>>
vars == <<present, public, mapping, reviews, pairReviews, output, job, seen, bounds>>

Benchmarks == {Records[r].benchmark : r \in Ids}
Targets == {Records[r].target : r \in Ids}

(* Only records with a response, and those the filter lets through. *)
FilterRecords(config, records) ==
  IF InfraValidation /\ ~config.includeInfraValidation THEN {}
  ELSE {r \in records : /\ Records[r].response
                        /\ config.includePrototypes \/ ~Records[r].prototype
                        /\ Records[r].target \in config.targets
                        /\ Records[r].benchmark \in config.benchmarks}

GroupOf(r, records) ==
  {s \in records : Records[s].benchmark = Records[r].benchmark
                   /\ Records[s].target = Records[r].target}

Groups(records) == {GroupOf(r, records) : r \in records}

(* A group is in the order of repetitions, ties in the order of ids. *)
Before(r, s) == \/ Records[r].rep < Records[s].rep
                \/ Records[r].rep = Records[s].rep /\ r < s

StratifiedPick(group, count) ==
  LET n == Cardinality(group)
      place(r) == Cardinality({s \in group : Before(s, r)})
  IN  IF count >= n THEN group
      ELSE {r \in group : \E i \in 0..(count - 1) : place(r) = (i * n) \div count}

(* The selections a mode allows; a random one takes any `count` of a group.*)
SelectRecords(config, records) ==
  CASE config.mode = "all" -> {records}
    [] config.mode = "explicit" -> {records \cap config.wanted}
    [] config.mode = "stratified" ->
         {UNION {StratifiedPick(g, config.count) : g \in Groups(records)}}
    [] config.mode = "random" ->
         {S \in SUBSET records : \A g \in Groups(records) :
            Cardinality(S \cap g) = IF config.count < Cardinality(g) THEN config.count
                                    ELSE Cardinality(g)}

(* Mutated form: an id that is taken already is given again. *)
AssignBlindIdsUnsalted(records, seed) == [r \in records |-> RawId[seed][r][0]]

(* In the order of ids, each record takes the first salt whose id is free. *)
Salted(records, seed, salt) ==
  \A r \in records :
    LET used == {RawId[seed][s][salt[s]] : s \in {t \in records : t < r}}
    IN  /\ RawId[seed][r][salt[r]] \notin used
        /\ \A k \in Salts : k < salt[r] => RawId[seed][r][k] \in used

AssignBlindIds(records, seed) ==
  LET salt == CHOOSE f \in [records -> Salts] : Salted(records, seed, f)
  IN  [r \in records |-> RawId[seed][r][salt[r]]]

(* Does a scan of the item's fields find an identity? *)
Hit(r) == Records[r].phrases # {} \/ Records[r].term

(* What the policy makes of an item: whether it is left out, and where a   *)
(* phrase that names its model remains.  Only the response is rewritten.   *)
ApplyRedaction(r, policy) ==
  [excluded |-> policy = "exclude" /\ Hit(r),
   identity |-> Records[r].phrases \ (IF policy = "redact" THEN {"response"} ELSE {})]

(* The earliest repetition of each target, for one benchmark. *)
Contenders(benchmark, records) ==
  {r \in records : /\ Records[r].benchmark = benchmark
                   /\ \A s \in GroupOf(r, records) : ~Before(s, r)}

(* Two contenders of a benchmark, the one of the lesser id first.  Ids     *)
(* begin with the benchmark and the target.                                *)
Matches(records) ==
  UNION {{p \in Contenders(b, records) \X Contenders(b, records) : p[1] < p[2]} : b \in Benchmarks}

Precedes(p, q) == p[1] < q[1] \/ (p[1] = q[1] /\ p[2] < q[2])

(* The sides are drawn pair by pair from a generator the seed starts: they *)
(* depend on the place of the pair among all pairs.                        *)
Flipped(p, drawn) ==
  Flip[drawn.seed][1 + Cardinality({q \in drawn.pairs : Precedes(q, p)})]

(* The pairwise packet is made from the records, not from the items.       *)
(* ghost: drawn is the seed and all the pairs the sides were drawn for.    *)
Match(p, drawn) ==
  [blindId |-> PairId[drawn.seed][p], pair |-> p, drawn |-> drawn,
   a |-> IF Flipped(p, drawn) THEN p[2] ELSE p[1],
   b |-> IF Flipped(p, drawn) THEN p[1] ELSE p[2],
   identity |-> (Records[p[1]].phrases \cup Records[p[2]].phrases) \cap {"response"}]

BuildPairwise(drawn) == {Match(p, drawn) : p \in drawn.pairs}

None == [kind |-> "none", stamp |-> 0, items |-> {}, matches |-> {}]

Torn == [None EXCEPT !.kind = "torn"]

(* Mutated form: an item with a recorded redaction gets no mapping entry. *)
MappingEntriesClean(kept, ids) == {[blindId |-> ids[r], record |-> r] : r \in {s \in kept : ~Hit(s)}}

MappingEntries(kept, ids) == {[blindId |-> ids[r], record |-> r] : r \in kept}

(* What one `blind create` writes: the items, the pairs and the mapping.   *)
(* ghost: stamp says which one.                                            *)
GenerateBlindReviewSet(records, config, stamp) ==
  LET ids == AssignBlindIds(records, config.seed)
      kept == {r \in records : ~ApplyRedaction(r, config.policy).excluded}
      items == {[blindId |-> ids[r], record |-> r, stamp |-> stamp,
                 identity |-> ApplyRedaction(r, config.policy).identity] : r \in kept}
      drawn == [seed |-> config.seed, pairs |-> IF config.pairwise THEN Matches(records) ELSE {}]
  IN  [items |-> items, matches |-> BuildPairwise(drawn), pairwise |-> config.pairwise,
       mapped |-> MappingEntries(kept, ids), stamp |-> stamp]

NoJob == [stage |-> "none", out |-> [stamp |-> 0], todo |-> {}]

Init ==
  /\ present = Ids \ Late
  /\ set = None /\ itemFiles = {} /\ pairs = None
  /\ mapping = [kind |-> "none", stamp |-> 0, entries |-> {}, matches |-> {}]
  /\ reviews = [kind |-> "ok", list |-> << >>] /\ pairReviews = {}
  /\ output = [kind |-> "none"]
  /\ job = NoJob
  /\ seen = {}
  /\ commands = 0 /\ crashes = 0

(* The operator's next command: one at a time. *)
Command ==
  /\ job.stage = "none" /\ commands < MaxCommands
  /\ commands' = commands + 1

(* The experiment leaves another record. *)
RecordArrives ==
  /\ \E r \in Late \ present : present' = present \cup {r}
  /\ UNCHANGED <<public, mapping, reviews, pairReviews, output, job, seen, bounds>>

(* `blind create` has loaded, filtered and selected the records and built  *)
(* the packet; review-set.json is opened first.                            *)
RunBlindCreate ==
  /\ Command
  /\ \E config \in Configs : \E selected \in SelectRecords(config, FilterRecords(config, present)) :
       /\ selected # {}
       /\ LET out == GenerateBlindReviewSet(selected, config, commands')
          IN  job' = [stage |-> "set", out |-> out, todo |-> out.items]
  /\ set' = Torn
  /\ UNCHANGED <<present, itemFiles, pairs, mapping, reviews, pairReviews, output, seen, crashes>>

WriteSet ==
  /\ job.stage = "set"
  /\ set' = [kind |-> "ok", stamp |-> job.out.stamp, items |-> job.out.items, matches |-> {}]
  /\ job' = [job EXCEPT !.stage = "items"]
  /\ UNCHANGED <<present, itemFiles, pairs, mapping, reviews, pairReviews, output, seen, bounds>>

(* Mutated form: a file of the same name is not replaced. *)
WriteItemBeside ==
  /\ job.stage = "items" /\ job.todo # {}
  /\ LET item == CHOOSE i \in job.todo : TRUE
     IN  /\ itemFiles' = itemFiles \cup {item}
         /\ seen' = seen \cup {item}
         /\ job' = [job EXCEPT !.todo = @ \ {item}]
  /\ UNCHANGED <<present, set, pairs, mapping, reviews, pairReviews, output, bounds>>

(* The items are written one by one, over files of the same name. *)
WriteItem ==
  /\ job.stage = "items" /\ job.todo # {}
  /\ LET item == CHOOSE i \in job.todo : TRUE
     IN  /\ itemFiles' = {f \in itemFiles : f.blindId # item.blindId} \cup {item}
         /\ seen' = seen \cup {item}
         /\ job' = [job EXCEPT !.todo = @ \ {item}]
  /\ UNCHANGED <<present, set, pairs, mapping, reviews, pairReviews, output, bounds>>

(* A packet of an older generation stays when this one has none. *)
OpenPairs ==
  /\ job.stage = "items" /\ job.todo = {} /\ job.out.pairwise
  /\ pairs' = Torn
  /\ job' = [job EXCEPT !.stage = "pairs"]
  /\ UNCHANGED <<present, set, itemFiles, mapping, reviews, pairReviews, output, seen, bounds>>

WritePairs ==
  /\ job.stage = "pairs"
  /\ pairs' = [kind |-> "ok", stamp |-> job.out.stamp, items |-> {}, matches |-> job.out.matches]
  /\ job' = [job EXCEPT !.stage = "private"]
  /\ UNCHANGED <<present, set, itemFiles, mapping, reviews, pairReviews, output, seen, bounds>>

(* Mutated form: the items are not waited for. *)
OpenMappingEarly ==
  /\ job.stage \in {"items", "private"}
  /\ mapping' = [kind |-> "torn", stamp |-> 0, entries |-> {}, matches |-> {}]
  /\ job' = [job EXCEPT !.stage = "mapping", !.todo = {}]
  /\ UNCHANGED <<present, public, reviews, pairReviews, output, seen, bounds>>

(* The old mapping is beside the new packet until then. *)
OpenMapping ==
  /\ \/ job.stage = "items" /\ job.todo = {} /\ ~job.out.pairwise
     \/ job.stage = "private"
  /\ mapping' = [kind |-> "torn", stamp |-> 0, entries |-> {}, matches |-> {}]
  /\ job' = [job EXCEPT !.stage = "mapping"]
  /\ UNCHANGED <<present, public, reviews, pairReviews, output, seen, bounds>>

WriteMapping ==
  /\ job.stage = "mapping"
  /\ mapping' = [kind |-> "ok", stamp |-> job.out.stamp, entries |-> job.out.mapped,
                 matches |-> job.out.matches]
  /\ job' = NoJob
  /\ UNCHANGED <<present, public, reviews, pairReviews, output, seen, bounds>>

(* The public archive, and what a reviewer can be given: all of public/. *)
PublicArchive == itemFiles \cup pairs.matches

(* ghost: about and stamp are the record the reviewer read, and in which   *)
(* generation.                                                             *)
Review(reviewer, item, raw) ==
  [reviewer |-> reviewer, blindId |-> item.blindId, verdict |-> raw.verdict,
   blocking |-> raw.blocking, sound |-> raw.sound, about |-> item.record, stamp |-> item.stamp]

Key(review) == <<review.reviewer, review.blindId>>

Keys(list) == {Key(list[i]) : i \in DOMAIN list}

(* Validation: the id exists, the scores are sound, and a blocking finding *)
(* does not go with a qualification.                                       *)
ValidateHumanReviewRecord(review) ==
  /\ \E item \in set.items : item.blindId = review.blindId
  /\ review.sound
  /\ ~(review.blocking /\ review.verdict = "qualified")

(* The elements of a list at some of its positions, in order. *)
At(list, positions) ==
  [n \in 1..Cardinality(positions) |->
     list[CHOOSE i \in positions : Cardinality({j \in positions : j <= i}) = n]]

(* Mutated form: duplicates are looked for among the existing ones only. *)
ImportHumanReviewsOfExisting(batch, existing, update) ==
  At(batch, {i \in DOMAIN batch : /\ ValidateHumanReviewRecord(batch[i])
                                  /\ update \/ Key(batch[i]) \notin Keys(existing)})

(* The reviews of a batch that are accepted: the valid ones, and without   *)
(* an update of each key the first, unless there is one already.           *)
ImportHumanReviews(batch, existing, update) ==
  LET valid == {i \in DOMAIN batch : ValidateHumanReviewRecord(batch[i])}
      seenKey(i) == \/ Key(batch[i]) \in Keys(existing)
                    \/ \E j \in valid : j < i /\ Key(batch[j]) = Key(batch[i])
  IN  At(batch, {i \in valid : update \/ ~seenKey(i)})

(* Mutated form: the earlier review wins. *)
MergeReviewsKeeping(existing, incoming) ==
  existing \o At(incoming, {i \in DOMAIN incoming : Key(incoming[i]) \notin Keys(existing)})

(* The last review of each key, where the first one was.                   *)
MergeReviews(existing, incoming) ==
  LET all == existing \o incoming
      first == {i \in DOMAIN all : \A j \in DOMAIN all : j < i => Key(all[j]) # Key(all[i])}
      last(r) == all[Max({i \in DOMAIN all : Key(all[i]) = Key(r)})]
  IN  [n \in DOMAIN At(all, first) |-> last(At(all, first)[n])]

(* The batches of reviews of items that are, or once were, in the packet: *)
(* a reviewer may hand in a review much later than the item was read.      *)
Batches ==
  SeqOf({Review(w, item, raw) : w \in Reviewers, item \in seen, raw \in Raws}, MaxBatch)

(* `human-review import` reads the set and the reviews, and opens          *)
(* imported.json to write all of them again; what it held is gone by then  *)
(* (a torn file keeps it as a ghost only).                                 *)
RunHumanReviewImport ==
  /\ Command
  /\ set.kind = "ok" /\ reviews.kind = "ok"
  /\ \E batch \in Batches, update \in BOOLEAN :
       LET accepted == ImportHumanReviews(batch, reviews.list, update)
           merged == IF update THEN MergeReviews(reviews.list, accepted)
                     ELSE reviews.list \o accepted
       IN  /\ accepted # << >>
           /\ job' = [stage |-> "save", todo |-> {},
                      out |-> [stamp |-> 0, list |-> merged, batch |-> accepted]]
  /\ reviews' = [reviews EXCEPT !.kind = "torn"]
  /\ UNCHANGED <<present, public, mapping, pairReviews, output, seen, crashes>>

SaveReviews ==
  /\ job.stage = "save"
  /\ reviews' = [kind |-> "ok", list |-> job.out.list]
  /\ job' = NoJob
  /\ UNCHANGED <<present, public, mapping, pairReviews, output, seen, bounds>>

(* A pairwise review is put into reviews/ by hand: no command imports it. *)
PlacePairReview ==
  /\ Command
  /\ \E m \in pairs.matches, choice \in Preferences :
       pairReviews' = pairReviews \cup {[match |-> m, choice |-> choice]}
  /\ UNCHANGED <<present, public, mapping, reviews, output, job, seen, crashes>>

(* The reviews whose blind id the mapping knows, with the record it says;  *)
(* the mapping is keyed by blind id, so each id has one record.            *)
UnblindReviews(list) ==
  {joined \in [review : ToSet(list), record : Ids] :
     [blindId |-> joined.review.blindId, record |-> joined.record] \in mapping.entries}

Passes(r) == Records[r].checks = "pass"
Fails(r) == Records[r].checks = "fail"

(* Human recommendations against the blocking checks of the same record. *)
CompareDeterministic(unblinded) ==
  LET compared == {u \in unblinded : Records[u.record].checks # "none"}
      positive == {u \in compared : u.review.verdict = "qualified"}
  IN  [compared |-> Cardinality(compared),
       agree |-> Cardinality({u \in compared : (u \in positive) = Passes(u.record)}),
       falseQualification |-> Cardinality({u \in positive : Fails(u.record)}),
       falseRejection |-> Cardinality({u \in compared \ positive : Passes(u.record)})]

(* The mapping's last entry of a pair id: a later one replaces an earlier. *)
Entry(id) ==
  CHOOSE m \in mapping.matches :
    /\ m.blindId = id
    /\ \A n \in mapping.matches : n.blindId = id => n.pair = m.pair \/ Precedes(n.pair, m.pair)

(* Mutated form: the sides are taken from the order of the records. *)
PairwiseWinsInOrder(target) ==
  {v \in pairReviews :
     /\ \E m \in mapping.matches : m.blindId = v.match.blindId
     /\ \/ v.choice = "a" /\ Records[Entry(v.match.blindId).pair[1]].target = target
        \/ v.choice = "b" /\ Records[Entry(v.match.blindId).pair[2]].target = target}

(* The pairwise reviews a target has won, through the mapping of sides. *)
PairwiseWins(target) ==
  {v \in pairReviews :
     /\ \E m \in mapping.matches : m.blindId = v.match.blindId
     /\ \/ v.choice = "a" /\ Records[Entry(v.match.blindId).a].target = target
        \/ v.choice = "b" /\ Records[Entry(v.match.blindId).b].target = target}

(* The counts of a report; the second half only when it is unblinded. *)
Analyze(list, unblind) ==
  LET of(id) == {i \in DOMAIN list : list[i].blindId = id}
      reviewed == {list[i].blindId : i \in DOMAIN list}
      compared == {id \in reviewed : Cardinality(of(id)) >= 2}
      unblinded == UnblindReviews(list)
  IN  [kind |-> IF unblind THEN "unblinded" ELSE "blind",
       reviews |-> Len(list),
       missing |-> Cardinality(set.items) - Cardinality(reviewed),
       comparable |-> Cardinality(compared),
       disagreeing |-> Cardinality({id \in compared : \E i, j \in of(id) :
                                      list[i].verdict # list[j].verdict}),
       repeated |-> Cardinality({k \in Keys(list) :
                       Cardinality({i \in DOMAIN list : Key(list[i]) = k}) >= 2}),
       byTarget |-> [t \in Targets |->
         IF unblind THEN Cardinality({u \in unblinded : Records[u.record].target = t}) ELSE 0],
       vsDeterministic |-> CompareDeterministic(IF unblind THEN unblinded ELSE {}),
       wins |-> [t \in Targets |-> IF unblind THEN PairwiseWins(t) ELSE {}]]

RunHumanReviewReport ==
  /\ Command
  /\ set.kind = "ok" /\ reviews.kind = "ok"
  /\ \E unblind \in BOOLEAN :
       /\ unblind => mapping.kind = "ok"
       /\ output' = Analyze(reviews.list, unblind)
  /\ UNCHANGED <<present, public, mapping, reviews, pairReviews, job, seen, crashes>>

RunHumanReviewUnblind ==
  /\ Command
  /\ mapping.kind = "ok" /\ reviews.kind = "ok"
  /\ output' = [kind |-> "joined", joined |-> UnblindReviews(reviews.list)]
  /\ UNCHANGED <<present, public, mapping, reviews, pairReviews, job, seen, crashes>>

(* The command dies: what it had not written yet is lost. *)
Crash ==
  /\ job.stage # "none" /\ crashes < MaxCrashes
  /\ crashes' = crashes + 1
  /\ job' = NoJob
  /\ UNCHANGED <<present, public, mapping, reviews, pairReviews, output, seen, commands>>

Next ==
  \/ RecordArrives
  \/ RunBlindCreate \/ WriteSet \/ WriteItem \/ OpenPairs \/ WritePairs \/ OpenMapping \/ WriteMapping
  \/ PlacePairReview
  \/ RunHumanReviewImport \/ SaveReviews
  \/ RunHumanReviewReport \/ RunHumanReviewUnblind
  \/ Crash

Spec == Init /\ [][Next]_vars
-----------------------------------------------------------------------------
BlindIds(seed, r) == {RawId[seed][r][k] : k \in Salts}

(* What `blind create` may select, whichever records have come by then.    *)
Selections(config) ==
  UNION {SelectRecords(config, FilterRecords(config, (Ids \ Late) \cup came)) : came \in SUBSET Late}

Name(item) == [blindId |-> item.blindId, record |-> item.record]

(* The ids that are ever given to records.                                 *)
Given ==
  UNION {UNION {{[blindId |-> AssignBlindIds(selected, config.seed)[r], record |-> r] : r \in selected} :
                  selected \in Selections(config)} : config \in Configs}

Item ==
  {item \in [blindId : UNION {BlindIds(seed, r) : seed \in Seeds, r \in Ids},
             record : Ids, stamp : 0..MaxCommands, identity : SUBSET {"response", "artifact"}] :
     Name(item) \in Given}

Submission == {Review(w, item, raw) : w \in Reviewers, item \in Item, raw \in Raws}

TypeOK ==
  /\ Ids \ Late \subseteq present /\ present \subseteq Ids
  /\ set.kind \in {"none", "torn", "ok"} /\ set.items \subseteq Item /\ set.stamp \in 0..commands
  /\ itemFiles \subseteq Item /\ seen \subseteq Item
  /\ \A f, g \in itemFiles : f.blindId = g.blindId => f = g
  /\ mapping.kind \in {"none", "torn", "ok"} /\ mapping.stamp \in 0..commands
  /\ mapping.kind = "ok" => mapping.stamp > 0
  /\ mapping.entries \subseteq Given
  /\ reviews \in [kind : {"torn", "ok"}, list : Seq(Submission)]
  /\ \A v \in pairReviews : v.choice \in Preferences
  /\ job = [stage |-> job.stage, out |-> job.out, todo |-> job.todo]
  /\ job.stage \in {"none", "set", "items", "pairs", "private", "mapping", "save"}
  /\ commands \in 0..MaxCommands /\ crashes \in 0..MaxCrashes

(* The mapping is written last: once it is there and of the generation of  *)
(* review-set.json, every item of the set has its file, which shows the    *)
(* record the mapping names for it, and a crash cannot have left less.     *)
PacketComplete ==
  mapping.kind = "ok" /\ mapping.stamp = set.stamp =>
    /\ set.items \subseteq itemFiles
    /\ \A item \in set.items : [blindId |-> item.blindId, record |-> item.record] \in mapping.entries

(* No review an import has accepted is left unmatched by unblinding, as    *)
(* long as set and mapping are of one generation and the set still has     *)
(* the item.                                                               *)
AcceptedAreJoined ==
  mapping.kind = "ok" /\ mapping.stamp = set.stamp =>
    \A i \in DOMAIN reviews.list :
      (\E item \in set.items : item.blindId = reviews.list[i].blindId)
        => \E u \in UnblindReviews(reviews.list) : u.review = reviews.list[i]

(* A review is joined with the record its reviewer read, whenever that was *)
(* and whatever has been generated since: blind ids are "stable for the    *)
(* same (seed, run record)", and no two seeds share one.                   *)
AttributedToShown ==
  mapping.kind = "ok" => \A u \in UnblindReviews(reviews.list) : u.record = u.review.about

OnePerKey(list) == \A i, j \in DOMAIN list : Key(list[i]) = Key(list[j]) => i = j

(* A list has every review of two others under its key once, the last one  *)
(* of the batch before an existing one.                                    *)
Supersedes(list, existing, batch) ==
  /\ Keys(list) = Keys(existing) \cup Keys(batch)
  /\ OnePerKey(list)
  /\ \A i \in DOMAIN list :
       \/ list[i] \in ToSet(existing) /\ Key(list[i]) \notin Keys(batch)
       \/ \E j \in DOMAIN batch :
            list[i] = batch[j] /\ \A k \in DOMAIN batch : j < k => Key(batch[k]) # Key(batch[j])

(* An import that ends loses no review and repeats none: what was there is *)
(* still there, or is superseded by the last accepted review of its key,   *)
(* and everything accepted is there, once under its key: "Duplicate        *)
(* (reviewer, blindId) records are rejected unless allowUpdate is set, in  *)
(* which case a later record supersedes an earlier one".                   *)
ReviewsKept ==
  [][reviews.kind = "torn" /\ reviews'.kind = "ok"
       => Supersedes(reviews'.list, reviews.list, job.out.batch)]_vars

(* Were the sides of the mapping's pairs drawn as those of a pair that was *)
(* reviewed, and is the id of that pair its own?                           *)
Attributable(m) ==
  /\ \E n \in mapping.matches : n.drawn = m.drawn
  /\ \A n \in mapping.matches : n.blindId = m.blindId => n.pair = m.pair

(* Whatever has been generated, reviewed and interrupted, a new packet     *)
(* beside an old mapping included, a pairwise review counts for the target *)
(* whose answer the reviewer preferred, and for no other.  Two things are  *)
(* excepted, which the code does not prevent: a pair whose id another one  *)
(* has, for pair ids take no salt, and sides that were drawn for another   *)
(* list of pairs, for the ids stay the same then and the sides may not.    *)
PairwiseAttributed ==
  [][output'.kind = "unblinded" /\ output' # output =>
       \A v \in pairReviews, t \in Targets :
         Attributable(v.match) /\ v.choice # "equivalent" =>
           (v \in output'.wins[t]
              <=> Records[IF v.choice = "a" THEN v.match.a ELSE v.match.b].target = t)]_vars

(* The figures of a report fit together: no reviewer has reviewed an item  *)
(* twice, each review is counted for one target or is unmatched, each      *)
(* comparison with the checks is an agreement, a false qualification, a    *)
(* false rejection or one the checks leave open, and, unless the set has   *)
(* lost items that were reviewed, the missing items are those without a    *)
(* review.                                                                 *)
ReportAdds ==
  [][output' # output /\ output'.kind \in {"blind", "unblinded"} =>
       LET joined == UnblindReviews(reviews.list)
           det == output'.vsDeterministic
           open == {u \in joined : /\ Records[u.record].checks = "undecided"
                                   /\ u.review.verdict = "qualified"}
           ids == {item.blindId : item \in set.items}
           reviewed == {reviews.list[i].blindId : i \in DOMAIN reviews.list}
       IN  /\ output'.repeated = 0
           /\ reviewed \subseteq ids => output'.missing = Cardinality(ids \ reviewed)
           /\ output'.kind = "unblinded" =>
                /\ Cardinality(joined) = MapThenSumSet(LAMBDA t : output'.byTarget[t], Targets)
                /\ det.compared = det.agree + det.falseQualification + det.falseRejection
                                  + Cardinality(open)]_vars

(* Nothing the reviewers are given names a model when the policy is to     *)
(* leave out what does: even the pairwise packet is "still public -        *)
(* contains no identity".                                                  *)
PacketHidesIdentity == \A f \in PublicArchive : f.identity = {}
-----------------------------------------------------------------------------
(* Records whose ids may collide are selected together, and no two records *)
(* have an id in common under different seeds: what AttributedToShown      *)
(* needs to be true, and the code leaves to the length of the hash.        *)
CollidingTogether ==
  \A d, e \in Seeds, r, s \in Ids :
    r # s /\ BlindIds(d, r) \cap BlindIds(e, s) # {} =>
      /\ d = e
      /\ \A config \in Configs : config.seed = d =>
           \A selected \in Selections(config) : r \in selected <=> s \in selected

(* The inductive invariant behind the safety properties, part by part.     *)

Creating == job.stage \in {"set", "items", "pairs", "private", "mapping"}

(* The pairs that are in the packet, or that a review is about.            *)
Paired == pairs.matches \cup {v.match : v \in pairReviews}

OnePerId(things) == \A x, y \in things : x.blindId = y.blindId => x = y

(* What `blind create` has to write fits together, and what is on disk     *)
(* before it has come that far is older.                                   *)
PacketOfCommand ==
  Creating =>
    /\ job.out.stamp = commands /\ commands > 0
    /\ job.out.items \subseteq Item /\ OnePerId(job.out.items)
    /\ job.out.mapped = {Name(item) : item \in job.out.items}
    /\ job.todo \subseteq job.out.items
    /\ mapping.kind = "ok" => mapping.stamp < commands
    /\ IF job.stage = "set" THEN set = Torn /\ job.todo = job.out.items
       ELSE /\ set.kind = "ok" /\ set.stamp = commands /\ set.items = job.out.items
            /\ job.out.items \ job.todo \subseteq itemFiles
    /\ job.stage \in {"pairs", "private", "mapping"} => job.todo = {}

(* All the pairs of one draw, or none.                                     *)
OneDraw(matches) == \A m \in matches : matches = BuildPairwise(m.drawn)

(* Whatever has been left on disk, a pair is as it was drawn, and the      *)
(* mapping has all the pairs of its draw.                                  *)
PairsMapped ==
  /\ \A m \in Paired : m \in BuildPairwise(m.drawn)
  /\ OneDraw(mapping.matches)
  /\ Creating => OneDraw(job.out.matches)

(* No reviewer has two reviews of an item, and an import is about to write *)
(* what it should.                                                         *)
ReviewsInOrder ==
  /\ OnePerKey(reviews.list)
  /\ job.stage = "save" => /\ job.out.list \in Seq(Submission)
                           /\ Supersedes(job.out.list, reviews.list, job.out.batch)

BlindInv ==
  /\ TypeOK
  /\ PacketComplete
  /\ PacketOfCommand
  /\ PairsMapped
  /\ ReviewsInOrder
=============================================================================
