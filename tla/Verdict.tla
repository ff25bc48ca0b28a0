------------------------------ MODULE Verdict ------------------------------
(***************************************************************************)
(* From records to verdicts (src/evaluation/judge*.ts, src/experiment/     *)
(* verdict.ts and stats.ts, src/matrix): what a judge adds to a record,    *)
(* what a repetition shows, what the repetitions of a benchmark add up to, *)
(* and the capability matrix.                                              *)
(*                                                                         *)
(* A rate or a score is a fraction <<numerator, denominator>>; where the   *)
(* code has null the module has Null.  A record is                         *)
(*   [target, benchmark, error, output, evals, judges]                     *)
(* where error is "none" or "error", a failure of the backend.             *)
(***************************************************************************)
EXTENDS Checks

CONSTANTS
  Benchmark,     \* Benchmark[b]: [checks, fixtures, domain, prototype, qualification]
  ScaleMin, ScaleMax  \* the scale of the rubrics

Benchmarks == DOMAIN Benchmark

IsShare(f) == f \in Nat \X (Nat \ {0}) /\ f[1] <= f[2]

(* Rates in a qualification are between zero and one, by its schema.       *)
ASSUME VerdictAssumption ==
  \A b \in Benchmarks :
    /\ IsShare(Benchmark[b].qualification.deterministicPassRate)
    /\ IsShare(Benchmark[b].qualification.maximumCatastrophicFailureRate)
    /\ IsShare(Benchmark[b].qualification.maximumEvaluatorDisagreement)

----------------------------------------------------------------------------
(* Fractions and statistics.                                               *)

Null == <<0, 0>>
Zero == <<0, 1>>

Less(f, g) == f[1] * g[2] < g[1] * f[2]
Add(f, g) == <<f[1] * g[2] + g[1] * f[2], f[2] * g[2]>>
Minus(f, g) == <<f[1] * g[2] - g[1] * f[2], f[2] * g[2]>>

Rate(n, d) == IF d = 0 THEN Zero ELSE <<n, d>>

MeanOf(samples) ==
  IF DOMAIN samples = {} THEN Null
  ELSE LET sum == FoldFunction(Add, Zero, samples)
       IN  <<sum[1], sum[2] * Cardinality(DOMAIN samples)>>

Largest(samples) == CHOOSE f \in Range(samples) : \A g \in Range(samples) : ~Less(f, g)
Smallest(samples) == CHOOSE f \in Range(samples) : \A g \in Range(samples) : ~Less(g, f)

(* The share of the repetitions with two judges or more whose scores are   *)
(* more than the threshold apart.                                          *)
DisagreementRate(scores, threshold) ==
  LET comparable == {i \in DOMAIN scores : Len(scores[i]) >= 2}
      disagreeing == {i \in comparable :
                        Less(threshold, Minus(Largest(scores[i]), Smallest(scores[i])))}
  IN  Rate(Cardinality(disagreeing), Cardinality(comparable))

----------------------------------------------------------------------------
(* Judges.                                                                 *)

LooksLikeRefusal(output) == output.text # "answer"

(* A judge's answer is "failed", "unparsable" or a sequence of scores      *)
(* [score, weight]; parsed answers may call the output a refusal.          *)
WeightedOverall(scores) ==
  LET points == FoldLeft(LAMBDA sum, d : sum + d.score * d.weight, 0, scores)
      weight == FoldLeft(LAMBDA sum, d : sum + d.weight, 0, scores)
  IN  IF weight = 0 THEN <<ScaleMin, 1>> ELSE <<points, weight>>

(* Only a parsed answer is format valid; any other scores the minimum.     *)
JudgeEvaluate(answer, output) ==
  LET parsed == answer.kind = "scores"
      overall == IF parsed THEN WeightedOverall(answer.scores) ELSE <<ScaleMin, 1>>
      above == Minus(overall, <<ScaleMin, 1>>)
      span == IF ScaleMax - ScaleMin < 1 THEN 1 ELSE ScaleMax - ScaleMin
  IN  [overall |-> overall,
       normalizedScore |-> <<above[1], above[2] * span>>,
       refusal |-> LooksLikeRefusal(output) \/ (parsed /\ answer.refusal),
       formatValid |-> parsed]

----------------------------------------------------------------------------
(* What a repetition shows.                                                *)

HasResponse(record) == record.error = "none"

DeriveRepetitionSignal(record) ==
  LET det == SummarizeDeterministic(record.evals)
      judges == record.judges
  IN  [backendError |-> ~HasResponse(record),
       emptyOutput |-> HasResponse(record) /\ record.output.text = "blank",
       blockingFail |-> det.hasBlockingFailure,
       blockingNotAvailable |-> det.hasBlockingNotAvailable,
       deterministicError |-> det.hasError,
       refusal |-> \/ \E i \in DOMAIN judges : judges[i].refusal
                   \/ HasResponse(record) /\ LooksLikeRefusal(record.output),
       formatValid |-> \A i \in DOMAIN judges : judges[i].formatValid,
       overall |-> [i \in DOMAIN judges |-> judges[i].overall],
       normalized |-> [i \in DOMAIN judges |-> judges[i].normalizedScore]]

IsInfrastructure(s) == s.backendError \/ s.deterministicError

IsCatastrophic(s) == s.emptyOutput \/ s.blockingFail \/ s.refusal

----------------------------------------------------------------------------
(* What the repetitions of a benchmark add up to.                          *)

Violated(a, q) ==
  \/ Less(a.deterministicPassRate, q.deterministicPassRate)
  \/ Less(q.maximumCatastrophicFailureRate, a.catastrophicFailureRate)
  \/ Less(q.maximumEvaluatorDisagreement, a.evaluatorDisagreementRate)
  \/ Less(Zero, q.minimumDomainScore) /\ Less(a.domainScore, q.minimumDomainScore)

(* Mutated form: failures of the environment count against the model.      *)
AggregateAll(signals, q, threshold) ==
  LET passed == {i \in DOMAIN signals : ~IsInfrastructure(signals[i]) /\ ~IsCatastrophic(signals[i])}
  IN  [status |-> IF Less(Rate(Cardinality(passed), Cardinality(DOMAIN signals)), q.deterministicPassRate)
                  THEN "disqualified" ELSE "qualified"]

(* The signals are those of the records of a benchmark, by record.         *)
Aggregate(signals, q, threshold) ==
  LET decidable == {i \in DOMAIN signals : ~IsInfrastructure(signals[i])}
      n == Cardinality(decidable)
      failed == {i \in decidable : signals[i].blockingFail}
      missing == {i \in decidable : signals[i].blockingNotAvailable}
      catastrophic == {i \in decidable : IsCatastrophic(signals[i])}
      judged == {i \in decidable : signals[i].overall # << >>}
      a == [deterministicPassRate |-> Rate(Cardinality(decidable \ (failed \cup missing)), n),
            passRate |-> Rate(Cardinality(decidable \ (catastrophic \cup missing)), n),
            catastrophicFailureRate |-> Rate(Cardinality(catastrophic), n),
            infrastructureFailureRate |->
              Rate(Cardinality(DOMAIN signals \ decidable), Cardinality(DOMAIN signals)),
            evaluatorDisagreementRate |->
              DisagreementRate([i \in decidable |-> signals[i].normalized], threshold),
            domainScore |-> MeanOf([i \in judged |-> MeanOf(signals[i].overall)])]
      settled == /\ decidable # {} /\ (missing = {} \/ failed # {})
                 /\ Less(Zero, q.minimumDomainScore) => judged # {}
      status == CASE settled /\ ~Violated(a, q) -> "qualified"
                  [] settled /\ Violated(a, q) -> "disqualified"
                  [] DOMAIN signals # {} /\ decidable = {} -> "infrastructure_error"
                  [] OTHER -> "inconclusive"
  IN  [rates |-> a, status |-> status]

----------------------------------------------------------------------------
(* The capability matrix over records, whatever they are named.            *)

RecordsOf(records, target, b) ==
  Restrict(records, {i \in DOMAIN records : records[i].target = target /\ records[i].benchmark = b})

BenchmarkAggregates(records, target, exclude, threshold) ==
  {[benchmark |-> b, domain |-> Benchmark[b].domain,
    excluded |-> exclude \/ Benchmark[b].prototype,
    result |-> LET reps == RecordsOf(records, target, b)
               IN  Aggregate([i \in DOMAIN reps |-> DeriveRepetitionSignal(reps[i])],
                             Benchmark[b].qualification, threshold)] :
   b \in {c \in Benchmarks : DOMAIN RecordsOf(records, target, c) # {}}}

Ranked(aggregates) == {a \in aggregates : ~a.excluded}

(* One verdict for the benchmarks of a domain that are not excluded.       *)
DomainStatus(aggregates) ==
  LET statuses == {a.result.status : a \in Ranked(aggregates)}
  IN  CASE statuses = {} -> "inconclusive"
        [] statuses = {"qualified"} -> "qualified"
        [] "disqualified" \in statuses -> "disqualified"
        [] "infrastructure_error" \in statuses /\ "disqualified" \notin statuses -> "infrastructure_error"
        [] OTHER -> "inconclusive"

(* The records with a blocking structural check, and those where all pass. *)
HasStructuralBlocking(r) == \E i \in DOMAIN r.evals : r.evals[i].structural /\ r.evals[i].blocking

StructuralBlockingAllPass(r) ==
  HasStructuralBlocking(r) /\ \A i \in DOMAIN r.evals :
    r.evals[i].structural /\ r.evals[i].blocking => r.evals[i].status = "pass"

WellFormatted(r) ==
  /\ DeriveRepetitionSignal(r).formatValid
  /\ HasStructuralBlocking(r) => StructuralBlockingAllPass(r)

(* The share of P among the records it applies to, Null where there is none.*)
ConditionalRate(records, applies(_), P(_)) ==
  LET applicable == {i \in DOMAIN records : applies(records[i])}
  IN  IF applicable = {} THEN Null
      ELSE <<Cardinality({i \in applicable : P(records[i])}), Cardinality(applicable)>>

RefusalRate(records) ==
  ConditionalRate(records, HasResponse, LAMBDA r : DeriveRepetitionSignal(r).refusal)

InstructionAdherence(records) ==
  ConditionalRate(records, HasStructuralBlocking, StructuralBlockingAllPass)

FormattingValidity(records) ==
  ConditionalRate(records,
                  LAMBDA r : HasResponse(r) /\ (r.judges # << >> \/ HasStructuralBlocking(r)),
                  WellFormatted)

(* The raw dimensions are taken over all records, excluded or not.         *)
BuildEntry(records, target, exclude, threshold) ==
  LET aggregates == BenchmarkAggregates(records, target, exclude, threshold)
      cell(d) == DomainStatus({a \in aggregates : a.domain = d})
      own == Restrict(records, {i \in DOMAIN records : records[i].target = target})
  IN  [target |-> target,
       refusalRate |-> RefusalRate(own),
       instructionAdherence |-> InstructionAdherence(own),
       formattingValidity |-> FormattingValidity(own),
       excludedFromRankings |-> exclude \/ \A a \in aggregates : a.excluded,
       statuses |-> {<<d, cell(d)>> : d \in {a.domain : a \in aggregates}},
       qualifiedDomains |-> {d \in {a.domain : a \in aggregates} : cell(d) = "qualified"}]

BuildCapabilityMatrix(records, exclude, threshold) ==
  {BuildEntry(records, target, exclude, threshold) :
   target \in {records[i].target : i \in DOMAIN records}}
=============================================================================
