--------------------------- MODULE VerdictProofs ---------------------------
(***************************************************************************)
(* Proofs about Verdict: what the verdict on a benchmark, and on a domain, *)
(* says of the records it was made from, however many there are and        *)
(* whatever their scores.                                                  *)
(***************************************************************************)
EXTENDS Verdict, FiniteSetTheorems, TLAPS

(* A part of a finite set is all of it if it has as many elements, and     *)
(* has none only if it is empty.                                           *)
LEMMA Parts ==
  ASSUME NEW S, IsFiniteSet(S), NEW T \in SUBSET S
  PROVE  /\ Cardinality(S) \in Nat /\ Cardinality(T) \in Nat /\ IsFiniteSet(T)
         /\ Cardinality(T) <= Cardinality(S) /\ (Cardinality(T) = Cardinality(S) => T = S)
         /\ (Cardinality(T) = 0 <=> T = {})
<1>1. /\ IsFiniteSet(T) /\ Cardinality(T) <= Cardinality(S)
      /\ Cardinality(S) = Cardinality(T) => S = T
  BY FS_Subset
<1>2. Cardinality(S) \in Nat /\ Cardinality(T) \in Nat
  BY <1>1, FS_CardinalityType
<1>3. Cardinality(T) = 0 <=> T = {}
  BY <1>1, FS_EmptySet
<1>4. QED
  BY <1>1, <1>2, <1>3

(* The repetitions that say something of the model, and what Aggregate     *)
(* counts among them.                                                      *)
Decidable(signals) == {i \in DOMAIN signals : ~IsInfrastructure(signals[i])}
FailedOf(signals) == {i \in Decidable(signals) : signals[i].blockingFail}
MissingOf(signals) == {i \in Decidable(signals) : signals[i].blockingNotAvailable}
CatastrophicOf(signals) == {i \in Decidable(signals) : IsCatastrophic(signals[i])}
JudgedOf(signals) == {i \in Decidable(signals) : signals[i].overall # << >>}

(* There is something to decide. *)
Settled(signals, q) ==
  /\ Decidable(signals) # {} /\ (MissingOf(signals) = {} \/ FailedOf(signals) # {})
  /\ Less(Zero, q.minimumDomainScore) => JudgedOf(signals) # {}

(* The rates that a has of the signals.                                    *)
IsRated(a, signals, threshold) ==
  LET n == Cardinality(Decidable(signals))
  IN  /\ a.deterministicPassRate =
           Rate(Cardinality(Decidable(signals) \ (FailedOf(signals) \cup MissingOf(signals))), n)
      /\ a.catastrophicFailureRate = Rate(Cardinality(CatastrophicOf(signals)), n)
      /\ a.evaluatorDisagreementRate =
           DisagreementRate([i \in Decidable(signals) |-> signals[i].normalized], threshold)

(* The status is qualified or disqualified only where there is something   *)
(* to decide: by whether the rates violate a threshold.                    *)
LEMMA StatusDecided ==
  ASSUME NEW signals, NEW q, NEW threshold,
         Aggregate(signals, q, threshold).status \in {"qualified", "disqualified"}
  PROVE  /\ Settled(signals, q)
         /\ \E a : /\ IsRated(a, signals, threshold)
                   /\ (Aggregate(signals, q, threshold).status = "disqualified") <=> Violated(a, q)
<1> DEFINE decidable == Decidable(signals)
           n == Cardinality(decidable)
           failed == FailedOf(signals)
           missing == MissingOf(signals)
           catastrophic == CatastrophicOf(signals)
           judged == JudgedOf(signals)
           a == [deterministicPassRate |-> Rate(Cardinality(decidable \ (failed \cup missing)), n),
                 passRate |-> Rate(Cardinality(decidable \ (catastrophic \cup missing)), n),
                 catastrophicFailureRate |-> Rate(Cardinality(catastrophic), n),
                 infrastructureFailureRate |->
                   Rate(Cardinality(DOMAIN signals \ decidable), Cardinality(DOMAIN signals)),
                 evaluatorDisagreementRate |->
                   DisagreementRate([i \in decidable |-> signals[i].normalized], threshold),
                 domainScore |-> MeanOf([i \in judged |-> MeanOf(signals[i].overall)])]
           settled == /\ decidable # {} /\ (missing = {} \/ failed # {})
                      /\ Less(Zero, q.minimumDomainScore) => judged # {}
           status == CASE settled /\ ~Violated(a, q) -> "qualified"
                       [] settled /\ Violated(a, q) -> "disqualified"
                       [] DOMAIN signals # {} /\ decidable = {} -> "infrastructure_error"
                       [] OTHER -> "inconclusive"
<1>1. Aggregate(signals, q, threshold).status = status
  BY DEF Aggregate, Decidable, FailedOf, MissingOf, CatastrophicOf, JudgedOf
<1> HIDE DEF a
<1>2. settled => decidable # {}
  OBVIOUS
<1> HIDE DEF settled, decidable
<1>3. status = "qualified" => settled /\ ~Violated(a, q)
  BY <1>2
<1>4. status = "disqualified" => settled /\ Violated(a, q)
  BY <1>2
<1>5. settled
  BY <1>1, <1>3, <1>4
<1>6. IsRated(a, signals, threshold)
  BY DEF a, decidable, IsRated
<1>7. Settled(signals, q)
  BY <1>5 DEF settled, decidable, Settled
<1>8. (status = "disqualified") <=> Violated(a, q)
  BY <1>1, <1>3, <1>4
<1>9. QED
  BY <1>1, <1>6, <1>7, <1>8

(* Shares.                                                                 *)
LEMMA NotLess ==
  ASSUME NEW q, IsShare(q), NEW n \in Nat
  PROVE  ~Less(Rate(n, n), q) \/ n = 0
<1>1. q[1] \in Nat /\ q[2] \in Nat /\ q[1] <= q[2]
  BY DEF IsShare
<1>2. q[1] * n <= q[2] * n
  BY <1>1
<1>3. n * q[2] = q[2] * n
  BY <1>1
<1>4. CASE n # 0
  <2>1. Rate(n, n) = <<n, n>>
    BY <1>4 DEF Rate
  <2>2. Less(Rate(n, n), q) <=> n * q[2] < q[1] * n
    BY <2>1 DEF Less
  <2>3. n * q[2] \in Nat /\ q[1] * n \in Nat
    BY <1>1
  <2>4. QED
    BY <1>2, <1>3, <2>2, <2>3
<1>5. QED
  BY <1>4

LEMMA NoneIsNotMore ==
  ASSUME NEW q, IsShare(q), NEW n \in Nat
  PROVE  ~Less(q, Rate(0, n))
<1>1. q[1] \in Nat /\ q[2] \in Nat
  BY DEF IsShare
<1>2. PICK d \in Nat : Rate(0, n) = <<0, d>>
  BY DEF Rate, Zero
<1>3. Less(q, Rate(0, n)) <=> q[1] * d < 0 * q[2]
  BY <1>2 DEF Less
<1>4. q[1] * d \in Nat /\ 0 * q[2] = 0
  BY <1>1
<1>5. QED
  BY <1>3, <1>4

(* A qualification that asks for something: for some of the repetitions to *)
(* pass their checks, and for all of them where it asks for a score too.   *)
Demanding(q) ==
  /\ IsShare(q.deterministicPassRate) /\ q.deterministicPassRate[1] # 0
  /\ Less(Zero, q.minimumDomainScore) => q.deterministicPassRate[1] = q.deterministicPassRate[2]

(* A rate that is not less than a share: none of the n is too few, and for *)
(* a share of one all of them have to be there.                            *)
LEMMA EnoughOf ==
  ASSUME NEW q, IsShare(q), q[1] # 0, NEW k \in Nat, NEW n \in Nat \ {0}, k <= n,
         ~Less(Rate(k, n), q)
  PROVE  k # 0 /\ (q[1] = q[2] => k = n)
<1>1. q[1] \in Nat \ {0} /\ q[2] \in Nat \ {0}
  BY DEF IsShare
<1>2. ~(k * q[2] < q[1] * n)
  BY DEF Rate, Less
<1>3. k # 0
  <2>1. SUFFICES ASSUME k = 0 PROVE FALSE
    OBVIOUS
  <2>2. k * q[2] = 0
    BY <1>1, <2>1
  <2>3. q[1] * n > 0
    BY <1>1
  <2>4. QED
    BY <1>2, <2>2, <2>3
<1>4. ASSUME q[1] = q[2]
      PROVE  k = n
  <2>1. SUFFICES ASSUME k < n PROVE FALSE
    BY <1>1
  <2>2. (n - k) * q[2] > 0
    BY <1>1, <2>1
  <2>3. (n - k) * q[2] = n * q[2] - k * q[2] /\ n * q[2] = q[1] * n
    BY <1>1, <1>4
  <2>4. n * q[2] \in Int /\ k * q[2] \in Int
    BY <1>1
  <2>5. QED
    BY <1>2, <2>2, <2>3, <2>4
<1>5. QED
  BY <1>3, <1>4

(* A qualification has a repetition that passed its checks and, where a    *)
(* score is asked for, was judged.                                         *)
LEMMA QualifiedSignal ==
  ASSUME NEW signals, IsFiniteSet(DOMAIN signals), NEW q, NEW threshold, Demanding(q),
         Aggregate(signals, q, threshold).status = "qualified"
  PROVE  \E i \in Decidable(signals) :
           /\ ~signals[i].blockingFail /\ ~signals[i].blockingNotAvailable
           /\ Less(Zero, q.minimumDomainScore) => signals[i].overall # << >>
<1> DEFINE D == Decidable(signals)
           passed == D \ (FailedOf(signals) \cup MissingOf(signals))
           rate == q.deterministicPassRate
<1>1. Settled(signals, q) /\ \E a : IsRated(a, signals, threshold) /\ ~Violated(a, q)
  <2>1. Aggregate(signals, q, threshold).status \in {"qualified", "disqualified"}
    OBVIOUS
  <2>2. PICK a : /\ IsRated(a, signals, threshold)
                 /\ (Aggregate(signals, q, threshold).status = "disqualified") <=> Violated(a, q)
    BY <2>1, StatusDecided
  <2>3. QED
    BY <2>1, <2>2, StatusDecided
<1>2. ~Less(Rate(Cardinality(passed), Cardinality(D)), rate)
  BY <1>1 DEF Violated, IsRated
<1>3. /\ Cardinality(D) \in Nat /\ Cardinality(passed) \in Nat /\ Cardinality(D) # 0
      /\ Cardinality(passed) <= Cardinality(D)
      /\ Cardinality(passed) = Cardinality(D) => passed = D
      /\ Cardinality(passed) = 0 <=> passed = {}
  <2>1. IsFiniteSet(D)
    BY FS_Subset DEF Decidable
  <2>2. D \in SUBSET D /\ passed \in SUBSET D
    OBVIOUS
  <2>3. D # {}
    BY <1>1 DEF Settled
  <2> HIDE DEF D, passed
  <2>4. QED
    BY <2>1, <2>2, <2>3, Parts
<1>4. \A i \in passed : ~signals[i].blockingFail /\ ~signals[i].blockingNotAvailable
  BY DEF FailedOf, MissingOf
<1> HIDE DEF passed
<1>5. Cardinality(passed) # 0 /\ (rate[1] = rate[2] => Cardinality(passed) = Cardinality(D))
  <2>1. IsShare(rate) /\ rate[1] # 0
    BY DEF Demanding
  <2> HIDE DEF D, rate
  <2>2. QED
    BY <1>2, <1>3, <2>1, EnoughOf
<1>6. CASE Less(Zero, q.minimumDomainScore)
  <2>1. passed = D
    BY <1>3, <1>5, <1>6 DEF Demanding
  <2>2. PICK i \in D : signals[i].overall # << >>
    BY <1>1, <1>6 DEF JudgedOf, Settled
  <2>3. QED
    BY <1>4, <2>1, <2>2
<1>7. CASE ~Less(Zero, q.minimumDomainScore)
  <2>1. PICK i \in passed : TRUE
    BY <1>3, <1>5
  <2>2. i \in D
    BY DEF passed
  <2>3. QED
    BY <1>4, <1>7, <2>1, <2>2
<1>8. QED
  BY <1>6, <1>7

(* A disqualification has a repetition that failed a blocking check, was a *)
(* catastrophe of another kind, or was judged.                             *)
LEMMA DisqualifiedSignal ==
  ASSUME NEW signals, IsFiniteSet(DOMAIN signals), NEW q, NEW threshold,
         IsShare(q.deterministicPassRate), IsShare(q.maximumCatastrophicFailureRate),
         IsShare(q.maximumEvaluatorDisagreement),
         Aggregate(signals, q, threshold).status = "disqualified"
  PROVE  \E i \in Decidable(signals) :
           \/ signals[i].blockingFail \/ IsCatastrophic(signals[i])
           \/ signals[i].overall # << >> \/ Len(signals[i].normalized) >= 2
<1> DEFINE D == Decidable(signals)
           passed == D \ (FailedOf(signals) \cup MissingOf(signals))
           scores == [i \in D |-> signals[i].normalized]
<1>1. Settled(signals, q) /\ \E a : IsRated(a, signals, threshold) /\ Violated(a, q)
  <2>1. Aggregate(signals, q, threshold).status \in {"qualified", "disqualified"}
    OBVIOUS
  <2>2. PICK a : /\ IsRated(a, signals, threshold)
                 /\ (Aggregate(signals, q, threshold).status = "disqualified") <=> Violated(a, q)
    BY <2>1, StatusDecided
  <2>3. QED
    BY <2>1, <2>2, StatusDecided
<1>2. IsFiniteSet(D) /\ Cardinality(D) \in Nat /\ Cardinality(D) # 0
  <2>1. IsFiniteSet(D)
    BY FS_Subset DEF Decidable
  <2>2. D \in SUBSET D
    OBVIOUS
  <2>3. D # {}
    BY <1>1 DEF Settled
  <2> HIDE DEF D
  <2>4. QED
    BY <2>1, <2>2, <2>3, Parts
<1>3. SUFFICES ASSUME \A i \in D : /\ ~signals[i].blockingFail /\ ~IsCatastrophic(signals[i])
                                   /\ signals[i].overall = << >> /\ ~(Len(signals[i].normalized) >= 2)
               PROVE  FALSE
  OBVIOUS
<1>4. FailedOf(signals) = {} /\ CatastrophicOf(signals) = {} /\ JudgedOf(signals) = {}
  BY <1>3 DEF FailedOf, CatastrophicOf, JudgedOf
<1>5. passed = D
  BY <1>1, <1>4 DEF Settled
<1>6. ~Less(Rate(Cardinality(D), Cardinality(D)), q.deterministicPassRate)
  BY <1>2, NotLess
<1>7. ~Less(q.maximumCatastrophicFailureRate, Rate(0, Cardinality(D)))
  BY <1>2, NoneIsNotMore
<1>8. Cardinality({}) = 0
  BY FS_EmptySet
<1>9. ~Less(q.maximumEvaluatorDisagreement, DisagreementRate(scores, threshold))
  <2> DEFINE comparable == {i \in DOMAIN scores : Len(scores[i]) >= 2}
             disagreeing == {i \in comparable :
                               Less(threshold, Minus(Largest(scores[i]), Smallest(scores[i])))}
  <2>1. comparable = {} /\ disagreeing = {}
    BY <1>3
  <2>2. DisagreementRate(scores, threshold) = Rate(Cardinality(disagreeing), Cardinality(comparable))
    BY DEF DisagreementRate
  <2> HIDE DEF comparable, disagreeing, scores
  <2>3. DisagreementRate(scores, threshold) = Rate(0, 0)
    BY <1>8, <2>1, <2>2
  <2>4. QED
    BY <2>3, NoneIsNotMore
<1>10. PICK a : IsRated(a, signals, threshold) /\ Violated(a, q)
  BY <1>1
<1>11. /\ a.deterministicPassRate = Rate(Cardinality(D), Cardinality(D))
       /\ a.catastrophicFailureRate = Rate(0, Cardinality(D))
       /\ a.evaluatorDisagreementRate = DisagreementRate(scores, threshold)
  BY <1>4, <1>5, <1>8, <1>10 DEF IsRated
<1> HIDE DEF D, scores
<1>12. ~Less(Zero, q.minimumDomainScore)
  BY <1>1, <1>4 DEF Settled
<1>13. QED
  BY <1>6, <1>7, <1>9, <1>10, <1>11, <1>12 DEF Violated

(* What is judged has a judge.                                             *)
LEMMA SignalOfRecord ==
  ASSUME NEW record, NEW S, record.judges \in Seq(S)
  PROVE  LET signal == DeriveRepetitionSignal(record)
         IN  /\ signal.overall # << >> => record.judges # << >>
             /\ Len(signal.normalized) >= 2 => record.judges # << >>
             /\ record.judges # << >> => signal.overall # << >>
<1> DEFINE signal == DeriveRepetitionSignal(record)
           judges == record.judges
<1>1. /\ signal.overall = [i \in DOMAIN judges |-> judges[i].overall]
      /\ signal.normalized = [i \in DOMAIN judges |-> judges[i].normalizedScore]
  BY DEF DeriveRepetitionSignal
<1> HIDE DEF signal
<1>2. DOMAIN judges = 1..Len(judges) /\ Len(judges) \in Nat
  OBVIOUS
<1>3. /\ signal.overall \in Seq({judges[i].overall : i \in DOMAIN judges})
      /\ signal.normalized \in Seq({judges[i].normalizedScore : i \in DOMAIN judges})
      /\ Len(signal.overall) = Len(judges) /\ Len(signal.normalized) = Len(judges)
  BY <1>1, <1>2
<1>4. judges = << >> <=> Len(judges) = 0
  OBVIOUS
<1>5. QED
  BY <1>2, <1>3, <1>4 DEF signal

-----------------------------------------------------------------------------
(* The matrix.                                                             *)

(* Records that the aggregate of a benchmark is about.                     *)
About(records, target, b) ==
  {i \in DOMAIN records : records[i].target = target /\ records[i].benchmark = b}

SignalsOf(records, target, b) ==
  [i \in About(records, target, b) |-> DeriveRepetitionSignal(records[i])]

StatusOn(records, target, b, threshold) ==
  Aggregate(SignalsOf(records, target, b), Benchmark[b].qualification, threshold).status

(* The aggregates of a target are those of the benchmarks it has records   *)
(* of.                                                                     *)
LEMMA AggregatesOf ==
  ASSUME NEW records, NEW target, NEW exclude \in BOOLEAN, NEW threshold
  PROVE  LET aggregates == BenchmarkAggregates(records, target, exclude, threshold)
         IN  /\ \A a \in aggregates :
                  /\ a.benchmark \in Benchmarks /\ About(records, target, a.benchmark) # {}
                  /\ a.domain = Benchmark[a.benchmark].domain
                  /\ a.excluded = (exclude \/ Benchmark[a.benchmark].prototype)
                  /\ a.result.status = StatusOn(records, target, a.benchmark, threshold)
             /\ \A b \in Benchmarks : About(records, target, b) # {} =>
                  \E a \in aggregates : a.benchmark = b
<1>1. \A b : RecordsOf(records, target, b) = [i \in About(records, target, b) |-> records[i]]
  BY DEF RecordsOf, Restrict, About
<1>2. \A b : DOMAIN RecordsOf(records, target, b) = About(records, target, b)
  BY <1>1
<1>3. \A b : [i \in DOMAIN RecordsOf(records, target, b) |->
                DeriveRepetitionSignal(RecordsOf(records, target, b)[i])]
               = SignalsOf(records, target, b)
  BY <1>1, <1>2 DEF SignalsOf
<1>4. BenchmarkAggregates(records, target, exclude, threshold)
        = {[benchmark |-> b, domain |-> Benchmark[b].domain,
            excluded |-> exclude \/ Benchmark[b].prototype,
            result |-> Aggregate(SignalsOf(records, target, b), Benchmark[b].qualification, threshold)] :
           b \in {c \in Benchmarks : About(records, target, c) # {}}}
  BY <1>2, <1>3, Zenon DEF BenchmarkAggregates
<1> DEFINE entry(b) ==
             [benchmark |-> b, domain |-> Benchmark[b].domain,
              excluded |-> exclude \/ Benchmark[b].prototype,
              result |-> Aggregate(SignalsOf(records, target, b), Benchmark[b].qualification, threshold)]
           with == {c \in Benchmarks : About(records, target, c) # {}}
           aggregates == BenchmarkAggregates(records, target, exclude, threshold)
<1>5. aggregates = {entry(b) : b \in with}
  BY <1>4
<1>6. \A b : /\ entry(b).benchmark = b /\ entry(b).domain = Benchmark[b].domain
             /\ entry(b).excluded = (exclude \/ Benchmark[b].prototype)
             /\ entry(b).result.status = StatusOn(records, target, b, threshold)
  BY DEF StatusOn
<1> HIDE DEF entry, aggregates
<1>7. ASSUME NEW a \in aggregates
      PROVE  /\ a.benchmark \in Benchmarks /\ About(records, target, a.benchmark) # {}
             /\ a.domain = Benchmark[a.benchmark].domain
             /\ a.excluded = (exclude \/ Benchmark[a.benchmark].prototype)
             /\ a.result.status = StatusOn(records, target, a.benchmark, threshold)
  <2>1. PICK b \in with : a = entry(b)
    BY <1>5
  <2>2. a.benchmark = b
    BY <1>6, <2>1
  <2>3. b \in Benchmarks /\ About(records, target, b) # {}
    OBVIOUS
  <2>4. /\ a.domain = Benchmark[b].domain
        /\ a.excluded = (exclude \/ Benchmark[b].prototype)
        /\ a.result.status = StatusOn(records, target, b, threshold)
    BY <1>6, <2>1
  <2>5. QED
    BY <2>2, <2>3, <2>4, Zenon
<1>8. ASSUME NEW b \in Benchmarks, About(records, target, b) # {}
      PROVE  \E a \in aggregates : a.benchmark = b
  <2>1. entry(b) \in aggregates
    BY <1>5, <1>8
  <2>2. QED
    BY <1>6, <2>1
<1>9. QED
  BY <1>7, <1>8 DEF aggregates

(* A domain a target is qualified in has benchmarks that count, and it is  *)
(* qualified on all of those it has records of.                            *)
LEMMA DomainQualified ==
  ASSUME NEW records, NEW target, NEW exclude \in BOOLEAN, NEW threshold, NEW d,
         d \in BuildEntry(records, target, exclude, threshold).qualifiedDomains
  PROVE  LET counted == {b \in Benchmarks : /\ Benchmark[b].domain = d /\ ~Benchmark[b].prototype
                                            /\ About(records, target, b) # {}}
         IN  /\ counted # {}
             /\ \A b \in counted : StatusOn(records, target, b, threshold) = "qualified"
<1> DEFINE aggregates == BenchmarkAggregates(records, target, exclude, threshold)
           own == {a \in aggregates : a.domain = d}
           statuses == {a.result.status : a \in Ranked(own)}
<1>1. DomainStatus(own) = "qualified"
  BY DEF BuildEntry
<1>2. DomainStatus(own) =
        CASE statuses = {} -> "inconclusive"
          [] statuses = {"qualified"} -> "qualified"
          [] "disqualified" \in statuses -> "disqualified"
          [] "infrastructure_error" \in statuses /\ "disqualified" \notin statuses -> "infrastructure_error"
          [] OTHER -> "inconclusive"
  BY DEF DomainStatus
<1> HIDE DEF aggregates, own, statuses
<1>3. statuses = {"qualified"}
  BY <1>1, <1>2
<1>4. /\ \A a \in aggregates :
           /\ a.benchmark \in Benchmarks /\ About(records, target, a.benchmark) # {}
           /\ a.domain = Benchmark[a.benchmark].domain
           /\ a.excluded = (exclude \/ Benchmark[a.benchmark].prototype)
           /\ a.result.status = StatusOn(records, target, a.benchmark, threshold)
      /\ \A b \in Benchmarks : About(records, target, b) # {} =>
           \E a \in aggregates : a.benchmark = b
  BY AggregatesOf DEF aggregates
<1>5. PICK a \in aggregates : a.domain = d /\ ~a.excluded
  BY <1>3 DEF statuses, Ranked, own
<1>6. ~exclude /\ ~Benchmark[a.benchmark].prototype
  BY <1>4, <1>5
<1>7. \A c \in aggregates : c.domain = d /\ ~c.excluded => c.result.status = "qualified"
  BY <1>3 DEF statuses, Ranked, own
<1>8. QED
  BY <1>4, <1>5, <1>6, <1>7

(* A domain a target is disqualified in has a benchmark that counts on     *)
(* which it is.                                                            *)
LEMMA DomainDisqualified ==
  ASSUME NEW records, NEW target, NEW exclude \in BOOLEAN, NEW threshold, NEW d,
         <<d, "disqualified">> \in BuildEntry(records, target, exclude, threshold).statuses
  PROVE  \E b \in Benchmarks : /\ Benchmark[b].domain = d /\ ~Benchmark[b].prototype
                               /\ StatusOn(records, target, b, threshold) = "disqualified"
<1> DEFINE aggregates == BenchmarkAggregates(records, target, exclude, threshold)
           own == {a \in aggregates : a.domain = d}
           statuses == {a.result.status : a \in Ranked(own)}
<1>1. DomainStatus(own) = "disqualified"
  BY DEF BuildEntry
<1>2. DomainStatus(own) =
        CASE statuses = {} -> "inconclusive"
          [] statuses = {"qualified"} -> "qualified"
          [] "disqualified" \in statuses -> "disqualified"
          [] "infrastructure_error" \in statuses /\ "disqualified" \notin statuses -> "infrastructure_error"
          [] OTHER -> "inconclusive"
  BY DEF DomainStatus
<1> HIDE DEF aggregates, own, statuses
<1>3. "disqualified" \in statuses
  BY <1>1, <1>2
<1>4. PICK a \in aggregates : a.domain = d /\ ~a.excluded /\ a.result.status = "disqualified"
  BY <1>3 DEF statuses, Ranked, own
<1>5. /\ a.benchmark \in Benchmarks /\ a.domain = Benchmark[a.benchmark].domain
      /\ a.excluded = (exclude \/ Benchmark[a.benchmark].prototype)
      /\ a.result.status = StatusOn(records, target, a.benchmark, threshold)
  BY <1>4, AggregatesOf DEF aggregates
<1>6. QED
  BY <1>4, <1>5
=============================================================================
