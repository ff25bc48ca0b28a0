---------------------------- MODULE MCBlindStudy ----------------------------
(* Small instances of BlindStudy: two targets answer a benchmark, one of   *)
(* them twice; a third one's record comes later.                           *)
EXTENDS BlindStudy

Record(target, rep, phrases, checks) ==
  [benchmark |-> "jwt", target |-> target, rep |-> rep, response |-> TRUE,
   prototype |-> FALSE, term |-> FALSE, phrases |-> phrases, checks |-> checks]

(* Target "qwen" names itself in its answer and in the file it contains. *)
MCRecords ==
  <<Record("gpt", 0, {}, "pass"), Record("gpt", 1, {}, "fail"),
    [Record("gpt", 2, {}, "pass") EXCEPT !.response = FALSE],
    Record("phi", 0, {}, "pass"),
    Record("qwen", 0, {"response", "artifact"}, "undecided")>>

(* Seven characters of a hash: the ids of records 1 and 5 collide.         *)
MCRawId ==
  [seed \in {"A", "B"} |->
    [r \in DOMAIN MCRecords |->
      [salt \in 0..1 |->
        CASE seed = "A" /\ r \in {1, 5} -> <<"R-1", "R-2">>[salt + 1]
          [] seed = "A" /\ r \in {2, 3, 4} -> <<"R-3", "R-4", "R-5">>[r - 1]
          [] seed = "B" -> <<"R-6", "R-7", "R-8", "R-9", "R-0">>[r]]]]

(* So do those of two of the three pairs.                                  *)
MCPairId ==
  [seed \in {"A", "B"} |->
    [p \in (1..Len(MCRecords)) \X (1..Len(MCRecords)) |-> IF p = <<1, 5>> THEN "P-1" ELSE "P-2"]]

(* The pair of records 1 and 5 is the first one, or the second once record *)
(* 4 has come: its sides are swapped then.                                 *)
MCFlip == [seed \in {"A", "B"} |-> <<FALSE, TRUE, FALSE>>]

Config(seed, mode, policy, pairwise) ==
  [seed |-> seed, mode |-> mode, wanted |-> {1, 5}, count |-> 1, policy |-> policy,
   pairwise |-> pairwise, includePrototypes |-> TRUE, includeInfraValidation |-> TRUE,
   targets |-> {"gpt", "phi", "qwen"}, benchmarks |-> {"jwt"}]

MCConfigs == {Config("A", "stratified", "redact", TRUE), Config("A", "explicit", "flag", FALSE),
              [Config("B", "random", "exclude", FALSE) EXCEPT !.targets = {"gpt"}]}

ExcludingConfigs == {Config("A", "all", "exclude", TRUE), Config("B", "all", "exclude", FALSE)}

Raw(verdict, blocking, sound) == [verdict |-> verdict, blocking |-> blocking, sound |-> sound]

MCRaws == {Raw("qualified", FALSE, TRUE), Raw("not_qualified", TRUE, TRUE),
           Raw("qualified", TRUE, TRUE)}

(* The colliding records are never selected one without the other.         *)
ASSUME MCAssumption == CollidingTogether
=============================================================================
