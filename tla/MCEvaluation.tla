----------------------------- MODULE MCEvaluation -----------------------------
(* Small instances of Evaluation: a few results, one or two evaluators.    *)
EXTENDS Evaluation

MCOrder2 == <<"r1", "r2">>
MCOrder3 == <<"r1", "r2", "r3">>
MCResult == ToSet(ResultOrder)

(* One result file per benchmark and model. *)
DistinctKeys == [r \in MCResult |-> r]

LegacyFiles == [r \in MCResult |-> "legacy"]
RecordFiles == [r \in MCResult |-> "record"]

MCEvaluators1 == <<"judge1">>
MCEvaluators2 == <<"judge1", "judge2">>

MCBatches == {SelectSeq(ResultOrder, LAMBDA r : r \in S) : S \in SUBSET MCResult}
=============================================================================
