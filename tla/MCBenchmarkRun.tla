--------------------------- MODULE MCBenchmarkRun ---------------------------
(* Small instances of BenchmarkRun: a few prompts and targets, and fewer   *)
(* workers than tasks so that workers pause, race and leave.               *)
EXTENDS BenchmarkRun

CONSTANTS PromptOrder, TargetOrder   \* the lists the command iterates over

MCPromptOrder1 == <<"A1">>
MCPromptOrder2 == <<"A1", "A2">>
MCTargetOrder2 == <<"gpt", "gpt_mini">>
MCTargetOrder3 == <<"gpt", "gpt_mini", "qwen">>

MCPrompt == ToSet(PromptOrder)
MCTarget == ToSet(TargetOrder)
MCTask == MCPrompt \X MCTarget

(* Target-major, as the command's two nested loops build it. *)
MCMatrix ==
  LET n == Len(PromptOrder)
  IN  [i \in 1..(n * Len(TargetOrder)) |->
         <<PromptOrder[((i - 1) % n) + 1], TargetOrder[((i - 1) \div n) + 1]>>]

MCBatches == {SelectSeq(MCMatrix, LAMBDA t : t \in S) : S \in SUBSET MCTask}

NoShadows == {}

(* The file names of "gpt_mini" start with "<prompt>_gpt_". *)
PrefixShadows == {<<"gpt_mini", "gpt">>}
=============================================================================
