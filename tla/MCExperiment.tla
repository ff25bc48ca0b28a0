---------------------------- MODULE MCExperiment ----------------------------
(* Small instances of Experiment: a server of one's own and OpenRouter     *)
(* answer a coding task whose output is run by node.                       *)
EXTENDS Experiment

File(path) == [path |-> path, bytes |-> 1, json |-> <<"none">>]

Output(text, paths, matches) ==
  [text |-> text, envelope |-> [i \in DOMAIN paths |-> File(paths[i])], blocks |-> << >>,
   json |-> <<"none">>, sections |-> {}, matches |-> matches]

MCBlank == Output("blank", << >>, {})

Good == Output("answer", <<<<"main">>, <<"..", "x">>, <<"lib", "a">>, <<"lib", "a">>, <<"c">>>>, {"ok"})

(* One of its files lies below another. *)
Clash == Output("answer", <<<<"main">>, <<"main", "a">>>>, {"ok"})

Regex == [kind |-> "regex", blocking |-> TRUE, pattern |-> "ok", mustMatch |-> TRUE]

Node ==
  [kind |-> "command", tool |-> "node", blocking |-> TRUE, expectExitCode |-> 0,
   expectOutput |-> {}, forbidOutput |-> {"vacuous"}]

Schema == [kind |-> "json_schema", blocking |-> FALSE, source |-> "file",
           path |-> <<"lib", "a">>, schema |-> {"value"}]

Sections == [kind |-> "required_sections", blocking |-> FALSE, sections |-> {"Summary"}]

FileExists == [kind |-> "file_exists", blocking |-> FALSE, paths |-> {<<"lib", "a">>}]

Qualification(rate, score, catastrophic) ==
  [deterministicPassRate |-> rate, minimumDomainScore |-> score,
   maximumCatastrophicFailureRate |-> catastrophic, maximumEvaluatorDisagreement |-> <<1, 4>>]

Define(checks, qualification) ==
  [checks |-> checks, fixtures |-> {File(<<"package">>)}, domain |-> "coding",
   prototype |-> FALSE, qualification |-> qualification]

MCBenchmark ==
  [api |-> Define(<<Regex, Node, Schema, Sections, FileExists>>,
                  Qualification(<<1, 1>>, <<2, 1>>, <<0, 1>>))]

MCOutputs == {Good, Clash}

MCTargets == <<"v", "r">>
MCSuite == <<"api">>
MCThreshold == <<1, 5>>

MCKind == [v |-> "openai-compatible", r |-> "openrouter"]

Scores(score) == [kind |-> "scores", refusal |-> FALSE,
                  scores |-> <<[score |-> score, weight |-> 2], [score |-> 3, weight |-> 1]>>]

MCPanels == {<<Scores(3)>>, <<Scores(3), [kind |-> "failed"]>>}
=============================================================================
