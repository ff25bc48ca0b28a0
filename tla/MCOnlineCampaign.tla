-------------------------- MODULE MCOnlineCampaign --------------------------
(* A small instance of OnlineCampaign: an alias that moves on, a model     *)
(* that is new, and one that expires.                                      *)
EXTENDS OnlineCampaign

Raw(id, slug, expires, intelligence) ==
  [id |-> id, canonicalSlug |-> slug, created |-> 1, expires |-> expires, retiring |-> FALSE,
   context |-> Absent, topContext |-> 2, price |-> 1, params |-> {"tools"}, outputs |-> {"text"},
   intelligence |-> intelligence, popularity |-> Absent]

Sonnet(slug) == Raw("sonnet-latest", slug, Absent, 2)

MCCatalogues ==
  {<<Sonnet("sonnet-4"), Raw("kimi", Unnamed, Absent, 3)>>,
   <<Raw("kimi", Unnamed, 0, 3), Sonnet("sonnet-5")>>,
   <<Sonnet("sonnet-5")>>}

MCLocal == {[id |-> "kimi", context |-> 2]}

MCBackends == <<"openrouter", "vllm">>

MCModels == <<"kimi">>

MCEnvironments == {[schema |-> 1, platform |-> "linux"], [schema |-> 2, platform |-> "linux"]}

MCFaults == {[kind |-> "http", status |-> 429], [kind |-> "invalid_response"]}

Frontier ==
  [params |-> {}, minContext |-> 2, outputs |-> {"text"}, addedWithin |-> Absent,
   sort |-> "intelligence-high-to-low", maxRank |-> 2]

Agents == [Frontier EXCEPT !.params = {"tools"}, !.sort = "most-popular", !.maxRank = Absent]

New == [params |-> {}, minContext |-> Absent, outputs |-> {}, addedWithin |-> 1, sort |-> "newest",
        maxRank |-> Absent]

MCRules == {Frontier, Agents, New}

MCPinned == {"sonnet-4"}

(* What a prompt says is only compared.                                    *)
PromptSymmetry == Permutations(Prompts)
=============================================================================
