-------------------------- MODULE MCCampaignReview --------------------------
(* Small instances of CampaignReview: campaigns over one backend with one  *)
(* or two models, and the edits between them.                              *)
EXTENDS CampaignReview

Asset(version, rubricVersion, content) ==
  [version |-> version, rubricVersion |-> rubricVersion, content |-> content]

Ref(version, rubricVersion) ==
  [id |-> "jwt", version |-> version, rubricVersion |-> rubricVersion]

Campaign(models, repetitions, ref, asset) ==
  [backends |-> <<"vllm">>, models |-> models, repetitions |-> repetitions,
   refs |-> <<ref>>, assets |-> [id \in {ref.id} |-> asset]]

AnyRef == Ref("any", "any")
Jwt1 == Asset("1.0.0", "1.0.0", "text1")

(* A model is dropped from the campaign, and the other one listed twice,   *)
(* which the schema accepts and which gives two tasks of the same run; or  *)
(* it is put back.                                                         *)
TwoModelsOrTwice ==
  {Campaign(<<"gpt", "qwen">>, 1, AnyRef, Jwt1), Campaign(<<"qwen", "qwen">>, 1, AnyRef, Jwt1)}

(* The pinned asset is edited: its version moves on, or only its rubric's. *)
PinnedAsset ==
  {Campaign(<<"qwen">>, 1, Ref("1.0.0", "1.0.0"), asset) :
     asset \in {Jwt1, Asset("1.1.0", "1.0.0", "text2"), Asset("1.0.0", "1.1.0", "text1")}}

OneSeed == {"review"}
=============================================================================
