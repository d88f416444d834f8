----------------------------- MODULE MCSettings -----------------------------
(***************************************************************************)
(* Instances of Settings: ratios that fit or do not, secrets that are new, *)
(* cleared or sent back masked, an empty prefix, and an unknown field.     *)
(***************************************************************************)
EXTENDS Settings, TLC

Keep(v) == "summary_keep_ratio" :> v
Trigger(v) == "summary_trigger_ratio" :> v

MCInputs ==
    { <<"summary_keep_ratio", "high">>, <<"summary_trigger_ratio", "low">>,
      <<"llm_api_key", "b">>, <<Prefix, "">> }

MCPayloads ==
    { Keep("low") @@ ("llm_api_key" :> Mask), "no_such_field" :> "low" }

MCFiles ==
    { Nothing, ("llm_api_key" :> Bare("a")) @@ Trigger(Bare("high")) }

(* A key that has to stand in quotes, and another field.                   *)
MCQuotedPayloads == { "llm_api_key" :> "a #b", Keep("low"), Nothing }

MCSymmetry == Permutations(Slots)

=============================================================================
