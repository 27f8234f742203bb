----------------------------- MODULE MCSettings -----------------------------
(***************************************************************************)
(* Layer files of every age: none at all, an account of an earlier version *)
(* with a flat key, one with a custom endpoint and its overlay, one whose  *)
(* rectify knobs are spread over both files, and files of this version.    *)
(***************************************************************************)
EXTENDS Settings

File(keys) ==
  [there |-> TRUE, good |-> TRUE, keys |-> keys,
   tables |-> UNION {Within(Front(path)) : path \in DOMAIN keys}]

MCStartFiles ==
  LET both(s, l) == [shared |-> s, local |-> l] IN
  {both(Missing, Missing),
   \* a flat key and a hold of extra fields, knobs in both files
   both(File(Llm("model") :> "mine" @@ Llm("thinking") :> "no" @@ Llm("api_key_env") :> "MY_ENV"
             @@ Light("prefill") :> "no"),
        File(Llm("api_key") :> "flat" @@ Llm("extra_body") :> ("top_p" :> "1")
             @@ Llm("light_touch_max_chars") :> 12 @@ Full("thinking_policy") :> "placeholders")),
   \* no key but a variable named for it
   both(File(Llm("vendor") :> "qwen" @@ Llm("api_key_env") :> "MY_ENV"), Missing),
   \* a custom endpoint with its overlay, and a recogniser of its own account
   both(File(Asr("provider") :> "tencent" @@ Sub("tencent", "app_id") :> "1"
             @@ <<"history", "retention_days">> :> 14),
        File(Llm("vendor") :> "custom" @@ Llm("base_url") :> "https://own" @@ Llm("model") :> "own"
             @@ Slot("custom", "api_key") :> "ck" @@ Slot("custom", "thinking_dialect") :> "qwen"
             @@ Slot("custom", "extra_body") :> ("enable_thinking" :> "no")
             @@ Sub("tencent", "secret_id") :> "id" @@ Sub("tencent", "secret_key") :> "sk")),
   \* files of this version, the shares in the shared file, a slot in the local
   both(File(Llm("vendor") :> "openai" @@ Llm("format") :> "openai_chat" @@ Llm("thinking_fields") :> "on"
             @@ Overlay("body") :> ("top_p" :> "1" @@ "model" :> "other" @@ "messages" :> "mine") @@ Overlay("thinking_on") :> Preset("openai").on
             @@ Light("max_chars") :> 10 @@ Light("extra_directive") :> "plainly"),
        File(Slot("openai", "api_key") :> "ok" @@ Slot("deepseek", "api_key") :> "dk"
             @@ Asr("api_key") :> "ak" @@ Quick("enabled") :> "yes"))}

\* Lengths on both sides of the thresholds; the engine leaves prefill on and
\* makes quick requests with placeholders only when the text itself has the shape.
MCAsked ==
  {[length |-> n, slots |-> slots, prefill |-> TRUE, quick |-> quick, terms |-> {},
    global |-> d, style |-> d] :
     n \in {9, 10, 40}, slots \in {{}, {"1"}}, quick \in BOOLEAN, d \in {NotSet, "directive"}}

\* Terms on both sides of every limit, blanks, and more than Tencent's list holds.
MCDictionaries ==
  LET term(word, chars) == [word |-> word, chars |-> chars] IN
  {<<>>, <<term("a", 4), term("blank", 0), term("b", 30), term("c", 31)>>,
   <<term("a", 60), term("b", 41), term("c", 40), term("d", 1)>>,
   [i \in 1..130 |-> term(i, 30)]}

MCEnv == "MY_ENV" :> "from env" @@ "DEEPSEEK_API_KEY" :> Blank
=============================================================================
