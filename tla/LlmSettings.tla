---------------------------- MODULE LlmSettings ----------------------------
(***************************************************************************)
(* The [llm] and [rectify] sections: what the layer files load to          *)
(* (crates/llm/src/config/load.rs, shape.rs), how files of an earlier      *)
(* version are read (presets.rs, vendor.rs), and what the saves of the     *)
(* connection card and of the rectify card write (config/save.rs).         *)
(*                                                                         *)
(* A share of request fields is a function from the path of a field to its *)
(* value; the share that is not set is the empty one.                      *)
(***************************************************************************)
EXTENDS LayerFiles

Llm(name) == <<"llm", name>>
Slot(vendor, name) == <<"llm", vendor, name>>
Overlay(share) == <<"llm", "overlays", share>>
NoShare == <<>>

(***************************************************************************)
(* Vendors and presets                                                     *)
(***************************************************************************)

Vendors == {"deepseek", "volcengine", "qwen", "openai", "anthropic", "gemini", "custom"}
Dialects == {"deepseek", "volcengine", "qwen", "openai"}
Formats == {"openai_chat", "anthropic", "gemini"}

DefaultEnv(vendor) ==
  CASE vendor = "deepseek" -> "DEEPSEEK_API_KEY" [] vendor = "volcengine" -> "ARK_API_KEY"
    [] vendor = "qwen" -> "DASHSCOPE_API_KEY" [] vendor = "openai" -> "OPENAI_API_KEY"
    [] vendor = "anthropic" -> "ANTHROPIC_API_KEY" [] vendor = "gemini" -> "GEMINI_API_KEY"
    [] OTHER -> NotSet

\* The request fields of a dialect before the shares were in the file.
LegacyShares(dialect) ==
  CASE dialect = "deepseek" -> [on |-> "thinking" :> "enabled" @@ "reasoning_effort" :> "low",
                                off |-> "thinking" :> "disabled"]
    [] dialect = "volcengine" -> [on |-> "thinking" :> "enabled", off |-> "thinking" :> "disabled"]
    [] dialect = "qwen" -> [on |-> "enable_thinking" :> "true", off |-> "enable_thinking" :> "false"]
    [] dialect \in {"openai", "custom"} -> [on |-> "reasoning_effort" :> "medium", off |-> NoShare]
    [] OTHER -> [on |-> NoShare, off |-> NoShare]

\* One row of the preset table: a host, a model name of the vendor's own and
\* the shares; only plain openai's off share is not the dialect's.
Preset(vendor) ==
  [format |-> IF vendor \in Formats THEN vendor ELSE "openai_chat",
   base_url |-> "https://" \o vendor, model |-> vendor \o "-model",
   on |-> CASE vendor = "anthropic" -> "thinking" :> "adaptive"
            [] vendor = "gemini" -> "generationConfig.thinkingConfig" :> "medium"
            [] OTHER -> LegacyShares(vendor).on,
   off |-> CASE vendor = "openai" -> "reasoning_effort" :> "none"
             [] vendor = "anthropic" -> "thinking" :> "disabled"
             [] vendor = "gemini" -> "generationConfig.thinkingConfig" :> "low"
             [] OTHER -> LegacyShares(vendor).off]

\* Files of an earlier version: the dialect's fields, the custom overlay
\* over them, the extra_body hold over both, in both shares.
Grandfather(dialect, extra, hold) ==
  LET laid(row) == [format |-> row.format, on |-> Over(Over(row.on, extra), hold),
                    off |-> Over(Over(row.off, extra), hold)] IN
  laid(IF dialect \in Dialects \cup {"custom"}
       THEN LegacyShares(dialect) @@ [format |-> "openai_chat"] ELSE Preset(dialect))

(***************************************************************************)
(* The connection as it loads                                              *)
(***************************************************************************)

Vendor(files) == Value(files, Llm("vendor"), "deepseek")
BaseUrl(files) == Value(files, Llm("base_url"), Preset("deepseek").base_url)
Model(files) == Value(files, Llm("model"), Preset("deepseek").model)

HasOverlays(file) == <<"llm", "overlays">> \in file.tables
BadSwitch(file) == Has(file, Llm("thinking_fields")) /\ file.keys[Llm("thinking_fields")] \notin {"on", "off"}
BadOverlays(file) ==
  HasOverlays(file)
  /\ \E path \in DOMAIN file.keys :
       Len(path) = 3 /\ path[2] = "overlays"
       /\ path[3] \notin {"body", "thinking_on", "thinking_off"}

\* The switch and the overlays of the last layer that has a good one; the
\* overlays are one node, that of the local file in place of the shared one.
SwitchLayer(files) == Layer({l \in Both : Has(files[l], Llm("thinking_fields")) /\ ~BadSwitch(files[l])})
NodeLayer(files) == Layer({l \in Both : HasOverlays(files[l]) /\ ~BadOverlays(files[l])})
ShareIn(files, layer, share) ==
  IF layer # "none" /\ Has(files[layer], Overlay(share)) THEN files[layer].keys[Overlay(share)]
  ELSE NoShare
Share(files, share) == ShareIn(files, NodeLayer(files), share)
Broken(files) == \E l \in Both : BadSwitch(files[l]) \/ BadOverlays(files[l])

FormatsGood(files) ==
  \A l \in Both : Has(files[l], Llm("format")) => files[l].keys[Llm("format")] \in Formats
NewKeysWorld(files) ==
  \/ \E l \in Both : Has(files[l], Llm("format"))
  \/ SwitchLayer(files) # "none" \/ NodeLayer(files) # "none"

\* The overlay of the custom endpoint counts only while it is the vendor.
CustomSlot(files) ==
  LET extra == Slot("custom", "extra_body")
      l == Layer({layer \in Both : Has(files[layer], extra) /\ files[layer].keys[extra] # NoShare}) IN
  [dialect |-> Value(files, Slot("custom", "thinking_dialect"), "openai"),
   extra |-> IF l = "none" THEN NoShare ELSE files[l].keys[extra]]
LegacyThinking(files) ==
  LET of(custom) == Grandfather(IF Vendor(files) = "custom" THEN custom.dialect ELSE Vendor(files),
                                IF Vendor(files) = "custom" THEN custom.extra ELSE NoShare,
                                Value(files, Llm("extra_body"), NoShare)) IN
  of(CustomSlot(files)) @@ [state |-> "on", body |-> NoShare]

StateOf(switch, on) ==
  CASE switch = "on" /\ on # NoShare -> "on"
    [] switch = "off" -> "off"
    [] OTHER -> "unconfigured"
ThinkingState(files) ==
  LET of(l) == StateOf(IF l = "none" THEN NotSet ELSE files[l].keys[Llm("thinking_fields")],
                       Share(files, "thinking_on")) IN
  of(SwitchLayer(files))

NewThinking(files) ==
  [format |-> Value(files, Llm("format"), "openai_chat"), state |-> ThinkingState(files),
   body |-> Share(files, "body"), on |-> Share(files, "thinking_on"),
   off |-> Share(files, "thinking_off")]
BrokenThinking(files) ==
  [format |-> Value(files, Llm("format"), "openai_chat"), state |-> "broken",
   body |-> NoShare, on |-> NoShare, off |-> NoShare]
Thinking(files) ==
  CASE ~NewKeysWorld(files) -> LegacyThinking(files)
    [] NewKeysWorld(files) /\ Broken(files) -> BrokenThinking(files)
    [] OTHER -> NewThinking(files)

(***************************************************************************)
(* Keys: a slot for every vendor, and the flat pair of an earlier version, *)
(* which was the key of the vendor the files name.                         *)
(***************************************************************************)

SlotKey(files, vendor) == Value(files, Slot(vendor, "api_key"), NotSet)
SlotEnv(files, vendor) == Value(files, Slot(vendor, "api_key_env"), NotSet)
OrElse(value, other) == IF value # NotSet THEN value ELSE other

FlatPair(files) ==
  [key |-> Value(files, Llm("api_key"), NotSet), env |-> Value(files, Llm("api_key_env"), NotSet)]
NoPair == [key |-> NotSet, env |-> NotSet]
ResolvedKeys(files, vendor) ==
  LET over(flat) == [key |-> OrElse(SlotKey(files, vendor), flat.key),
                     env |-> OrElse(SlotEnv(files, vendor), OrElse(flat.env, DefaultEnv(vendor)))] IN
  over(IF vendor = Vendor(files) THEN FlatPair(files) ELSE NoPair)
ActiveKeys(files) == ResolvedKeys(files, Vendor(files))

PairKey(pair) == Resolved(pair.key, pair.env)
KeyOf(files, vendor) == PairKey(ResolvedKeys(files, vendor))

\* Whether a layer says anything of a model of the user's own.
AnySlotKey(file) ==
  \E v \in Vendors : Has(file, Slot(v, "api_key")) /\ Given(file.keys[Slot(v, "api_key")])
EndpointConfigured(files) ==
  \E l \in Both :
     \/ Has(files[l], Llm("model")) \/ Has(files[l], Llm("base_url"))
     \/ Has(files[l], Llm("api_key")) /\ Given(files[l].keys[Llm("api_key")])
     \/ AnySlotKey(files[l])

(***************************************************************************)
(* The rectify knobs: in one layer the [rectify] key beats the [llm] key   *)
(* of an earlier version, across the layers local wins.                    *)
(***************************************************************************)

Full(name) == <<"rectify", "full", name>>
Light(name) == <<"rectify", "light_touch", name>>
Quick(name) == <<"rectify", "quick", name>>

RectifyDefaults ==
  Full("thinking_policy") :> "always" @@ Full("prefill") :> "yes"
  @@ Light("enabled") :> "yes" @@ Light("max_chars") :> 40
  @@ Light("thinking_policy") :> "always" @@ Light("prefill") :> "yes"
  @@ Light("extra_directive") :> NotSet
  @@ Quick("enabled") :> "no" @@ Quick("rectify") :> "yes" @@ Quick("extra_directive") :> NotSet

\* The key of an earlier version a knob was translated from.
Legacy(path) ==
  CASE path \in {Full("thinking_policy"), Light("thinking_policy")} -> Llm("thinking")
    [] path \in {Full("prefill"), Light("prefill")} -> Llm("prefill")
    [] path = Light("max_chars") -> Llm("light_touch_max_chars")
    [] OTHER -> <<"llm">>
LegacyKeys == {Llm("thinking"), Llm("prefill"), Llm("light_touch_max_chars")}
FromLegacy(path, value) ==
  IF Last(path) = "thinking_policy" THEN (IF value = "yes" THEN "always" ELSE "off") ELSE value

\* A blank directive is none, a local one over a shared text too.
Directive(text) == IF Given(text) THEN text ELSE NotSet

KnobIn(file, path) ==
  CASE Has(file, path) /\ Last(path) = "extra_directive" -> Directive(file.keys[path])
    [] Has(file, path) /\ Last(path) # "extra_directive" -> file.keys[path]
    [] OTHER -> FromLegacy(path, file.keys[Legacy(path)])
Knob(files, path) ==
  LET of(l) == IF l = "none" THEN RectifyDefaults[path] ELSE KnobIn(files[l], path) IN
  of(Layer({l \in Both : Has(files[l], path) \/ Has(files[l], Legacy(path))}))
Rectify(files) == [path \in DOMAIN RectifyDefaults |-> Knob(files, path)]

MaxCharsGood(n) == n >= 1
\* validate_rectify: known keys only, and a threshold of at least one.
RectifyGood(file) ==
  \A path \in DOMAIN file.keys :
     Head(path) = "rectify" =>
       /\ path \in DOMAIN RectifyDefaults
       /\ path = Light("max_chars") => MaxCharsGood(file.keys[path])

EndpointGiven(files) == Given(Model(files)) /\ Given(BaseUrl(files))
LlmLoads(files) ==
  /\ LayersLoad(files) /\ FormatsGood(files)
  /\ \A l \in Both :
       /\ RectifyGood(files[l])
       /\ Has(files[l], Slot("custom", "thinking_dialect"))
            => files[l].keys[Slot("custom", "thinking_dialect")] \in Dialects
  /\ EndpointGiven(files)

\* What the card shows of the connection; only a working switch is shown on.
LlmViewOf(files, thinking) ==
  [vendor |-> Vendor(files), base_url |-> BaseUrl(files), model |-> Model(files),
   format |-> thinking.format, switch |-> IF thinking.state = "on" THEN "on" ELSE "off",
   body |-> thinking.body, on |-> thinking.on, off |-> thinking.off]
LlmView(files) == LlmViewOf(files, Thinking(files))

(***************************************************************************)
(* Saving the connection card                                              *)
(***************************************************************************)

LlmRefused(files, ask) ==
  \/ ~Given(ask.model) \/ ~Given(ask.base_url)
  \/ ask.switch = "on" /\ ask.on = NoShare
  \/ ~LlmLoads(files) \/ Thinking(files).state = "broken"

FaultyParks(files) == <<>>
\* The flat pair is the vendor's the files name: before the save names another
\* one it moves to that vendor's slot, when the slot has no key of its own.
Parks(files) ==
  LET previous == Vendor(files)
      flat == FlatPair(files)
      slot == <<"llm", previous>> IN
  IF Given(SlotKey(files, previous)) THEN <<>>
  ELSE (IF SlotKey(files, previous) = NotSet /\ Given(flat.key)
        THEN KeyWrites(slot, "api_key", flat.key) ELSE <<>>)
       \o (IF SlotEnv(files, previous) = NotSet /\ flat.env # NotSet
           THEN <<Write(slot, "api_key_env" :> flat.env, {}, "local")>> ELSE <<>>)

LlmSaveSteps(files, ask) ==
  LET shares == "body" :> ask.body @@ "thinking_on" :> ask.on @@ "thinking_off" :> ask.off
      set == {s \in DOMAIN shares : shares[s] # NoShare} IN
  Parks(files)
  \o <<Write(<<"llm">>,
             "vendor" :> ask.vendor @@ "base_url" :> ask.base_url @@ "model" :> ask.model
             @@ "format" :> ask.format @@ "thinking_fields" :> ask.switch,
             {"api_key", "api_key_env", "extra_body"}, "owning"),
       [Write(<<"llm", "overlays">>, [s \in set |-> shares[s]], DOMAIN shares \ set, "owning")
          EXCEPT !.owner = <<"llm">>],
       Write(<<"llm", "custom">>, <<>>, {"base_url", "model", "thinking_dialect", "extra_body"}, "owning")>>
  \o KeyWrites(<<"llm", ask.vendor>>, "api_key", ask.key)

(***************************************************************************)
(* Saving the rectify card                                                 *)
(***************************************************************************)

RectifyRefused(files, ask) ==
  ask[Light("max_chars")] < 1 \/ ~LayersLoad(files) \/ \E l \in Both : ~RectifyGood(files[l])

\* The keys of an earlier version a layer still has, written as [rectify]
\* keys of the same layer where that layer has not got them.
Translated(files, layer, section, names) ==
  LET file == files[layer]
      old == {n \in names : /\ Has(file, Legacy(Append(section, n)))
                            /\ ~Has(file, Append(section, n))} IN
  IF old = {} THEN <<>>
  ELSE <<Write(section,
               [n \in old |-> FromLegacy(Append(section, n), file.keys[Legacy(Append(section, n))])],
               {}, layer)>>

\* The fields of the editor, by section.
RectifyCard ==
  "full" :> {"thinking_policy", "prefill"}
  @@ "light_touch" :> {"enabled", "max_chars", "thinking_policy", "prefill", "extra_directive"}
  @@ "quick" :> {"enabled", "rectify", "extra_directive"}

RectifySaveSteps(files, ask) ==
  LET full == RectifyCard["full"]
      light == full \cup {"max_chars"}
      of(layer) == Translated(files, layer, <<"rectify", "full">>, full)
                   \o Translated(files, layer, <<"rectify", "light_touch">>, light)
      card(tier) ==
        LET section == <<"rectify", tier>>
            gone == {n \in RectifyCard[tier] : n = "extra_directive" /\ ~Given(ask[Append(section, n)])} IN
        Write(section, [n \in RectifyCard[tier] \ gone |-> ask[Append(section, n)]], gone, "owning") IN
  of("shared") \o of("local")
  \o <<Write(<<"llm">>, <<>>, {Last(path) : path \in LegacyKeys}, "owning"),
       card("full"), card("light_touch"), card("quick")>>
=============================================================================
