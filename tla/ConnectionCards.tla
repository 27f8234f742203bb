-------------------------- MODULE ConnectionCards --------------------------
(***************************************************************************)
(* The two cards of the connection pane                                    *)
(* (app/rust/src/api/connection.rs, settings_connection_pane.dart): what   *)
(* they paint of the layer files, and the edit they send for a form.  A    *)
(* form holds a text for every secret; the edit says what a save does to   *)
(* it: keep, clear, or the new key.                                        *)
(***************************************************************************)
EXTENDS AsrRequests, LlmSettings

\* key_status: a blank stored key counts as stored and hides the variable.
KeyStatus(key, env) ==
  CASE key # NotSet -> "stored"
    [] key = NotSet /\ env \in DOMAIN Env /\ Env[env] # Blank -> "env"
    [] OTHER -> "unset"

\* A stored key is painted, the value of a variable never.
BridgeKey(key, env) ==
  [status |-> KeyStatus(key, env), text |-> IF key # NotSet THEN key ELSE Blank]

\* The field starts as painted: an untouched one keeps what there is.
KeyDiff(typed, painted) ==
  CASE typed = painted.text -> "keep"
    [] typed # painted.text /\ typed = Blank -> "clear"
    [] OTHER -> typed

(***************************************************************************)
(* The card of the recogniser                                              *)
(***************************************************************************)

AsrModelPresets ==
  "aliyun" :> "qwen3-asr-flash-realtime" @@ "volcengine" :> "volc.seedasr.sauc.duration"
  @@ "tencent" :> "16k_zh_en" @@ "openai" :> "gpt-4o-transcribe" @@ "azure" :> "azure-speech"

AsrCardOf(config) ==
  [path \in AsrFields \cup AsrSecrets |->
     CASE path = Asr("api_key") -> BridgeKey(config[path], config[Asr("api_key_env")])
       [] path \in AsrSecrets \ {Asr("api_key")} -> BridgeKey(config[path], NotSet)
       [] OTHER -> config[path]]
AsrCard(files) == AsrCardOf(AsrConfig(files))

\* The card as it was painted, and a chip of it pressed: the model gives way
\* when it is blank or some provider's own.
PaintedForm(card) ==
  [path \in DOMAIN card |-> IF path \in AsrSecrets THEN card[path].text ELSE card[path]]
AsrForm(files) == PaintedForm(AsrCard(files))
ApplyAsrProvider(form, provider) ==
  LET model == form[Asr("model")]
      prefilled == ~Given(model) \/ \E p \in DOMAIN AsrModelPresets : AsrModelPresets[p] = model IN
  [form EXCEPT ![Asr("provider")] = provider,
               ![Asr("model")] = IF prefilled THEN AsrModelPresets[provider] ELSE @]

\* Only the secrets of the provider on show are compared; the others stay.
Painted(provider) ==
  CASE provider \in Bearer -> {Asr("api_key")}
    [] provider = "volcengine" -> {Sub("volcengine", "access_key")}
    [] provider = "tencent" -> {Sub("tencent", "secret_id"), Sub("tencent", "secret_key")}

FaultyAsrEdit(files, form) ==
  [path \in DOMAIN form |->
     CASE path \in Painted(form[Asr("provider")]) -> KeyDiff(form[path], AsrCard(files)[path])
       [] path \in AsrSecrets \ Painted(form[Asr("provider")]) -> "clear"
       [] OTHER -> form[path]]
\* The secrets of the providers that are not shown ride along.
AsrEdit(files, form) ==
  [path \in DOMAIN form |->
     CASE path \in Painted(form[Asr("provider")]) -> KeyDiff(form[path], AsrCard(files)[path])
       [] path \in AsrSecrets \ Painted(form[Asr("provider")]) -> "keep"
       [] OTHER -> form[path]]

\* The URL under the fields while the user types: the fields it depends on
\* laid over the defaults.
AsrEndpointPreview(form) ==
  LET shown == {Asr("provider"), Asr("model"), Asr("base_url"), Sub("aliyun", "workspace_id"),
                Sub("aliyun", "region"), Sub("tencent", "app_id")} IN
  Endpoint(Over(AsrDefaults, [path \in shown |-> form[path]]))

(***************************************************************************)
(* The card of the model                                                   *)
(***************************************************************************)

\* One key block for every vendor; the one on show is that of its chip.
VendorKeyBlocks(files) ==
  LET painted(pair) == BridgeKey(pair.key, pair.env) IN
  [v \in Vendors |-> painted(ResolvedKeys(files, v))]
LlmCard(files) == LlmView(files) @@ [keys |-> VendorKeyBlocks(files)]

LlmForm(files) == LlmView(files) @@ [key |-> LlmCard(files).keys[Vendor(files)].text]

LlmPresets == [name \in Vendors \ {"custom"} |-> Preset(name)]
SomePresetModel(model) == \E name \in DOMAIN LlmPresets : model = LlmPresets[name].model

\* A chip stamps its row over the form, the model as above; the blank one of
\* the custom endpoint is filled in by the user.
Stamped(files, form, vendor) ==
  LET key == LlmCard(files).keys[vendor].text IN
  IF vendor = "custom"
  THEN [form EXCEPT !.vendor = vendor, !.base_url = "https://own", !.model = "own",
                    !.switch = "off", !.on = NoShare, !.off = NoShare, !.key = key]
  ELSE LET row == LlmPresets[vendor] IN
       [form EXCEPT !.vendor = vendor, !.format = row.format, !.base_url = row.base_url,
                    !.model = IF ~Given(@) \/ SomePresetModel(@) THEN row.model ELSE @,
                    !.switch = "on", !.on = row.on, !.off = row.off, !.key = key]

LlmEdit(files, form) == [form EXCEPT !.key = KeyDiff(@, LlmCard(files).keys[form.vendor])]
=============================================================================
