---------------------------- MODULE AsrSettings ----------------------------
(***************************************************************************)
(* The [asr] sections: what they load to (crates/asr/src/schema/load.rs),  *)
(* what an edit of the connection card writes (schema/save.rs), and which  *)
(* recogniser the settings name (schema/shape.rs, engine_factory.rs).      *)
(***************************************************************************)
EXTENDS LayerFiles

Asr(name) == <<"asr", name>>
Sub(provider, name) == <<"asr", provider, name>>

AsrDefaults ==
  Asr("provider") :> "aliyun" @@ Asr("model") :> "qwen3-asr-flash-realtime"
  @@ Asr("language") :> "zh" @@ Asr("base_url") :> NotSet
  @@ Asr("api_key") :> NotSet @@ Asr("api_key_env") :> "DASHSCOPE_API_KEY"
  @@ Sub("aliyun", "workspace_id") :> NotSet @@ Sub("aliyun", "region") :> "cn-beijing"
  @@ Sub("volcengine", "app_id") :> NotSet @@ Sub("volcengine", "access_key") :> NotSet
  @@ Sub("volcengine", "resource_id") :> "volc.seedasr.sauc.duration"
  @@ Sub("tencent", "app_id") :> NotSet @@ Sub("tencent", "secret_id") :> NotSet
  @@ Sub("tencent", "secret_key") :> NotSet
  @@ Sub("azure", "region") :> NotSet @@ Sub("azure", "endpoint_id") :> NotSet

AsrSecrets == {Asr("api_key"), Sub("volcengine", "access_key"),
               Sub("tencent", "secret_id"), Sub("tencent", "secret_key")}
AsrFields == DOMAIN AsrDefaults \ (AsrSecrets \cup {Asr("api_key_env")})
Required == {Asr("model"), Asr("language"), Sub("aliyun", "region"), Sub("volcengine", "resource_id")}

AsrConfig(files) == Fields(files, AsrDefaults)
AsrLoads(files) ==
  /\ LayersLoad(files)
  /\ \A path \in {Asr("model"), Asr("language")} : Given(Value(files, path, AsrDefaults[path]))

(***************************************************************************)
(* Credentials                                                             *)
(***************************************************************************)

CommonKey(config) == Resolved(config[Asr("api_key")], config[Asr("api_key_env")])
Bearer == {"aliyun", "openai", "azure"}

\* What a recogniser of its own kind of account needs together.
Triple(config) ==
  IF config[Asr("provider")] = "volcengine"
  THEN {Sub("volcengine", n) : n \in {"app_id", "resource_id", "access_key"}}
  ELSE {Sub("tencent", n) : n \in {"app_id", "secret_id", "secret_key"}}

\* carries_credentials counts a blank api_key: it shadows the variable.
CarriesCredentials(config) ==
  IF config[Asr("provider")] \in Bearer THEN CommonKey(config) # NotSet
  ELSE \E path \in Triple(config) \ {Sub("volcengine", "resource_id")} : Given(config[path])

ActiveCredentials(config) ==
  IF config[Asr("provider")] \in Bearer THEN CommonKey(config) # NotSet
  ELSE \A path \in Triple(config) : Given(config[path])

\* AsrConfig::endpoint: the host and what of the fields rides in the URL.
Endpoint(config) ==
  LET provider == config[Asr("provider")]
      own == config[Asr("base_url")]
      host == CASE Given(own) -> <<own>>
                [] /\ ~Given(own) /\ provider = "aliyun"
                   /\ Given(config[Sub("aliyun", "workspace_id")]) ->
                     <<config[Sub("aliyun", "workspace_id")], config[Sub("aliyun", "region")]>>
                [] OTHER -> <<provider>> IN
  CASE provider = "aliyun" -> host \o <<config[Asr("model")]>>
    [] provider = "tencent" -> host \o <<config[Sub("tencent", "app_id")]>>
    [] provider = "volcengine" -> host
    [] OTHER -> <<>>

\* asr_provider: the microphone alone, the adapter of the provider, or an
\* error when the account is incomplete or has no adapter.
AsrProvider(config) ==
  CASE ~CarriesCredentials(config) -> "mic"
    [] ActiveCredentials(config) /\ Endpoint(config) # <<>> -> config[Asr("provider")]
    [] OTHER -> "error"

(***************************************************************************)
(* Saving the card: ask has a value for every field and an edit (keep,     *)
(* clear or a new key) for every secret.                                   *)
(***************************************************************************)

AsrRefused(ask) == \E path \in Required : ~Given(ask[path])

AsrSaveSteps(ask) ==
  <<FormWrite(<<"asr">>, ask, {"provider", "model", "language", "base_url"}),
    FormWrite(<<"asr", "aliyun">>, ask, {"workspace_id", "region"}),
    FormWrite(<<"asr", "volcengine">>, ask, {"app_id", "resource_id"})>>
  \o KeyWrites(<<"asr", "volcengine">>, "access_key", ask[Sub("volcengine", "access_key")])
  \o <<FormWrite(<<"asr", "tencent">>, ask, {"app_id"})>>
  \o KeyWrites(<<"asr", "tencent">>, "secret_id", ask[Sub("tencent", "secret_id")])
  \o KeyWrites(<<"asr", "tencent">>, "secret_key", ask[Sub("tencent", "secret_key")])
  \o <<FormWrite(<<"asr", "azure">>, ask, {"region", "endpoint_id"})>>
  \o KeyWrites(<<"asr">>, "api_key", ask[Asr("api_key")])
=============================================================================
