---------------------------- MODULE LlmRequests ----------------------------
(***************************************************************************)
(* What the client (crates/llm/src/client.rs) sends for a rectify request, *)
(* given the [llm] and [rectify] settings it was built on: the intensity,  *)
(* the thinking policy, the prompt, the URL, the key and the body          *)
(* (intensity.rs, prompt.rs, format.rs, assembly.rs).                      *)
(*                                                                         *)
(* A body is a function from the path of a leaf, written with dots, to its *)
(* value, as the shares are: laying a share over a body is what merge_map  *)
(* does, short of a leaf laid over a table.                                *)
(***************************************************************************)
EXTENDS LlmSettings, Prompt

\* A client is the pair of sections it was built on, its key resolved when a
\* request is made.
Client(files) ==
  [vendor |-> Vendor(files), base_url |-> BaseUrl(files), model |-> Model(files),
   thinking |-> Thinking(files), keys |-> ActiveKeys(files),
   rectify |-> Rectify(files)]

FaultyForEval(client) == [client EXCEPT !.rectify[Quick("extra_directive")] = NotSet]
\* The client of the fidelity suite: no directive of the user's goes along.
ForEval(client) ==
  [client EXCEPT !.rectify[Light("extra_directive")] = NotSet,
                 !.rectify[Quick("extra_directive")] = NotSet]

SelectIntensity(length, enabled, max_chars) ==
  IF enabled = "yes" /\ length < max_chars THEN "light" ELSE "full"

\* A quick attempt is always light touch, and its tier has nothing to say of it.
Intensity(client, request) ==
  IF request.quick THEN "light"
  ELSE SelectIntensity(request.length, client.rectify[Light("enabled")], client.rectify[Light("max_chars")])

Tier(client, intensity, name) ==
  client.rectify[IF intensity = "light" THEN Light(name) ELSE Full(name)]

ComposedPrompt(client, request, intensity) ==
  LET shaped == IF request.quick THEN request
                ELSE [request EXCEPT !.prefill = Tier(client, intensity, "prefill") = "yes"]
      extra == CASE intensity = "full" -> NotSet
                 [] intensity # "full" /\ request.quick -> client.rectify[Quick("extra_directive")]
                 [] OTHER -> client.rectify[Light("extra_directive")] IN
  Compose(shaped, intensity, extra)

\* The policy's tier is the request's, and a quick attempt never thinks.
ThinkingEnabled(client, request, intensity) ==
  LET policy == Tier(client, intensity, "thinking_policy") IN
  ~request.quick /\ (policy = "always" \/ (policy = "placeholders" /\ Pins(request)))

CompleteUrl(client) ==
  <<client.base_url>>
  \o CASE client.thinking.format = "openai_chat" -> <<"chat/completions">>
       [] client.thinking.format = "anthropic" -> <<"v1/messages">>
       [] client.thinking.format = "gemini" -> <<"models", client.model>>

AuthHeaders(format, key) ==
  CASE format = "openai_chat" -> "Authorization" :> key
    [] format = "anthropic" -> "x-api-key" :> key
    [] format = "gemini" -> "x-goog-api-key" :> key

ProtectedKeys(format) ==
  CASE format = "openai_chat" -> {"model", "messages", "stream"}
    [] format = "anthropic" -> {"model", "system", "messages", "stream"}
    [] format = "gemini" -> {"systemInstruction", "contents"}

Skeleton(client, prompt) ==
  CASE client.thinking.format = "openai_chat" ->
         "model" :> client.model @@ "messages" :> <<prompt.system, prompt.user>>
         @@ "stream" :> "true" @@ "temperature" :> "0.2"
    [] client.thinking.format = "anthropic" ->
         "model" :> client.model @@ "system" :> prompt.system @@ "messages" :> <<prompt.user>>
         @@ "stream" :> "true" @@ "temperature" :> "0.2" @@ "max_tokens" :> "8192"
    [] client.thinking.format = "gemini" ->
         "systemInstruction" :> prompt.system @@ "contents" :> <<prompt.user>>
         @@ "generationConfig.temperature" :> "0.2"

FaultyRequestBody(client, prompt, thinks) ==
  LET t == client.thinking
      share == IF t.state # "on" THEN NoShare ELSE IF thinks THEN t.on ELSE t.off IN
  Over(Over(Skeleton(client, prompt), t.body), share)
\* The resident share, then the share for thinking while the switch is on,
\* and the protected fields last.
RequestBody(client, prompt, thinks) ==
  LET skeleton == Skeleton(client, prompt)
      t == client.thinking
      share == IF t.state # "on" THEN NoShare ELSE IF thinks THEN t.on ELSE t.off IN
  Over(Over(Over(skeleton, t.body), share),
       [name \in ProtectedKeys(t.format) |-> skeleton[name]])

NoRequest == [url |-> <<>>, headers |-> <<>>, prompt |-> <<>>, thinks |-> FALSE, body |-> <<>>]

Built(client, key, prompt, thinks) ==
  [url |-> CompleteUrl(client), headers |-> AuthHeaders(client.thinking.format, key),
   prompt |-> prompt, thinks |-> thinks, body |-> RequestBody(client, prompt, thinks)]

\* rectify: without a key no request is made.
RequestIn(client, request, intensity) ==
  IF PairKey(client.keys) = NotSet THEN NoRequest
  ELSE Built(client, PairKey(client.keys), ComposedPrompt(client, request, intensity),
             ThinkingEnabled(client, request, intensity))
RequestOf(client, request) == RequestIn(client, request, Intensity(client, request))
=============================================================================
