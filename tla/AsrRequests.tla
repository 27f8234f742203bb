---------------------------- MODULE AsrRequests ----------------------------
(***************************************************************************)
(* What a recogniser says when a stream is opened and again at every       *)
(* reconnect, given the [asr] settings it was built on and the dictionary  *)
(* of the session: the URL, the headers and the opening message of the     *)
(* three vendors (crates/aliyun, crates/volcengine, crates/tencent) over   *)
(* the connection of crates/asr/src/transport.rs.                          *)
(*                                                                         *)
(* A term of the dictionary is its word and the number of its characters   *)
(* once trimmed, none for a blank.  The nonce and the UUID of the n-th     *)
(* attempt are tagged with n.                                              *)
(***************************************************************************)
EXTENDS AsrSettings, FiniteSetsExt

CONNECT_TIMEOUT == 10
KEEPALIVE_EVERY == 5

(***************************************************************************)
(* The dictionary                                                          *)
(***************************************************************************)

HOTWORD_MAX_TERMS == 128
HOTWORD_MAX_TERM_CHARS == 30
HOTWORD_CONTEXT_CHARS == 100

HotwordList(terms) ==
  LET fit == SelectSeq(terms, LAMBDA term : term.chars \in 1..HOTWORD_MAX_TERM_CHARS) IN
  SubSeq(fit, 1, Min({Len(fit), HOTWORD_MAX_TERMS}))

\* The terms in their order, each one kept that Fits what is spent before it.
Kept(terms, Fits(_, _)) ==
  LET spent[i \in 0..Len(terms)] ==
        IF i = 0 THEN 0
        ELSE LET before == spent[i - 1] IN
             before + IF Fits(before, terms[i].chars) THEN terms[i].chars ELSE 0
      kept == {i \in DOMAIN terms : spent[i] # spent[i - 1]} IN
  [i \in 1..Cardinality(kept) |-> terms[SetToSortSeq(kept, <)[i]]]

FaultyCapped(terms) == Kept(terms, LAMBDA used, cost : used <= HOTWORD_CONTEXT_CHARS)
\* A term that no longer fits is left out, and a shorter one behind it may
\* still be let in; a blank one costs nothing and is none.
CappedHotwords(terms) == Kept(terms, LAMBDA used, cost : used + cost <= HOTWORD_CONTEXT_CHARS)

(***************************************************************************)
(* Tencent: everything rides the signed query of the URL                   *)
(***************************************************************************)

\* What is made anew for an attempt; two of them may fall in the same second.
Fresh(n) == [now |-> "clock", nonce |-> <<"nonce", n>>, voice |-> <<"uuid", n>>]

\* What the signature covers: the endpoint and the raw values.
Query(seed, terms, fresh) ==
  "engine_model_type" :> seed.engine_model_type @@ "expired" :> <<fresh.now, "+3600">>
  @@ "needvad" :> "1" @@ "nonce" :> fresh.nonce @@ "secretid" :> seed.secret_id
  @@ "timestamp" :> fresh.now @@ "vad_silence_time" :> "500" @@ "voice_format" :> "1"
  @@ "voice_id" :> fresh.voice
  @@ IF HotwordList(terms) = <<>> THEN <<>> ELSE "hotword_list" :> HotwordList(terms)

\* Two messages or two keys never share a code.
HmacSha1(source, secret_key) == <<"hmac", source, secret_key>>

PercentEncoded(value) == <<"%", value>>
PercentDecoded(value) == value[2]

FaultySignedUrl(seed, terms, fresh) ==
  LET query == Query(seed, terms, fresh)
      sent == [name \in DOMAIN query |-> PercentEncoded(query[name])] IN
  [path |-> seed.endpoint,
   query |-> sent @@ "signature" :> PercentEncoded(HmacSha1(<<seed.endpoint, sent>>, seed.secret_key))]
SignedUrl(seed, terms, fresh) ==
  LET query == Query(seed, terms, fresh)
      signature == HmacSha1(<<seed.endpoint, query>>, seed.secret_key) IN
  [path |-> seed.endpoint,
   query |-> [name \in DOMAIN query |-> PercentEncoded(query[name])]
             @@ "signature" :> PercentEncoded(signature)]

UrlBuilder(seed, terms, n) == SignedUrl(seed, terms, Fresh(n))

(***************************************************************************)
(* The adapters, built on the settings, and a stream's n-th attempt        *)
(***************************************************************************)

\* with_dynamic_url: URL and headers are built anew for every attempt.
Attempt(url, headers, opening, keepalive) ==
  [url |-> url, headers |-> headers, opening |-> opening, keepalive |-> keepalive,
   budget |-> CONNECT_TIMEOUT]

NoAdapter == [kind |-> "none"]

AliyunAsr(config) ==
  [kind |-> "aliyun", endpoint |-> Endpoint(config), api_key |-> CommonKey(config),
   language |-> config[Asr("language")]]

\* session.update; a blank term rides in the corpus as it is.
SessionUpdate(adapter, terms) ==
  [language |-> adapter.language, format |-> "pcm", sample_rate |-> 16000, silence |-> 400,
   words |-> terms]
AliyunStream(adapter, terms, n) ==
  Attempt([path |-> adapter.endpoint, query |-> <<>>], "Authorization" :> adapter.api_key,
          SessionUpdate(adapter, terms), NotSet)

VolcengineAsr(config) ==
  [kind |-> "volcengine", endpoint |-> Endpoint(config),
   app_id |-> config[Sub("volcengine", "app_id")],
   access_key |-> config[Sub("volcengine", "access_key")],
   resource_id |-> config[Sub("volcengine", "resource_id")]]

FullRequest(terms) ==
  [model_name |-> "bigmodel", format |-> "pcm", sample_rate |-> 16000, show_utterances |-> TRUE,
   words |-> CappedHotwords(terms)]
ConnectHeaders(adapter, n) ==
  "X-Api-App-Key" :> adapter.app_id @@ "X-Api-Access-Key" :> adapter.access_key
  @@ "X-Api-Resource-Id" :> adapter.resource_id @@ "X-Api-Connect-Id" :> Fresh(n).voice
VolcengineStream(adapter, terms, n) ==
  Attempt([path |-> adapter.endpoint, query |-> <<>>], ConnectHeaders(adapter, n),
          FullRequest(terms), KEEPALIVE_EVERY)

TencentAsr(config) ==
  [kind |-> "tencent", endpoint |-> Endpoint(config),
   secret_id |-> config[Sub("tencent", "secret_id")],
   secret_key |-> config[Sub("tencent", "secret_key")],
   engine_model_type |-> config[Asr("model")]]
TencentStream(adapter, terms, n) ==
  Attempt(UrlBuilder(adapter, terms, n), <<>>, NotSet, KEEPALIVE_EVERY)

\* asr_provider: the adapter of the settings' provider; the microphone alone
\* has none.
Adapter(config) ==
  CASE AsrProvider(config) = "aliyun" -> AliyunAsr(config)
    [] AsrProvider(config) = "volcengine" -> VolcengineAsr(config)
    [] AsrProvider(config) = "tencent" -> TencentAsr(config)
    [] OTHER -> NoAdapter

Stream(adapter, terms, n) ==
  CASE adapter.kind = "aliyun" -> AliyunStream(adapter, terms, n)
    [] adapter.kind = "volcengine" -> VolcengineStream(adapter, terms, n)
    [] adapter.kind = "tencent" -> TencentStream(adapter, terms, n)
=============================================================================
