------------------------------ MODULE Settings ------------------------------
(***************************************************************************)
(* The settings window over the layer files: a form is loaded, one thing   *)
(* is changed in it, and the whole form is saved, section by section and   *)
(* file by file, after which the engine is asked to adopt the connections. *)
(* A write of a file empties it first; it may fail, and the program may be *)
(* killed, before, between and inside any two, to be started again on what *)
(* is there.  An adoption reads the files, whatever is being written, and  *)
(* hands over recogniser and model one after the other.  The forms are     *)
(* those of app/rust/src/api/connection.rs, rectify.rs and advanced.rs;    *)
(* what a start or an adoption makes of the files is engine_factory.rs.    *)
(***************************************************************************)
EXTENDS ConnectionCards, LlmRequests, OverlayText

CONSTANTS
  StartFiles,  \* the layer files the program may find
  Chips,       \* the vendors whose chip the user presses
  NewKey,      \* a key the user types
  Asked,       \* bound: the requests the engine may make of its model
  Dictionaries, \* bound: the dictionaries a session may be opened with
  MaxSaves,    \* bound: saves
  MaxFaults    \* bound: failed writes and kills

VARIABLES
  files,   \* the shared and the local layer file
  save,    \* the running save: its form, the sections still to write, the
           \* files of the present section still to write, whether the first of
           \* these is open
  ghost,   \* of the last save: its form, what the files loaded to before it, what
           \* they are to load to after it, and the file a write of it left torn;
           \* of the engine's parts: which adoption decided each, and which of
           \* them were raced
  live,    \* the engine: whether it runs, its recogniser and the adapter of it,
           \* its model and the client of it, the two switches of quick mode and
           \* the settings of the plain sections
  adoptions, \* the calls of apply_connection_configs that have not returned
  saves, faults
vars == <<files, save, ghost, live, adoptions, saves, faults>>

(***************************************************************************)
(* The sections without secrets or history of their own: [history],        *)
(* [engine] and [insertion].                                               *)
(***************************************************************************)
PlainDefaults ==
  <<"history", "enabled">> :> "yes" @@ <<"history", "retention_days">> :> 30
  @@ <<"engine", "passage_mode">> :> "yes" @@ <<"engine", "paragraph_silence_ms">> :> 2000
  @@ <<"insertion", "mode">> :> "paste" @@ <<"insertion", "typing_delay_ms">> :> 8
PlainView(fs) == Fields(fs, PlainDefaults)
PlainOf(section) == {path \in DOMAIN PlainDefaults : path[1] = section}
PlainRefused(ask) == ask[<<"history", "retention_days">>] = 0
PlainSaveSteps(section, ask) ==
  <<Write(<<section>>, [n \in {Last(path) : path \in PlainOf(section)} |-> ask[<<section, n>>]],
          {}, "owning")>>

(***************************************************************************)
(* What the files say, and what an edit asks them to say.                  *)
(***************************************************************************)
Views(fs) ==
  [llm |-> LlmView(fs), keys |-> [v \in Vendors |-> KeyOf(fs, v)], asr |-> AsrConfig(fs),
   endpoint |-> Endpoint(AsrConfig(fs)),
   rectify |-> Rectify(fs), plain |-> PlainView(fs)]

Plainly(value) == IF value = Blank THEN NotSet ELSE value

\* A form comes to be what the files say.  The key of a vendor whose field is
\* empty is that of the variable of its slot or its own; a flat variable moves
\* to the slot only together with a flat key.
LlmExpected(fs, form) ==
  LET v == form.vendor
      env == IF Given(SlotKey(fs, v)) THEN OrElse(SlotEnv(fs, v), DefaultEnv(v))
             ELSE ResolvedKeys(fs, v).env IN
  [Views(fs) EXCEPT
     !.llm = [name \in DOMAIN @ |-> form[name]],
     !.keys[v] = IF Given(form.key) THEN form.key ELSE Resolved(NotSet, env)]
AsrExpected(fs, form) ==
  LET shown == Painted(form[Asr("provider")]) \cup AsrFields IN
  [Views(fs) EXCEPT
     !.asr = [path \in DOMAIN @ |-> IF path \in shown THEN Plainly(form[path]) ELSE @[path]],
     !.endpoint = AsrEndpointPreview(form)]

(***************************************************************************)
(* The engine on the files                                                 *)
(***************************************************************************)

FaultyLlmChoice(fs) ==
  IF Given(KeyOf(fs, Vendor(fs))) THEN "real"
  ELSE IF EndpointConfigured(fs) THEN "error" ELSE "demo"
LlmChoice(fs) ==
  IF Given(KeyOf(fs, Vendor(fs))) THEN "real"
  ELSE IF CarriesCredentials(AsrConfig(fs)) \/ EndpointConfigured(fs) THEN "error" ELSE "demo"

Parts == {"asr", "llm"}
NoClient == [vendor |-> NotSet]
Down == [up |-> FALSE, asr |-> "none", adapter |-> NoAdapter, llm |-> "none", client |-> NoClient,
         quick |-> <<"no", "yes">>,
         plain |-> PlainDefaults]
QuickOf(fs) == <<Knob(fs, Quick("enabled")), Knob(fs, Quick("rectify"))>>

\* create_engine: quick mode's switches, the recogniser, the model; an error
\* of any of them and no engine is made.
Launch ==
  /\ ~live.up /\ save.form = "none"
  /\ AsrLoads(files) /\ LlmLoads(files)
  /\ AsrProvider(AsrConfig(files)) # "error" /\ LlmChoice(files) # "error"
  /\ live' = [up |-> TRUE, asr |-> AsrProvider(AsrConfig(files)),
              adapter |-> Adapter(AsrConfig(files)), llm |-> LlmChoice(files),
              client |-> IF LlmChoice(files) = "real" THEN Client(files) ELSE NoClient,
              quick |-> QuickOf(files), plain |-> PlainView(files)]
  /\ ghost' = [ghost EXCEPT !.by = [part \in Parts |-> 0], !.raced = {}]
  /\ UNCHANGED <<files, save, adoptions, saves, faults>>

Adoptable(fs) ==
  /\ AsrLoads(fs) /\ LlmLoads(fs)
  /\ AsrProvider(AsrConfig(fs)) # "error" /\ LlmChoice(fs) = "real"

\* rebuild_connections builds both before either is handed over, the recogniser
\* from one reading of the files and the model from a later one, whatever a form
\* is writing.  A refusal leaves the old pair, and the demo cannot be adopted; the
\* third reading, in llm_choice, only chooses between two refusals.
Adoption(n) == [n |-> n, at |-> "due", torn |-> FALSE, asr |-> "none", adapter |-> NoAdapter,
                client |-> NoClient]

\* The parts of the engine an adoption has decided.  A part is raced when this was
\* done from a file that was being written, or after an adoption asked for later.
Decides(a, parts, misread) ==
  ghost' = [ghost EXCEPT
    !.by = [part \in Parts |-> IF part \in parts THEN Max({@[part], a.n}) ELSE @[part]],
    !.raced = (@ \ parts) \cup {part \in parts : misread \/ ghost.by[part] > a.n}]

AdoptionGoes(i, a) == adoptions' = [adoptions EXCEPT ![i] = a]
AdoptionEnds(i) == adoptions' = RemoveAt(adoptions, i)
AdoptionRefused(i) ==
  LET a == adoptions[i]
      misread == a.torn \/ save.open IN
  /\ AdoptionEnds(i)
  /\ Decides(a, {part \in Parts : misread /\ ghost.by[part] < a.n}, misread)
  /\ UNCHANGED live

FaultyReadsAsr(i) ==
  LET a == [adoptions[i] EXCEPT !.at = "asr", !.torn = save.open,
                                !.asr = AsrProvider(AsrConfig(files)),
                                !.adapter = Adapter(AsrConfig(files))] IN
  /\ adoptions[i].at = "due"
  /\ IF AsrLoads(files) /\ a.asr # "error"
     THEN /\ AdoptionGoes(i, a)
          /\ live' = [live EXCEPT !.asr = a.asr, !.adapter = a.adapter]
          /\ UNCHANGED ghost
     ELSE AdoptionRefused(i)
ReadsAsr(i) ==
  /\ adoptions[i].at = "due"
  /\ IF AsrLoads(files) /\ AsrProvider(AsrConfig(files)) # "error"
     THEN /\ AdoptionGoes(i, [adoptions[i] EXCEPT !.at = "asr", !.torn = save.open,
                                !.asr = AsrProvider(AsrConfig(files)),
                                !.adapter = Adapter(AsrConfig(files))])
          /\ UNCHANGED <<ghost, live>>
     ELSE AdoptionRefused(i)
ReadsLlm(i) ==
  /\ adoptions[i].at = "asr"
  /\ IF LlmLoads(files) /\ LlmChoice(files) = "real"
     THEN /\ AdoptionGoes(i, [adoptions[i] EXCEPT !.at = "built", !.torn = @ \/ save.open,
                                !.client = Client(files)])
          /\ UNCHANGED <<ghost, live>>
     ELSE AdoptionRefused(i)

\* The hand-over is two calls, set_asr_provider and set_llm_provider.
SetsAsr(i) ==
  LET a == adoptions[i] IN
  /\ a.at = "built"
  /\ live' = [live EXCEPT !.asr = a.asr, !.adapter = a.adapter]
  /\ AdoptionGoes(i, [a EXCEPT !.at = "half"])
  /\ Decides(a, {"asr"}, a.torn)
SetsLlm(i) ==
  LET a == adoptions[i] IN
  /\ a.at = "half"
  /\ live' = [live EXCEPT !.llm = "real", !.client = a.client]
  /\ AdoptionEnds(i)
  /\ Decides(a, {"llm"}, a.torn)

Adopts ==
  /\ \E i \in DOMAIN adoptions : ReadsAsr(i) \/ ReadsLlm(i) \/ SetsAsr(i) \/ SetsLlm(i)
  /\ UNCHANGED <<files, save, saves, faults>>

(***************************************************************************)
(* Saving                                                                  *)
(***************************************************************************)

\* On to the next section that changes a file, once those of the present one are
\* written: its files are read and the edits of them made.  The model's user saves
\* one form at a time, so nothing is written between the reading and the writes.
Section(fs, s) ==
  LET changing == {n \in DOMAIN s.todo : Writes(fs, s.todo[n]) # <<>>}
      at(n) == [s EXCEPT !.todo = SubSeq(@, n + 1, Len(@)), !.pending = Writes(fs, s.todo[n])] IN
  CASE s.pending # <<>> -> s
    [] s.pending = <<>> /\ changing = {} -> [s EXCEPT !.todo = <<>>]
    [] OTHER -> at(Min(changing))

Rest == [form |-> "none", todo |-> <<>>, pending |-> <<>>, open |-> FALSE]
Saves(form, steps, expected) ==
  /\ save' = Section(files, [Rest EXCEPT !.form = form, !.todo = steps])
  /\ ghost' = [ghost EXCEPT !.before = Views(files), !.after = expected, !.torn = "none",
                             !.form = form]
  /\ saves' = saves + 1
  /\ UNCHANGED <<files, live, adoptions, faults>>

\* (A bound: after a fault the user saves the same card again, or nothing.)
Idle(form) == live.up /\ save.form = "none" /\ saves < MaxSaves /\ (faults = 0 \/ form = ghost.form)

\* What is typed in the place of a key.  (A bound: keys are typed or emptied in the
\* first save, and in one repeated after a fault.)
TypedKeys == IF saves = 0 \/ faults > 0 THEN {NewKey, Blank} ELSE {}

\* The connection card: as it stands, with the switch off, another chip
\* pressed, or the key typed over or emptied.
LlmForms ==
  LET form == LlmForm(files)
      chips == {Stamped(files, form, v) : v \in Chips} IN
  {form, [form EXCEPT !.switch = "off"]} \cup chips
  \cup {[chip EXCEPT !.key = k] : chip \in {c \in chips : c.vendor \in {form.vendor, "openai"}},
                                 k \in TypedKeys}
SetLlmConnection ==
  /\ Idle("llm") /\ AsrLoads(files) /\ LlmLoads(files)
  /\ \E form \in LlmForms :
       LET ask == LlmEdit(files, form) IN
       /\ ~LlmRefused(files, ask)
       /\ Saves("llm", LlmSaveSteps(files, ask), LlmExpected(files, form))

\* The recogniser's card: another chip, another host, and a secret on show
\* typed over or emptied.
AsrForms ==
  LET chips == {ApplyAsrProvider(AsrForm(files), p) : p \in {"aliyun", "volcengine", "tencent", "openai"}} IN
  chips \cup {[AsrForm(files) EXCEPT ![Asr("base_url")] = b] : b \in {Blank, "wss://own"}}
  \cup UNION {{[chip EXCEPT ![path] = k] : path \in Painted(chip[Asr("provider")]), k \in TypedKeys} :
              chip \in {c \in chips : c[Asr("provider")] # "openai"}}
SetAsrConnection ==
  /\ Idle("asr") /\ AsrLoads(files) /\ LlmLoads(files)
  /\ \E form \in AsrForms :
       LET ask == AsrEdit(files, form) IN
       /\ ~AsrRefused(ask)
       /\ Saves("asr", AsrSaveSteps(ask), AsrExpected(files, form))

\* The rectify card, one knob changed.
RectifyAsks ==
  LET card == Rectify(files) IN
  {[card EXCEPT ![Full("thinking_policy")] = p] : p \in {"always", "placeholders"}}
  \cup {[card EXCEPT ![Light("max_chars")] = 41], [card EXCEPT ![Quick("enabled")] = "yes"]}
  \cup {[card EXCEPT ![Light("extra_directive")] = d] : d \in {NotSet, "briefly"}}
SetRectifyBehavior ==
  /\ Idle("rectify") /\ LlmLoads(files)
  /\ \E ask \in RectifyAsks :
       /\ ~RectifyRefused(files, ask)
       /\ Saves("rectify", RectifySaveSteps(files, ask), [Views(files) EXCEPT !.rectify = ask])

SetPlain ==
  /\ Idle("plain") /\ LayersLoad(files)
  /\ LET card == PlainView(files) IN
     \E ask \in {[card EXCEPT ![<<"engine", "passage_mode">>] = "no"],
                 [card EXCEPT ![<<"insertion", "mode">>] = "typing"],
                 [card EXCEPT ![<<"history", "retention_days">>] = 7]} :
       /\ ~PlainRefused(ask)
       /\ \E section \in {"engine", "insertion", "history"} :
            /\ \E path \in PlainOf(section) : ask[path] # card[path]
            /\ Saves("plain", PlainSaveSteps(section, ask), [Views(files) EXCEPT !.plain = ask])

\* A write is one call of fs::write, which empties the file before it writes.
OpensFile ==
  /\ save.pending # <<>> /\ ~save.open
  /\ LET layer == Head(save.pending).layer IN
     /\ files' = [files EXCEPT ![layer] = OnlySections(@, {})]
     /\ ghost' = [ghost EXCEPT !.torn = layer]
  /\ save' = [save EXCEPT !.open = TRUE]
  /\ UNCHANGED <<live, adoptions, saves, faults>>
WritesFile ==
  /\ save.open
  /\ LET w == Head(save.pending) IN files' = [files EXCEPT ![w.layer] = w.file]
  /\ save' = Section(files', [save EXCEPT !.pending = Tail(@), !.open = FALSE])
  /\ ghost' = [ghost EXCEPT !.torn = "none"]
  /\ UNCHANGED <<live, adoptions, saves, faults>>

FaultyNeedsAdoption(form) == form \in {"llm", "asr"}
NeedsAdoption(form) == form # "plain"

\* The save is through: the form shows what the files load to, the rectify
\* card hands quick mode's switches over and a plain section its values, and
\* after a connection or rectify card the connections are adopted next.
Through == save.form # "none" /\ save.todo = <<>> /\ save.pending = <<>>
Saved ==
  /\ Through
  /\ save' = Rest
  /\ adoptions' = adoptions \o (IF NeedsAdoption(save.form) THEN <<Adoption(saves)>> ELSE <<>>)
  /\ live' = CASE save.form = "rectify" -> [live EXCEPT !.quick = QuickOf(files)]
               [] save.form = "plain" -> [live EXCEPT !.plain = PlainView(files)]
               [] OTHER -> live
  /\ UNCHANGED <<files, ghost, saves, faults>>

\* What an open file may hold when the writing ends early: nothing, a text that does
\* not parse, or the tables of one section, whichever came first in it.  (Bounds: the
\* section is a connection's, which are the ones an adoption reads, and a cut inside a
\* section's tables that still parses is not modelled.)
CutShort ==
  IF save.open
  THEN LET w == Head(save.pending)
           first == {{}} \cup {{section} : section \in Sections(w.file) \cap {"llm", "asr"}} IN
       \E cut \in {Malformed} \cup {OnlySections(w.file, written) :
                                     written \in first \ {Sections(w.file)}} :
          files' = [files EXCEPT ![w.layer] = cut]
  ELSE UNCHANGED files

WriteFails ==
  /\ save.pending # <<>> /\ faults < MaxFaults
  /\ CutShort /\ save' = Rest /\ faults' = faults + 1
  /\ UNCHANGED <<ghost, live, adoptions, saves>>

Killed ==
  /\ live.up /\ faults < MaxFaults
  /\ CutShort /\ save' = Rest /\ faults' = faults + 1
  /\ live' = Down /\ adoptions' = <<>>
  /\ UNCHANGED <<ghost, saves>>

Init ==
  /\ files \in StartFiles
  /\ save = Rest
  /\ ghost = [before |-> Views(files), after |-> Views(files), torn |-> "none", form |-> "none",
              by |-> [part \in Parts |-> 0], raced |-> {}]
  /\ live = Down /\ adoptions = <<>> /\ saves = 0 /\ faults = 0

Next ==
  \/ Launch \/ Adopts
  \/ SetLlmConnection \/ SetAsrConnection \/ SetRectifyBehavior \/ SetPlain
  \/ OpensFile \/ WritesFile \/ Saved \/ WriteFails \/ Killed

Spec == Init /\ [][Next]_vars

(***************************************************************************)
(* Properties                                                              *)
(***************************************************************************)

\* A save that went through has written what the form held: every form loads,
\* over both files, to the values asked for, and no value of another form, and
\* no key of another vendor, has changed.  The first save of files of an
\* earlier version is held to the requests those files made.  The endpoint is
\* the one that was previewed, and an overlay comes back as it was typed.
SavedIsLoaded ==
  /\ OverlaysReadBack
  /\ Through => Views(files) = ghost.after

\* Between the writes of a save, and after one that was cut short between two of
\* them, no key is lost or another vendor's: the key every vendor authenticates with
\* is the one it had or the one the save is to give it, the flat key of an earlier
\* version included, and so is every secret of the recogniser.  A write cut short
\* inside a file takes the keys of that file with it; the secrets of the recogniser
\* are then lost only if it was the local one.
KeysSurvive ==
  /\ ghost.torn = "none" =>
       \A v \in Vendors : KeyOf(files, v) \in {ghost.before.keys[v], ghost.after.keys[v]}
  /\ ghost.torn # "local" =>
       \A path \in AsrSecrets :
         Value(files, path, NotSet) \in {ghost.before.asr[path], ghost.after.asr[path]}

\* Where a request of the model goes and how it is written.
Whereabouts(card) == <<card.vendor, card.base_url, card.model, card.format>>


\* Real transcripts never meet the scripted demo: whatever was saved, cut short or
\* torn, and however the readings of the adoptions fall between the writes, a
\* recogniser of a vendor runs with a model of a vendor.  Between the two calls of a
\* hand-over, which sets the recogniser first, it need not: there the model that is
\* to be handed over is already built.
RealNeverMeetsDemo ==
  live.up /\ live.asr # "mic" =>
    live.llm = "real" \/ \E i \in DOMAIN adoptions : adoptions[i].at = "half"

\* A request of the engine over what the cards hold: to the host, with the
\* model and with the key of the connection's vendor and no other one; the
\* prompt whole whatever the user's fields name; fields of thinking only while
\* the switch is on, those of the tier's policy and never the share for thinking
\* in quick mode; and a prompt of one voice about placeholders.
Obeys(q, r, card, knobs, key) ==
  LET light == q.quick \/ (knobs[Light("enabled")] = "yes" /\ q.length < knobs[Light("max_chars")])
      of(name) == knobs[IF light THEN Light(name) ELSE Full(name)]
      share == IF r.thinks THEN card.on ELSE card.off
      prompts == IF card.format = "gemini" THEN {"systemInstruction", "contents"} ELSE {"system", "messages"}
      own == ProtectedKeys(card.format) IN
  /\ Head(r.url) = card.base_url /\ {r.headers[h] : h \in DOMAIN r.headers} = {key}
  /\ IF card.format = "gemini" THEN Last(r.url) = card.model
     ELSE r.body["model"] = card.model /\ r.body["stream"] = "true"
  /\ {r.body[name] : name \in prompts \cap DOMAIN r.body} =
       IF card.format = "openai_chat" THEN {<<r.prompt.system, r.prompt.user>>}
       ELSE {r.prompt.system, <<r.prompt.user>>}
  /\ \A name \in (DOMAIN card.on \cup DOMAIN card.off) \ (own \cup DOMAIN card.body) :
       name \in DOMAIN r.body =>
         card.switch = "on" /\ name \in DOMAIN share /\ r.body[name] = share[name]
  /\ card.switch = "on" => \A name \in DOMAIN share \ own : r.body[name] = share[name]
  /\ \A name \in DOMAIN card.body \ (own \cup DOMAIN card.on \cup DOMAIN card.off) :
       r.body[name] = card.body[name]
  /\ CASE q.quick \/ of("thinking_policy") = "off" -> ~r.thinks
       [] ~q.quick /\ of("thinking_policy") = "always" -> r.thinks
       [] OTHER -> r.thinks <=> "header tail" \in ToSet(r.prompt.system)
  /\ light <=> "full" \notin ToSet(r.prompt.system)
  /\ OneVoice([q EXCEPT !.prefill = IF q.quick THEN @ ELSE of("prefill") = "yes"], r.prompt)

\* The words of a dictionary that travel, in their order and whole, within the
\* limits of each vendor, and none left out that would still have fitted.
DictionaryRides ==
  \A terms \in Dictionaries :
    LET listed == HotwordList(terms)
        capped == CappedHotwords(terms)
        chars(s) == FoldLeft(LAMBDA sum, term : sum + term.chars, 0, s) IN
    /\ \A words \in {listed, capped} :
         /\ LET kept == SelectSeq(terms, LAMBDA term : term \in ToSet(words)) IN
            Len(words) <= Len(kept) /\ words = SubSeq(kept, 1, Len(words))
         /\ \A term \in ToSet(words) : term.chars > 0
    /\ Len(listed) <= HOTWORD_MAX_TERMS
    /\ \A term \in ToSet(terms) \ ToSet(listed) :
         term.chars \notin 1..HOTWORD_MAX_TERM_CHARS \/ Len(listed) = HOTWORD_MAX_TERMS
    /\ chars(capped) <= HOTWORD_CONTEXT_CHARS
    /\ \A term \in ToSet(terms) \ ToSet(capped) :
         term.chars = 0 \/ chars(capped) + term.chars > HOTWORD_CONTEXT_CHARS

Values(f) == {f[k] : k \in DOMAIN f}

Signed(url, decoded, config) ==
  LET key == config[Sub("tencent", "secret_key")] IN
  /\ PercentDecoded(url.query["signature"]) = HmacSha1(<<url.path, decoded>>, key)
  /\ decoded["secretid"] = config[Sub("tencent", "secret_id")]
  /\ \A name \in DOMAIN decoded \ {"secretid"} : decoded[name] # key

\* An attempt of the recogniser as its vendor sees it: at the endpoint of the
\* card, with the credentials of the card's provider, a signature that the
\* vendor finds again in the values it decodes, no secret in the open, and
\* nothing a single-use value of which was used in an earlier attempt.
AdmittedAfter(earlier, attempt, kind, config) ==
  /\ kind = config[Asr("provider")] /\ attempt.url.path = Endpoint(config)
  /\ CASE kind = "aliyun" -> Values(attempt.headers) = {CommonKey(config)}
       [] kind = "volcengine" ->
            /\ {config[path] : path \in Triple(config)} \subseteq Values(attempt.headers)
            /\ earlier.headers["X-Api-Connect-Id"] # attempt.headers["X-Api-Connect-Id"]
       [] kind = "tencent" ->
            /\ Signed(attempt.url, [name \in DOMAIN attempt.url.query \ {"signature"} |->
                                     PercentDecoded(attempt.url.query[name])], config)
            /\ \A name \in {"voice_id", "nonce", "signature"} :
                 earlier.url.query[name] # attempt.url.query[name]
Admitted(adapter, config) ==
  AdmittedAfter(Stream(adapter, <<>>, 1), Stream(adapter, <<>>, 2), adapter.kind, config)

\* The fidelity suite asks the same model in the same way for an utterance,
\* without a word of the user's own in the prompt.
UserText == {"light extra", "quick extra"} \cup
  {name \o under : name \in {"global", "global reminder", "style", "style reminder"},
                  under \in {"", " under placeholders"}}
AsksForEval(eval, request) ==
  LET sections(r) == ToSet(r.prompt.system) \cup ToSet(r.prompt.user) IN
  /\ \A part \in {"url", "headers", "thinks"} : eval[part] = request[part]
  /\ sections(eval) = (sections(request) \ UserText) \cup {"default register"}

\* From a card to the wire: once everything saved is adopted, every request the
\* engine makes of its model and every connection of its recogniser is the one
\* the cards were saved with, however saves and adoptions of several cards
\* overlapped, and the dictionary rides along within the vendor's limits.  Excepted
\* are a part of the engine that an adoption decided after one asked for later, and
\* one decided from a file that was being written.
RequestsAsSaved ==
  /\ DictionaryRides
  /\ live.up /\ adoptions = <<>> /\ save.form = "none" /\ faults = 0 /\ ghost.raced = {} /\ Adoptable(files) =>
       LET said == ghost.after IN
       /\ \A q \in Asked :
            LET eval == [q EXCEPT !.global = NotSet, !.style = NotSet] IN
            /\ Obeys(q, RequestOf(live.client, q), said.llm, said.rectify, said.keys[said.llm.vendor])
            /\ AsksForEval(RequestOf(ForEval(live.client), eval), RequestOf(live.client, q))
       /\ live.asr # "mic" => Admitted(live.adapter, said.asr)
=============================================================================
