------------------------------- MODULE Prompt -------------------------------
(***************************************************************************)
(* The chat prompt of a rectify request (crates/llm/src/prompt.rs): which  *)
(* of its fixed sections the system and the user message are made of, and  *)
(* in which order.  A section is its name; the words in it, and those of a *)
(* directive or a term, are left out.                                      *)
(*                                                                         *)
(* A request has slots, the set of the census of its transcript; prefill   *)
(* and quick; terms; and the texts of its two directives.                  *)
(***************************************************************************)
EXTENDS LayerFiles

When(condition, section) == IF condition THEN <<section>> ELSE <<>>

\* The sections a prompt without placeholders is made of.
PlainSections ==
  {"header", "fidelity", "transforms", "self-correction", "verbatim", "numerals",
   "light touch", "full", "default register", "global", "global reminder",
   "style", "style reminder"}

\* The sections written for placeholders, the variants of plain ones included.
PinnedSections ==
  {"header tail", "placeholder rule", "placeholder rule, off", "light touch, absorbing",
   "global under placeholders", "global reminder under placeholders",
   "style under placeholders", "style reminder under placeholders",
   "census", "placeholder reminder", "placeholder reminder, off"}

Pins(request) == request.slots # {}
Inline(request) == Pins(request) /\ request.prefill
PassThrough(request) == Pins(request) /\ ~request.prefill

Variant(request, section) == IF Pins(request) THEN section \o " under placeholders" ELSE section

FaultyIntensitySection(request, intensity) ==
  CASE intensity = "full" -> "full"
    [] intensity = "light" /\ Pins(request) -> "light touch, absorbing"
    [] OTHER -> "light touch"
\* Light touch forbids to add or to drop anything: where the model is to
\* absorb, a variant says that absorbing is neither.
IntensitySection(request, intensity) ==
  CASE intensity = "full" -> "full"
    [] intensity = "light" /\ Inline(request) -> "light touch, absorbing"
    [] OTHER -> "light touch"

System(request, intensity, extra) ==
  <<"header">> \o When(Pins(request), "header tail") \o <<"fidelity">>
  \o When(Inline(request), "placeholder rule")
  \o When(PassThrough(request), "placeholder rule, off")
  \o <<"transforms", "self-correction", "verbatim", "numerals", IntensitySection(request, intensity)>>
  \o When(intensity = "light" /\ Given(extra), IF request.quick THEN "quick extra" ELSE "light extra")
  \o When(request.global # NotSet, Variant(request, "global"))
  \o <<IF request.style = NotSet THEN "default register" ELSE Variant(request, "style")>>

User(request) ==
  <<"transcript">> \o When(Inline(request), "census") \o When(request.terms # {}, "terms")
  \o When(request.global # NotSet, Variant(request, "global reminder"))
  \o When(request.style # NotSet, Variant(request, "style reminder"))
  \o When(Inline(request), "placeholder reminder")
  \o When(PassThrough(request), "placeholder reminder, off")

Compose(request, intensity, extra) ==
  [system |-> System(request, intensity, extra), user |-> User(request)]

-----------------------------------------------------------------------------
Before(sections, a, b) ==
  \A i, j \in DOMAIN sections : sections[i] = a /\ sections[j] = b => i < j

\* A prompt speaks with one voice of placeholders: without any, none of the
\* sections written for them is in it; with some, every section that ranks a
\* rule excepts theirs, rule, intensity and reminder are those of one form, and
\* the rule comes right under fidelity and is repeated last of all.
OneVoice(request, prompt) ==
  LET all == ToSet(prompt.system) \cup ToSet(prompt.user)
      ranked == {"global", "global reminder", "style", "style reminder"}
      rule == {"placeholder rule", "placeholder rule, off"}
      last == {"placeholder reminder", "placeholder reminder, off"} IN
  IF request.slots = {} THEN all \cap PinnedSections = {}
  ELSE /\ all \cap ranked = {} /\ "header tail" \in all
       /\ all \cap rule = {IF request.prefill THEN "placeholder rule" ELSE "placeholder rule, off"}
       /\ "placeholder rule" \in all
            <=> {"placeholder reminder", "census"} \subseteq all
       /\ "light touch, absorbing" \in all => "placeholder rule" \in all
       /\ ~({"light touch", "placeholder rule"} \subseteq all)
       /\ Last(prompt.user) \in last
       /\ \A r \in rule : Before(prompt.system, "fidelity", r) /\ Before(prompt.system, r, "transforms")
=============================================================================
