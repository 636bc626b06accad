------------------------------ MODULE AgentCosts -----------------------------
(***************************************************************************)
(* What the other agents' requests cost (calculate_*_cost, missing_*_      *)
(* pricing and the candidates in rust/adapters/<agent>/src/parser.rs): the *)
(* cost the agent wrote down or that of the tokens, by the first of        *)
(* several names of the model that has a price, and what is told of        *)
(* models that have none.                                                  *)
(*                                                                         *)
(* A name is a prefix and a model; a table gives the price of a token by   *)
(* name.  Prices are the same for tokens of every kind.                    *)
(***************************************************************************)
EXTENDS Integers, SequencesExt, FiniteSetsExt

CONSTANTS
    Normalized,     \* per model: its name in lower case, or in the spelling of the prices
    ZaiModels,      \* is_zai_model
    Cutoff,         \* KIMI_FOR_CODING_K2_6_CUTOFF_MS
    DefaultModel,   \* DEFAULT_MODEL
    None

Sum(usage) == usage.input + usage.output + usage.create + usage.read + usage.extra

Known(table, names) == SelectSeq(names, LAMBDA name : name \in DOMAIN table)

Prefixed(prefixes, model) == [i \in DOMAIN prefixes |-> <<prefixes[i], model>>]

----------------------------------------------------------------------------
(***************************************************************************)
(* The names a model may have its price under, in the order they are tried.*)
(***************************************************************************)
\* open_code_model_candidates.
OpenCodeNames(r) ==
    LET names(prefix) == IF Normalized[r.model] = r.model THEN << <<prefix, r.model>> >>
                         ELSE << <<prefix, r.model>>, <<prefix, Normalized[r.model]>> >>
    IN  names("") \o (IF r.provider = "unknown" THEN <<>> ELSE names(r.provider))

\* model_candidates of Kilo and Hermes.
ProviderFirst(r, own) ==
    Prefixed(IF r.provider \in own THEN <<"">> ELSE <<r.provider, "">>, r.model)

\* provider_prefixes of Droid.
DroidPrefixes(provider) ==
    CASE provider = "unknown" -> <<>>
      [] provider = "google" -> <<"google", "vertex_ai", "openrouter">>
      [] OTHER -> <<provider, "openrouter">>

\* calculate_goose_cost, calculate_codebuff_cost.
ProviderLast(r, own) ==
    Prefixed(IF r.provider \in own THEN <<"">> ELSE <<"", r.provider>>, r.model)

\* pricing_model of ZCode: any name the user has set a price for, and the table's prices for
\* models of Z.ai's only.
ZcodeNames(r, overrides) ==
    LET plain == << <<"", r.model>>, <<"", Normalized[r.model]>> >>
        zai == IF r.provider = "zai" \/ (r.provider = None /\ r.model \in ZaiModels)
               THEN << <<"zai", r.model>>, <<"zai", Normalized[r.model]>> >> ELSE <<>>
    IN  Known(overrides, plain \o zai)
            \o (IF r.provider \in {None, "zai"} THEN zai \o plain ELSE <<>>)

\* model_candidates of Grok, in alphabetical order.
GrokNames(r) ==
    (IF Normalized[r.model] = r.model THEN <<>> ELSE << <<"", Normalized[r.model]>> >>)
        \o << <<"", r.model>>, <<"xai", r.model>> >>

\* model_candidates of Kimi: the model that its default stood for at the time first.
KimiNames(r) ==
    (IF r.model # DefaultModel THEN <<>>
     ELSE << <<"moonshot", IF r.at < Cutoff THEN "k2.5" ELSE "k2.6">> >>)
        \o Prefixed(<<"moonshot", "kimi", "">>, r.model)

\* model_candidates of Gemini and Antigravity: Google's, if the provider is.
GooglePrefixes == <<"google", "gemini", "vertex_ai", "openrouter">>

Names(format, r, overrides) ==
    CASE r.model = None -> <<>>
      [] r.model # None /\ format = "opencode" -> OpenCodeNames(r)
      [] r.model # None /\ format = "kilo" -> ProviderFirst(r, {"unknown", "kilo", None})
      [] r.model # None /\ format = "hermes" -> ProviderFirst(r, {"hermes"})
      [] r.model # None /\ format = "droid" -> Prefixed(<<"">> \o DroidPrefixes(r.provider), r.model)
      [] r.model # None /\ format = "goose" -> ProviderLast(r, {"goose"})
      [] r.model # None /\ format = "codebuff" -> ProviderLast(r, {"unknown"})
      [] r.model # None /\ format = "zcode" -> ZcodeNames(r, overrides)
      [] r.model # None /\ format = "grok" -> GrokNames(r)
      [] r.model # None /\ format = "kimi" -> KimiNames(r)
      [] r.model # None /\ format = "qwen" -> Prefixed(<<"", "qwen", "alibaba">>, r.model)
      [] r.model # None /\ format \in {"gemini", "gemini document"} ->
            Prefixed(Append(GooglePrefixes, ""), r.model)
      [] r.model # None /\ format = "antigravity" ->
            Prefixed(<<"">> \o (IF r.provider = "google" THEN GooglePrefixes ELSE <<>>), r.model)
      [] r.model # None /\ format = "store" -> Prefixed(<<"[store]", "">>, r.model)
      [] OTHER -> Prefixed(<<"">>, r.model)

----------------------------------------------------------------------------
(***************************************************************************)
(* The cost.                                                               *)
(***************************************************************************)
\* Agents that take a cost that was written down whatever the mode is, if there is one
\* (calculate_open_code_cost, calculate_hermes_cost), and those that ask for no mode.
WrittenFirst == {"opencode", "hermes"}
NoMode == {"droid", "goose", "codebuff"}

\* The cost that is taken as it is, None if the tokens' is calculated (calculate_cost_for_usage,
\* calculate_store_cost, calculate_kilo_cost).
AsWritten(format, mode, written) ==
    CASE format \in WrittenFirst -> IF written \in {None, 0} THEN None ELSE written
      [] format \in NoMode -> None
      [] OTHER -> CASE mode = "display" -> IF written = None THEN 0 ELSE written
                    [] mode = "auto" -> written
                    [] mode = "calculate" -> None

\* Tokens known only by the total cost as output does, but for three agents.
Billed(format, usage) ==
    IF format \in {"pi", "store", "openclaw", "kimi"} THEN Sum(usage) - usage.extra ELSE Sum(usage)

\* The first name that has a price, or the first by which the tokens cost anything.
PriceOf(format, table, names) ==
    LET known == Known(table, names)
        paid == SelectSeq(known, LAMBDA name : table[name] > 0)
        tried == IF format \in WrittenFirst \cup NoMode THEN paid ELSE known
    IN  IF tried = <<>> THEN 0 ELSE table[Head(tried)]

Cost(format, mode, table, overrides, r) ==
    LET asWritten == AsWritten(format, mode, r.written)
    IN  IF asWritten # None THEN asWritten
        ELSE PriceOf(format, table, Names(format, r, overrides)) * Billed(format, r.usage)

\* Models without a price are not told of where none was looked for.
NotTold(format, mode, written) ==
    CASE format = "opencode" -> mode = "display" \/ written \notin {None, 0}
      [] format = "kilo" -> mode = "display" \/ written \notin {None, 0}
      [] format = "hermes" -> written \notin {None, 0}
      [] format \in NoMode -> FALSE
      [] OTHER -> mode = "display" \/ (mode = "auto" /\ written # None)

\* missing_pricing_model_for_candidates: none of the names has a price.
MissingPricing(format, mode, table, overrides, r) ==
    /\ ~NotTold(format, mode, r.written)
    /\ Sum(r.usage) > 0 /\ r.model # None
    /\ Known(table, Names(format, r, overrides)) = <<>>
=============================================================================
