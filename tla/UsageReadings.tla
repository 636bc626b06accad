---------------------------- MODULE UsageReadings ----------------------------
(***************************************************************************)
(* How the parsers of the other agents' logs (rust/adapters/<agent>/src/   *)
(* parser.rs) turn what a file says into tokens: a session's file is read  *)
(* at some moment while the agent goes on writing it, and its records are  *)
(* taken one by one, with what the earlier ones said of the session and    *)
(* the model.  Each agent has a way of its own to say what a request used: *)
(* cached tokens within the input or beside it, reasoning within the       *)
(* output, beside it or only in the total, the total or none.              *)
(*                                                                         *)
(* Which records of several files are of the same request is AgentLoaders. *)
(***************************************************************************)
EXTENDS AgentCosts, TLC

CONSTANT Sessions       \* the files there may be: a format and the records

VARIABLES
    session,        \* the file: its format, its records
    written,        \* how many records the agent has written
    content,        \* how many the read found, None before it
    at,             \* the next record to parse
    parsed          \* what the parser holds: session, model, events

rdvars == <<session, written, content, at, parsed>>

----------------------------------------------------------------------------
(***************************************************************************)
(* Usage: tokens of the input, the output, the two kinds of caching, and   *)
(* those that are known of only by the total or as reasoning.              *)
(***************************************************************************)
Copilot == INSTANCE CopilotWays

Less(a, b) == IF a > b THEN a - b ELSE 0

\* Mutant: all of the total is missing.
WholeTotal(usage, total) == total

Or(value, other) == IF value = None THEN other ELSE value

\* What a total holds that no part does.
Missing(usage, total) == Less(total, Sum(usage))

\* apply_total_token_fallback: it is the output's if there is none.
Fallback(usage, total) ==
    IF usage.output = 0
    THEN [usage EXCEPT !.output = Missing(usage, total)]
    ELSE [usage EXCEPT !.extra = @ + Missing(usage, total)]

Usage(input, output, create, read, extra) ==
    [input |-> input, output |-> output, create |-> create, read |-> read, extra |-> extra]

Nothing == Usage(0, 0, 0, 0, 0)

\* Cached tokens within the input are taken out of it.
Outside(input, cached) == Less(input, cached)

----------------------------------------------------------------------------
(***************************************************************************)
(* What one record says, agent by agent.  Fields the record lacks are 0.   *)
(***************************************************************************)
\* Pi, and stores laid out like Pi's (read_session_file_with_context).
PiUsage(t) == Fallback(Usage(t.input, t.output, t.create, t.read, 0), t.total)

\* OpenClaw (parse_message_entry).
OpenClawUsage(t) == Fallback(Usage(t.input, t.output, t.create, t.read, 0), t.total)

\* OpenCode (message_value_to_entry).
OpenCodeUsage(t) == Fallback(Usage(t.input, t.output, t.create, t.read, 0), t.total)

\* Kilo (message_value_to_entry).
KiloUsage(t) == Fallback(Usage(t.input, t.output, t.create, t.read, t.reason), t.total)

\* Droid's settings hold the totals of the session (parse_token_usage).
DroidUsage(t) == Fallback(Usage(t.input, t.output, t.create, t.read, t.reason), t.total)

\* Qwen (parse_line).
QwenUsage(t) == Fallback(Usage(t.input, t.output, 0, t.read, t.reason), t.total)

\* ZCode: both kinds of caching are within the input (row_to_entry).
ZcodeUsage(t) ==
    LET read == Min({t.read, t.input})
        create == Min({t.create, t.input - read})
    IN  Fallback(Usage(t.input - read - create, t.output, create, read, 0), t.total)

\* Copilot: what was read from the cache is within the input (to_candidate).
CopilotUsage(t) ==
    Fallback(Usage(Outside(t.input, t.read), t.output, t.create, t.read, t.reason), t.total)

\* Hermes (read_session_row).
HermesUsage(t) == Usage(t.input, t.output, t.create, t.read, t.reason)

\* Goose: the accumulated counts before those of the last request (row_to_entry).
GooseUsage(t) ==
    LET first(a, b) == IF a > 0 THEN a ELSE b
        input == first(t.input, t.last.input)
        output == first(t.output, t.last.output)
        total == first(first(t.total, t.last.total), input + output)
    IN  Usage(input, output, 0, 0, Less(total, input + output))

\* Grok (log_line_to_entry).
GrokUsage(t) ==
    LET read == Min({t.read, t.input})
    IN  Usage(t.input - read, t.output, 0, read, t.reason)

\* Kimi's wire protocol and Kimi Code's records (wire_line_to_entry_old, wire_line_to_entry_new).
KimiWireUsage(t) == Fallback(Usage(t.input, t.output, t.create, t.read, 0), t.total)

KimiCodeUsage(t) == Fallback(Usage(t.input, t.output, t.create, t.read, 0), 0)

\* Amp's messages (parse_message_usage).
AmpMessageUsage(t) == Fallback(Usage(t.input, t.output, t.create, t.read, 0), t.total)

\* Amp's ledger knows of caching by the message an event leads to (parse_ledger_events).
AmpLedgerUsage(t, cache) == Fallback(Usage(t.input, t.output, cache.create, cache.read, 0), t.total)

----------------------------------------------------------------------------
(***************************************************************************)
(* Gemini.                                                                 *)
(***************************************************************************)
\* normalize_session_input: the cached tokens are within the input if only then the total is right.
NormalizeSessionInput(t) ==
    IF t.read > 0 /\ t.total = t.input + t.output + t.reason + t.tool
    THEN Outside(t.input, t.read) ELSE t.input

\* subtract_cached_overlap_tokens.
SubtractCached(t) == Outside(t.input, t.read)

\* Without a total (None) it is that of the parts.
GeminiTotal(t, input) ==
    IF t.total = None THEN input + t.tool + t.output + t.read + t.reason ELSE t.total

\* build_event.
GeminiUsage(t, input) ==
    Fallback(Usage(input + t.tool, t.output, 0, t.read, t.reason), GeminiTotal(t, input))

\* event_to_loaded: beside the parts the total is shown, whatever there was of reasoning.
GeminiLoaded(usage, total) ==
    [usage EXCEPT !.extra = Less(total, usage.input + usage.output + usage.read)]

----------------------------------------------------------------------------
(***************************************************************************)
(* Codebuff: a message says what it used in up to two places, and the run  *)
(* state that is kept with it once more.                                   *)
(***************************************************************************)
\* parse_usage_object, with the credits and the model that are told of beside it.
CodebuffUsage(place) ==
    Fallback(Usage(place.t.input, place.t.output, place.t.create, place.t.read, 0), place.t.total)
        @@ [cost |-> place.cost, model |-> place.model]

NothingToldOf == Nothing @@ [cost |-> 0, model |-> None]

\* merge_fallback.
MergeFallback(usage, fallback) ==
    [part \in DOMAIN usage |->
        IF usage[part] = (IF part = "model" THEN None ELSE 0) THEN fallback[part] ELSE usage[part]]

\* The places of a message, the first before the second; the model has a place of its own.
MessageUsage(message) ==
    LET usage == FoldLeft(LAMBDA merged, place : MergeFallback(merged, CodebuffUsage(place)),
                          NothingToldOf, message.places)
    IN  [usage EXCEPT !.model = Or(message.model, @)]

\* extract_usage_from_run_state: the last messages of the history first.
RunState(history) ==
    FoldLeft(LAMBDA merged, message : MergeFallback(merged, MessageUsage(message)),
             NothingToldOf, Reverse(history))

\* extract_assistant_usage: and the credits of the message at last.
AssistantUsage(line) ==
    LET usage == MergeFallback(MessageUsage(line), RunState(line.history))
    IN  IF usage.cost > 0 THEN usage ELSE [usage EXCEPT !.cost = line.credits]

----------------------------------------------------------------------------
(***************************************************************************)
(* Antigravity: the output as a whole, what is seen of it, and reasoning.  *)
(***************************************************************************)
\* append_usage_event.
AntigravityUsage(t) ==
    LET whole == Max({t.total, t.output + t.reason})
        seen == Max({t.output, Less(whole, t.reason)})
    IN  [input |-> t.input, output |-> seen, create |-> t.create, read |-> t.read,
         reason |-> Max({t.reason, Less(whole, seen)}), whole |-> whole]

\* The larger of both tellings, field by field.
MergeUsage(a, b) ==
    LET larger == [part \in DOMAIN a |-> Max({a[part], b[part]})]
    IN  [larger EXCEPT !.whole = Max({@, larger.output + larger.reason})]

\* Times are told from a record, from one of the same response, from the start of the session, or
\* from the file.
Surer(a, b) == a[2] > b[2] \/ (a[2] = b[2] /\ a[1] < b[1])

\* merge_usage_event.
MergeEvent(a, b) ==
    [a EXCEPT !.usage = MergeUsage(@, b.usage),
              !.model = IF @ = DefaultModel THEN b.model ELSE @,
              !.provider = Or(@, b.provider),
              !.time = IF Surer(b.time, @) THEN b.time ELSE @]

\* event_to_loaded.
Loaded(usage) ==
    Usage(usage.input, usage.output, usage.create, usage.read, Less(usage.whole, usage.output))

----------------------------------------------------------------------------
(***************************************************************************)
(* The records of a file, and what they say of each other.                 *)
(***************************************************************************)
Format == session.format

Of(kind, lines) == SelectSeq(lines, LAMBDA line : line.kind = kind)

\* The last of a sequence's values that is one.
LastNamed(values) == FoldLeft(LAMBDA named, value : Or(value, named), None, values)

NoContext == [model |-> None, session |-> None, priority |-> 0]

\* collect_trace_contexts: the first model, and the first session of the highest priority.
Context(lines, trace) ==
    FoldLeft(LAMBDA known, line :
        IF line.trace # trace THEN known
        ELSE [model |-> Or(known.model, line.model),
              session |-> IF line.session # None /\ line.session[2] > known.priority
                          THEN line.session[1] ELSE known.session,
              priority |-> IF line.session # None
                           THEN Max({line.session[2], known.priority}) ELSE known.priority],
        NoContext, lines)

\* cache_tokens_by_message_id: the last message with an id.
CacheTokens(lines, id) ==
    LET messages == SelectSeq(lines, LAMBDA line : line.kind = "message" /\ line.id = id)
    IN  IF id = None \/ messages = <<>> THEN Nothing ELSE Last(messages).t

\* Steps are read before the rows of generations (parse_sqlite_file); elsewhere the order is that
\* of the file.
InOrder(lines) ==
    IF Format = "antigravity" THEN Of("step", lines) \o Of("generation", lines) ELSE lines

----------------------------------------------------------------------------
\* What the parser makes of a record.
Event(line, named, model, usage) ==
    [request |-> line.request, id |-> line.id, session |-> named, model |-> model, usage |-> usage,
     provider |-> line.provider, at |-> line.at, written |-> line.written]

\* What says nothing of tokens is left out, unless it says what it cost.
Worth(line, usage) == Sum(usage) > 0 \/ (Format = "hermes" /\ line.written \notin {None, 0})

\* Formats whose records are left out if they do not name the model.
NamesModel == {"opencode", "kilo", "hermes", "goose", "zcode", "amp"}

With(p, event) == [p EXCEPT !.events = Append(@, event)]

\* Records that stand for themselves.
PlainUsage(line) ==
    CASE Format \in {"pi", "store"} -> PiUsage(line.t)
      [] Format = "opencode" -> OpenCodeUsage(line.t)
      [] Format = "kilo" -> KiloUsage(line.t)
      [] Format = "droid" -> DroidUsage(line.t)
      [] Format = "qwen" -> QwenUsage(line.t)
      [] Format = "zcode" -> ZcodeUsage(line.t)
      [] Format = "hermes" -> HermesUsage(line.t)
      [] Format = "goose" -> GooseUsage(line.t)
      [] Format = "grok" -> GrokUsage(line.t)

Turns == INSTANCE GrokTurns WITH Unknown <- DefaultModel

\* Grok's log names no model, other files tell when a session turned to which; a log beside
\* Droid's settings may name one (extract_model_from_sidecar_jsonl).
ModelOf(line) ==
    CASE Format = "grok" ->
            Turns!ModelAt(FoldLeft(Turns!RecordModelEvent, <<>>,
                                   SelectSeq(session.turns, LAMBDA turn : turn.session = line.session)),
                          line.at)
      [] Format = "droid" -> Or(line.model, Or(session.config, DefaultModel))
      [] Format \in {"pi", "store"} -> line.model
      [] OTHER -> Or(line.model, DefaultModel)

PlainLine(p, line) ==
    LET usage == PlainUsage(line)
    IN  IF ~Worth(line, usage) \/ (line.model = None /\ Format \in NamesModel) THEN p
        ELSE With(p, Event(line, Or(line.session, p.session), ModelOf(line), usage))

\* load_chat_file of Codebuff.
CodebuffLine(p, line) ==
    LET usage == AssistantUsage(line)
    IN  IF line.kind # "assistant" \/ (Sum(usage) = 0 /\ usage.cost = 0) THEN p
        ELSE With(p, Event(line, p.session, Or(usage.model, DefaultModel), usage))

\* parse_session_file of OpenClaw: records of the model, and requests that may name their own.
OpenClawLine(p, line) ==
    LET usage == OpenClawUsage(line.t)
    IN  CASE line.kind = "model" -> [p EXCEPT !.model = Or(line.model, @)]
          [] line.kind = "usage" /\ Worth(line, usage) ->
                With(p, Event(line, p.session, Or(Or(line.model, p.model), DefaultModel), usage))
          [] OTHER -> p

\* wire_line_to_entry: sessions' records are sums of those of the turns.
KimiLine(p, line) ==
    LET usage == IF line.kind = "status" THEN KimiWireUsage(line.t) ELSE KimiCodeUsage(line.t)
        model == IF line.kind = "status" THEN session.config ELSE line.model
    IN  IF line.kind = "session" \/ ~Worth(line, usage) THEN p
        ELSE With(p, Event(line, p.session, Or(model, DefaultModel), usage))

\* read_thread_file of Amp: the ledger's events if there is a ledger, or the messages.
AmpLine(p, line) ==
    LET usage == IF line.kind = "ledger" THEN AmpLedgerUsage(line.t, CacheTokens(content, line.message))
                 ELSE AmpMessageUsage(line.t)
    IN  IF line.kind # (IF session.ledger THEN "ledger" ELSE "message")
           \/ ~Worth(line, usage) \/ line.model = None
        THEN p ELSE With(p, Event(line, p.session, line.model, usage))

\* parse_otel_file, to_candidate: the best way the file tells of a request in.
CopilotLine(p, line) ==
    LET candidates == SelectSeq(content, LAMBDA other : Sum(CopilotUsage(other.t)) > 0)
        context == IF line.trace = None THEN NoContext ELSE Context(content, line.trace)
        named == IF line.session # None THEN line.session[1]
                 ELSE Or(context.session, Or(line.trace, p.session))
    IN  IF Sum(CopilotUsage(line.t)) = 0 \/ ~Copilot!Emitted(line, candidates) THEN p
        ELSE With(p, Event(line, named, Or(Or(line.model, context.model), DefaultModel),
                           CopilotUsage(line.t)))

----------------------------------------------------------------------------
(***************************************************************************)
(* Gemini's chat files: what a request is told to have used is told again  *)
(* while it grows (parse_jsonl_file).                                      *)
(***************************************************************************)
IndexOf(events, id) == {n \in DOMAIN events : id # None /\ events[n].id = id}

\* An event whose id is known takes that event's place.
PlacedDirect(p, event) ==
    IF IndexOf(p.events, event.id) = {} THEN With(p, event)
    ELSE [p EXCEPT !.events[Min(IndexOf(p.events, event.id))] = event]

GeminiEvent(telling, named, model, input) ==
    Event(telling, named, model,
          GeminiLoaded(GeminiUsage(telling.t, input), GeminiTotal(telling.t, input)))

\* parse_stats_events: the models' sums, or one sum if no model has any.
StatsEvents(p, line) ==
    LET worth(telling) == Sum(GeminiUsage(telling.t, SubtractCached(telling.t))) > 0
        event(telling, model) == GeminiEvent(telling, p.session, model, SubtractCached(telling.t))
        models == SelectSeq(line.models, worth)
    IN  IF models # <<>> THEN [i \in DOMAIN models |-> event(models[i], models[i].model)]
        ELSE IF worth(line) THEN <<event(line, Or(p.model, DefaultModel))>> ELSE <<>>

\* A record of a chat, in lines or in one document (parse_json_file): there no record names the
\* model for the next.
GeminiLine(p, line) ==
    LET known == [p EXCEPT !.session = Or(line.session, @),
                           !.model = Or(line.model, IF Format = "gemini" THEN @ ELSE None)]
        input == NormalizeSessionInput(line.t)
        event == GeminiEvent(line, known.session, known.model, input)
    IN  CASE line.kind = "gemini" /\ known.model # None /\ Sum(GeminiUsage(line.t, input)) > 0 ->
                IF Format = "gemini" THEN PlacedDirect(known, event) ELSE With(known, event)
          [] line.kind = "stats" -> [known EXCEPT !.events = @ \o StatsEvents(known, line)]
          [] OTHER -> known

----------------------------------------------------------------------------
(***************************************************************************)
(* Antigravity's databases: rows without a time take it from earlier rows  *)
(* of the same response (append_usage_event).                              *)
(***************************************************************************)
\* The time of a row, with how sure it is of it.
TimeOf(p, line, telling) ==
    LET known == SelectSeq(telling.ids, LAMBDA id : id \in DOMAIN p.times)
    IN  CASE line.at # None -> <<line.at, 3>>
          [] line.at = None /\ known # <<>> -> p.times[Head(known)]
          [] line.at = None /\ known = <<>> /\ session.begun # None -> <<session.begun, 1>>
          [] OTHER -> <<session.modified, 0>>

AppendUsage(p, line, model, telling) ==
    LET usage == AntigravityUsage(telling.t)
        time == TimeOf(p, line, telling)
        better == {id \in ToSet(telling.ids) : id \in DOMAIN p.times => Surer(time, p.times[id])}
        event == Event([line EXCEPT !.request = telling.request], p.session,
                       Or(Or(telling.model, model), DefaultModel), usage) @@ [time |-> time]
    IN  IF Sum(Loaded(usage)) = 0 THEN p
        ELSE [With(p, event) EXCEPT !.times = [id \in better |-> time] @@ @]

\* A row of steps, or of generations, with the retries it tells of.
AntigravityLine(p, line) ==
    LET generation == Of("generation", content)
        later == LastNamed([n \in DOMAIN generation |-> generation[n].model])
        first == IF line.usages = <<>> THEN None ELSE line.usages[1].model
        known == IF line.kind = "generation"
                 THEN [p EXCEPT !.model = Or(Or(line.model, first), @)] ELSE p
        model == IF line.kind = "generation" THEN known.model ELSE Or(line.model, later)
    IN  FoldLeft(LAMBDA q, telling : AppendUsage(q, line, model, telling), known, line.usages)

----------------------------------------------------------------------------
Parsed(p, line) ==
    CASE Format \in {"gemini", "gemini document"} -> GeminiLine(p, line)
      [] Format = "codebuff" -> CodebuffLine(p, line)
      [] Format = "openclaw" -> OpenClawLine(p, line)
      [] Format = "kimi" -> KimiLine(p, line)
      [] Format = "amp" -> AmpLine(p, line)
      [] Format = "copilot" -> CopilotLine(p, line)
      [] Format = "antigravity" -> AntigravityLine(p, line)
      [] OTHER -> PlainLine(p, line)

\* The agent writes its next record.
Write ==
    /\ written < Len(session.lines)
    /\ content = None
    /\ written' = written + 1
    /\ UNCHANGED <<session, content, at, parsed>>

\* The file is read as it is.
Read ==
    /\ content = None
    /\ content' = InOrder(SubSeq(session.lines, 1, written))
    /\ UNCHANGED <<session, written, at, parsed>>

\* The next record is parsed.
ParseLine ==
    /\ content # None /\ at <= Len(content)
    /\ parsed' = Parsed(parsed, content[at])
    /\ at' = at + 1
    /\ UNCHANGED <<session, written, content>>

RDInit ==
    /\ session \in Sessions
    /\ written = 0
    /\ content = None
    /\ at = 1
    /\ parsed = [session |-> session.name, model |-> None, events |-> <<>>, times |-> <<>>]

RDNext == Write \/ Read \/ ParseLine

----------------------------------------------------------------------------
(***************************************************************************)
(* What was spent.  A telling holds it, which the parser does not see: the *)
(* tokens by kind, the model, the session, and how much of the file there  *)
(* has to be to know that.                                                 *)
(***************************************************************************)
Tellings(line) ==
    CASE Format = "antigravity" -> ToSet(line.usages)
      [] line.kind = "stats" /\ line.models # <<>> -> ToSet(line.models)
      [] OTHER -> {line}

Told == UNION {Tellings(content[n]) : n \in DOMAIN content}

Requests == {telling.request : telling \in Told} \ {None}

\* The last of a request's tellings, as they were written.
LastTelling(q) ==
    LET of(n) == {telling \in Tellings(session.lines[n]) : telling.request = q}
        last == Max({n \in 1..Len(content) : of(n) # {}})
    IN  CHOOSE telling \in of(last) : TRUE

\* When records of the request say it ran.
Times(q) ==
    {content[n].at : n \in {m \in DOMAIN content :
        \E telling \in Tellings(content[m]) : telling.request = q}} \ {None}

EventsOf(q) == SelectSeq(parsed.events, LAMBDA event : event.request = q)

\* The copies of a response that Antigravity tells of several times are merged (deduplicate_events).
Shown(q) ==
    LET events == EventsOf(q)
        merged == FoldLeft(MergeEvent, Head(events), Tail(events))
    IN  IF Format = "antigravity" THEN [merged EXCEPT !.usage = Loaded(@)] ELSE Head(events)

\* Output and reasoning are told apart if the record does.
IsOf(usage, spent) ==
    /\ usage.input = spent.fresh /\ usage.create = spent.create /\ usage.read = spent.read
    /\ usage.output + usage.extra = spent.seen + spent.reason
    /\ spent.apart => usage.output = spent.seen

\* Every request a file tells of is shown, once, with the tokens it used and no others, under the
\* model and the session it ran with, and at its time if a record has it: whichever way the agent
\* tells of caching, reasoning and totals, however often it tells of the request, and whatever the
\* file is read in the middle of.
ReadAsSpent ==
    content # None /\ at > Len(content) =>
        /\ {parsed.events[n].request : n \in DOMAIN parsed.events} = Requests
        /\ \A q \in Requests :
            LET spent == LastTelling(q).spent
            IN  /\ Format # "antigravity" => Len(EventsOf(q)) = 1
                /\ IsOf(Shown(q).usage, spent)
                /\ Len(content) >= spent.known =>
                        Shown(q).model = spent.model /\ Shown(q).session = spent.session
                /\ Format = "antigravity" /\ Times(q) # {} => Shown(q).time = <<Min(Times(q)), 3>>

\* What is shown of a request costs something, or it says why not: what a token costs is nothing,
\* the agent wrote so, costs are not calculated, or the model is told of as one without a price.
\* And no model is told of that has one.
CostedOrTold ==
    content # None /\ at > Len(content) =>
        \A q \in Requests :
            LET event == Shown(q)
                cost == Cost(Format, session.mode, session.prices, session.overrides, event)
                missing == MissingPricing(Format, session.mode, session.prices, session.overrides, event)
                known == Known(session.prices, Names(Format, event, session.overrides))
            IN  /\ missing => cost = 0 /\ known = <<>>
                /\ cost = 0 /\ ~missing =>
                    \/ session.mode = "display" \/ event.written # None \/ event.model = None
                    \/ Sum(event.usage) = 0 \/ known # <<>>
=============================================================================
