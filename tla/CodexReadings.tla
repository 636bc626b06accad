---------------------------- MODULE CodexReadings ----------------------------
(***************************************************************************)
(* A session of Codex and what a report reads of it (visit_codex_session_  *)
(* file in rust/adapters/codex/src/parser.rs).  Codex writes the model it  *)
(* turns to, the tier it applies, and what requests used: of the last one, *)
(* of all of the session, or both, and the latter again when nothing was   *)
(* used.  `codex exec` writes results, each with the model and the time in *)
(* one of many places.                                                     *)
(*                                                                         *)
(* The session's own requests only: what forks replay is CodexLoad.        *)
(***************************************************************************)
EXTENDS CodexCosts

CONSTANTS
    Bills,          \* what a request may use
    Ways,           \* what token counts tell: of the last request, of all, which names fields have
    Results,        \* the places in a result of the usage, the model and the times
    Turned,         \* models a turn may be of
    Applied,        \* tiers that settings may name
    AutoReview,     \* CODEX_AUTO_REVIEW_MODEL
    Gpt5,           \* what a model is taken for that no record names
    Fallbacks,      \* CODEX_AUTO_REVIEW_FALLBACK_MODELS: days and models, the latest first
    Modified,       \* the day the file was changed
    MaxLines, MaxChanges, MaxRequests       \* bounds: lines, those of turns and settings, requests

VARIABLES
    codex,          \* the session: its way, its model and tier, what it used, its requests
    log,            \* the lines it has written
    found           \* the events a report has read, None before

cdvars == <<codex, log, found>>

FirstOf(values) ==
    LET named == SelectSeq(values, LAMBDA value : value # None)
    IN  IF named = <<>> THEN None ELSE Head(named)

----------------------------------------------------------------------------
(***************************************************************************)
(* What a line says.                                                       *)
(***************************************************************************)
\* CodexRawUsage: fields by any of their names, and the total if there is one.
Raw(fields) ==
    LET field(names) == Or(FirstOf(names), 0)
        input == field(fields.input)
        output == field(fields.output)
    IN  [input |-> input, cached |-> field(fields.cached), output |-> output,
         reason |-> field(fields.reason),
         total |-> IF fields.total \in {None, 0} THEN input + output ELSE fields.total]

RawOrNone(fields) == IF fields = None THEN None ELSE Raw(fields)

\* subtract_codex_raw_usage.
Difference(usage, previous) ==
    IF previous = None THEN usage ELSE [part \in DOMAIN usage |-> Less(usage[part], previous[part])]

\* What is 0 but for the total is of no request of a session.
Blank(usage) == usage.input = 0 /\ usage.cached = 0 /\ usage.output = 0 /\ usage.reason = 0

\* codex_service_tier.
Tier(name) ==
    CASE name \in {"default", "standard"} -> "standard"
      [] name \in {"fast", "priority"} -> "fast"
      [] OTHER -> None

\* codex_log_model_fallback: what the reviews' model was, by the day.
ReviewModel(day) ==
    LET released == SelectSeq(Fallbacks, LAMBDA fallback : day >= fallback.day)
    IN  IF released = <<>> THEN Gpt5 ELSE Head(released).model

\* resolve_codex_usage_model: the model the record names, the current one, or a guess, which is
\* known to be one until a record names another.
Resolve(p, named) ==
    [p EXCEPT !.model = Or(named, Or(@, Gpt5)),
              !.guessed = named = None /\ (p.model = None \/ @)]

\* The event of what was used, with the cached tokens within the input.
WithEvent(p, usage, model_day, day, tier) ==
    LET review == p.model = AutoReview
    IN  [p EXCEPT !.events = Append(@,
            [day |-> day, tier |-> tier, fallback |-> p.guessed \/ review,
             model |-> IF review THEN ReviewModel(model_day) ELSE p.model,
             input |-> usage.input, cached |-> Min({usage.cached, usage.input}),
             output |-> usage.output, reason |-> usage.reason, total |-> usage.total])]

\* Mutant: the last request's usage is taken whenever it is told of.
LastAlways(last, all, previous) ==
    IF last # None THEN last ELSE IF all # None THEN Difference(all, previous) ELSE None

\* The last request's usage if the session's has advanced, or the difference of both.
Used(last, all, previous) ==
    IF last # None /\ (all = None \/ all # previous) THEN last
    ELSE IF all # None THEN Difference(all, previous) ELSE None

\* visit_codex_session_entry of a token count.
TokenCount(p, line) ==
    LET all == RawOrNone(line.all)
        usage == Used(RawOrNone(line.last), all, p.previous)
        counted == [p EXCEPT !.previous = IF all # None THEN all ELSE @]
    IN  IF usage = None \/ Blank(usage) THEN counted
        ELSE WithEvent(Resolve(counted, FirstOf(line.models)), usage, line.day, line.day, p.tier)

\* Of the places in a result, one part, in the order they are looked at.
InPlaces(line, part) == FlattenSeq([i \in DOMAIN line.places |-> line.places[i][part]])

\* usage_from_result; the total alone makes a result one of a request.
ResultUsage(line) ==
    LET usage == RawOrNone(FirstOf(InPlaces(line, "usages")))
    IN  IF usage = None \/ (Blank(usage) /\ usage.total = 0) THEN None ELSE usage

\* codex_model_from_result.
ResultModel(line) == FirstOf(InPlaces(line, "models"))

FirstDay(times) == IF times = <<>> THEN Modified ELSE Head(times).day

\* codex_timestamp_from_result: the first time that parses.
ResultDay(line) == FirstDay(SelectSeq(InPlaces(line, "times"), LAMBDA time : time.parses))

\* codex_model_timestamp_from_result: the first time that parses or begins with a day.
ModelDay(line) == FirstDay(SelectSeq(InPlaces(line, "times"), LAMBDA time : time.day # None))

\* add_codex_exec_event, add_codex_exec_event_from_value.
ExecResult(p, line) ==
    IF ResultUsage(line) = None THEN p
    ELSE WithEvent(Resolve(p, ResultModel(line)), ResultUsage(line), ModelDay(line), ResultDay(line), None)

\* visit_codex_session_file, line by line.
Visit(p, line) ==
    CASE line.kind = "turn_context" ->
            IF line.model = None THEN p ELSE [p EXCEPT !.model = line.model, !.guessed = FALSE]
      [] line.kind = "thread_settings_applied" ->
            IF line.tier = None THEN p ELSE [p EXCEPT !.tier = Tier(line.tier)]
      [] line.kind = "token_count" -> IF line.day = None THEN p ELSE TokenCount(p, line)
      [] line.kind = "result" -> ExecResult(p, line)

Fresh == [previous |-> None, model |-> None, guessed |-> FALSE, tier |-> None, events |-> <<>>]

Events(lines) == FoldLeft(Visit, Fresh, lines).events

----------------------------------------------------------------------------
(***************************************************************************)
(* Codex.  A line is written on the day of its number.                     *)
(***************************************************************************)
Today == Len(log) + 1

Writes(line) ==
    /\ Len(log) < MaxLines
    /\ log' = Append(log, line)

CountsTold == Len(SelectSeq(log, LAMBDA line : line.kind = "token_count"))

MayChange == codex.way \notin Results /\ Len(log) - CountsTold < MaxChanges

\* A turn begins, of a model; older versions do not name it.
TurnContext(model) ==
    /\ MayChange
    /\ Writes([kind |-> "turn_context", model |-> model])
    /\ codex' = [codex EXCEPT !.model = Or(model, @)]
    /\ UNCHANGED found

\* Settings are applied, of the tier or of something else.
ThreadSettingsApplied(tier) ==
    /\ MayChange
    /\ Writes([kind |-> "thread_settings_applied", tier |-> tier])
    /\ codex' = [codex EXCEPT !.tier = IF tier = None THEN @ ELSE Tier(tier)]
    /\ UNCHANGED found

\* Fields by the names of a version.
Fields(usage, n) ==
    LET named(tokens) == [i \in 1..3 |-> IF i = n THEN tokens ELSE None]
    IN  [input |-> named(usage.input), cached |-> named(usage.cached), output |-> named(usage.output),
         reason |-> named(usage.reason),
         total |-> CASE n = 1 -> usage.input + usage.output [] n = 2 -> 0 [] n = 3 -> None]

Whole(bill) == [input |-> bill.fresh + bill.cached, cached |-> bill.cached, output |-> bill.output, reason |-> bill.reason]

\* What the request that is told of used, of what model and by which tier.
Made(bill, model, tier, day) ==
    [bill |-> bill, tier |-> tier, guessed |-> model \in {None, AutoReview},
     model |-> CASE model = None -> Gpt5 [] model = AutoReview -> ReviewModel(day) [] OTHER -> model]

TokenCountOf(last, all, model) ==
    [kind |-> "token_count", day |-> Today, models |-> <<None, model>>,
     last |-> IF codex.way.last /\ last # None THEN Fields(last, codex.way.names) ELSE None,
     all |-> IF codex.way.all THEN Fields(all, codex.way.names) ELSE None]

\* A request is answered; the count may name the model.
Answer(bill, model) ==
    /\ codex.way \notin Results /\ Len(codex.made) < MaxRequests
    /\ LET all == [part \in DOMAIN codex.all |-> codex.all[part] + Whole(bill)[part]]
           now == Or(model, codex.model)
       IN  /\ Writes(TokenCountOf(Whole(bill), all, model))
           /\ codex' = [codex EXCEPT !.all = all, !.last = Whole(bill), !.model = now,
                                     !.made = Append(@, Made(bill, now, codex.tier, Today))]
    /\ UNCHANGED found

\* The counts are told once more, by versions that tell of all, with the last request or without.
Repeat(last) ==
    /\ codex.way \notin Results /\ codex.way.all /\ CountsTold = Len(codex.made)
    /\ Writes(TokenCountOf(IF last THEN codex.last ELSE None, codex.all, None))
    /\ UNCHANGED <<codex, found>>

\* The result of `codex exec`.
Exec(bill, model, day) ==
    /\ codex.way \in Results /\ Len(codex.made) < MaxRequests
    /\ LET told == codex.way
           now == Or(model, codex.model)
       IN  /\ Writes([kind |-> "result", places |->
                [i \in 1..4 |->
                    [usages |-> IF i = told.usage THEN <<Fields(Whole(bill), told.names)>> ELSE <<None>>,
                     models |-> IF i = told.model THEN <<None, model, None>> ELSE <<None>>,
                     times |-> IF i = told.time /\ day # None
                               THEN <<[parses |-> FALSE, day |-> None], [parses |-> TRUE, day |-> day]>>
                               ELSE <<>>]]])
           /\ codex' = [codex EXCEPT !.model = now,
                                     !.made = Append(@, Made(bill, now, None, Or(day, Modified)))]
    /\ UNCHANGED found

\* The report reads the log as it is; of a line that is being written nothing parses.
ReadLog ==
    /\ found' = Events(log)
    /\ UNCHANGED <<codex, log>>

CDInit ==
    /\ codex \in [way : Ways \cup Results, model : {None}, tier : {None},
                  all : {Whole([fresh |-> 0, cached |-> 0, output |-> 0, reason |-> 0])}, last : {None},
                  made : {<<>>}]
    /\ log = <<>>
    /\ found = None

CDNext ==
    /\ found = None
    /\ \/ ReadLog
       \/ \E model \in Turned \cup {None} : TurnContext(model)
       \/ \E tier \in Applied \cup {None} : ThreadSettingsApplied(tier)
       \/ \E bill \in Bills, model \in {None, Gpt5} : Answer(bill, model)
       \/ \E last \in BOOLEAN : Repeat(last)
       \/ \E bill \in Bills, model \in Turned \cup {None}, day \in {None, Today} : Exec(bill, model, day)

----------------------------------------------------------------------------
\* Whether the event is of the request.
IsOf(event, request) ==
    /\ event.model = request.model /\ event.fallback = request.guessed /\ event.tier = request.tier
    /\ event.input - event.cached = request.bill.fresh /\ event.cached = request.bill.cached
    /\ event.output = request.bill.output /\ event.reason = request.bill.reason
    /\ event.total = event.input + event.output

\* What the request costs by itself.
Price(request, policy) ==
    IF request.model \notin DOMAIN Prices THEN 0
    ELSE LET price == Prices[request.model]
             bill == request.bill
             tier == IF policy.forced THEN policy.tier ELSE Or(request.tier, policy.tier)
             rates == IF bill.fresh + bill.cached > Split[request.model] THEN LongRates(price) ELSE Rates(price)
         IN  (bill.fresh * rates.input + bill.cached * rates.cached + bill.output * rates.output)
                * (IF tier = "fast" THEN price.multiplier ELSE 1)

\* Every request of a session is read, once, with the tokens it used, its model, which is told to be
\* a guess if it is one, and the tier that was applied: whichever way and however often a version
\* tells of it.
ReadOnce ==
    found # None =>
        /\ Len(found) = Len(codex.made)
        /\ \A n \in DOMAIN found : IsOf(found[n], codex.made[n])

\* What a report says they cost is the sum of what each costs by itself, with the rates of its own
\* context and its own tier, whatever the policy is and wherever the events are divided among
\* workers; and models without a price are told of.
BilledEach ==
    found # None =>
        /\ \A policy \in Policies :
            LET each == FoldLeft(LAMBDA sum, request : sum + Price(request, policy), 0, codex.made)
            IN  /\ GroupCost(GroupOf(found), policy) = each
                /\ \A n \in 0..Len(found) :
                    GroupCost(ApplyRecorded(MergeGroups(GroupOfWorker(SubSeq(found, 1, n)),
                                                        GroupOfWorker(SubSeq(found, n + 1, Len(found)))),
                                            found), policy) = each
        /\ MissingModels(GroupOf(found)) =
                {codex.made[n].model : n \in DOMAIN codex.made} \ DOMAIN Prices
=============================================================================
