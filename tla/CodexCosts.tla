----------------------------- MODULE CodexCosts ------------------------------
(***************************************************************************)
(* What Codex requests cost (rust/adapters/codex/src/aggregate.rs,         *)
(* report.rs): a request with a long context has rates of its own and the  *)
(* tier is recorded per request, while prices are applied to the sums of a *)
(* model's requests.                                                       *)
(***************************************************************************)
EXTENDS Integers, SequencesExt, FiniteSetsExt, TLC

CONSTANTS
    Prices,         \* per model that has a price: its rates, None for those it lacks
    Split,          \* long_context_split_threshold, per model
    None

Less(a, b) == IF a > b THEN a - b ELSE 0

Or(value, other) == IF value = None THEN other ELSE value

----------------------------------------------------------------------------
(***************************************************************************)
(* Sums of a model's requests: CodexUsageBucket, CodexModelUsage.          *)
(***************************************************************************)
NoBucket == [input |-> 0, cached |-> 0, output |-> 0, long_input |-> 0, long_cached |-> 0, long_output |-> 0]

PlusBucket(b, c) == [part \in DOMAIN b |-> b[part] + c[part]]

\* subtract_codex_usage_bucket.
MinusBucket(b, c) == [part \in DOMAIN b |-> Less(b[part], c[part])]

\* Mutant: requests whose input is at the threshold are long as well.
LongFromThreshold(event) ==
    LET long(tokens) == IF event.input >= Split[event.model] THEN tokens ELSE 0
    IN  [input |-> event.input, cached |-> event.cached, output |-> event.output,
         long_input |-> long(event.input), long_cached |-> long(event.cached),
         long_output |-> long(event.output)]

\* The request's bucket: the size of its own input makes its context a long one.
BucketOf(event) ==
    LET long(tokens) == IF event.input > Split[event.model] THEN tokens ELSE 0
    IN  [input |-> event.input, cached |-> event.cached, output |-> event.output,
         long_input |-> long(event.input), long_cached |-> long(event.cached),
         long_output |-> long(event.output)]

NoModelUsage ==
    [all |-> NoBucket, standard |-> NoBucket, fast |-> NoBucket, reason |-> 0, total |-> 0, fallback |-> FALSE]

PlusUsage(u, v) ==
    [all |-> PlusBucket(u.all, v.all), standard |-> PlusBucket(u.standard, v.standard),
     fast |-> PlusBucket(u.fast, v.fast), reason |-> u.reason + v.reason, total |-> u.total + v.total,
     fallback |-> u.fallback \/ v.fallback]

UsageOf(group, model) == IF model \in DOMAIN group THEN group[model] ELSE NoModelUsage

\* accumulate_codex_event_into_group, with the tier or without it.
Accumulate(group, event, tier) ==
    LET bucket == BucketOf(event)
        recorded(t) == IF tier = t THEN bucket ELSE NoBucket
    IN  (event.model :> PlusUsage(UsageOf(group, event.model),
            [all |-> bucket, standard |-> recorded("standard"), fast |-> recorded("fast"),
             reason |-> event.reason, total |-> event.total, fallback |-> event.fallback])) @@ group

\* aggregate_events.
GroupOf(events) == FoldLeft(LAMBDA group, event : Accumulate(group, event, event.tier), <<>>, events)

\* What a worker sums up (add_deduped_event_to_groups).
GroupOfWorker(events) == FoldLeft(LAMBDA group, event : Accumulate(group, event, None), <<>>, events)

\* merge_groups.
MergeGroups(group, more) ==
    [model \in DOMAIN group \cup DOMAIN more |-> PlusUsage(UsageOf(group, model), UsageOf(more, model))]

\* apply_recorded_usage_entries, of the events' records.
ApplyRecorded(group, events) ==
    FoldLeft(LAMBDA g, event :
        CASE event.model \notin DOMAIN g \/ event.tier = None -> g
          [] event.model \in DOMAIN g /\ event.tier = "standard" ->
                [g EXCEPT ![event.model].standard = PlusBucket(@, BucketOf(event))]
          [] event.model \in DOMAIN g /\ event.tier = "fast" ->
                [g EXCEPT ![event.model].fast = PlusBucket(@, BucketOf(event))],
        group, events)

----------------------------------------------------------------------------
(***************************************************************************)
(* Prices.                                                                 *)
(***************************************************************************)
Rates(price) == [input |-> price.input, cached |-> Or(price.read, price.input), output |-> price.output]

\* Rates of a long context, the others where there are none.
LongRates(price) ==
    LET input == Or(price.long_input, price.input)
    IN  [input |-> input, cached |-> IF price.read = None THEN input ELSE Or(price.long_read, price.read),
         output |-> Or(price.long_output, price.output)]

AtRates(rates, input, cached, output) ==
    Less(input, cached) * rates.input + cached * rates.cached + output * rates.output

\* calculate_codex_bucket_cost.
BucketCost(bucket, price) ==
    LET input == Min({bucket.long_input, bucket.input})
        cached == Min({bucket.long_cached, bucket.cached, input})
        output == Min({bucket.long_output, bucket.output})
    IN  AtRates(Rates(price), bucket.input - input, bucket.cached - cached, bucket.output - output)
            + AtRates(LongRates(price), input, cached, output)

\* CodexSpeedPolicy: a tier for all requests, or for those that record none.
Policies == [forced : BOOLEAN, tier : {"standard", "fast"}]

\* Of the usage, what is billed as fast.
FastUsage(usage, policy) ==
    CASE policy.forced /\ policy.tier = "standard" -> NoBucket
      [] policy.forced /\ policy.tier = "fast" -> usage.all
      [] ~policy.forced /\ policy.tier = "standard" -> usage.fast
      [] ~policy.forced /\ policy.tier = "fast" -> MinusBucket(usage.all, usage.standard)

\* calculate_codex_model_cost.
ModelCost(model, usage, policy) ==
    IF model \notin DOMAIN Prices THEN 0
    ELSE LET price == Prices[model]
         IN  BucketCost(usage.all, price)
                + BucketCost(FastUsage(usage, policy), price) * (price.multiplier - 1)

\* calculate_group_cost.
GroupCost(group, policy) ==
    FoldSet(LAMBDA model, cost : cost + ModelCost(model, group[model], policy), 0, DOMAIN group)

\* codex_missing_pricing_models.
MissingModels(group) ==
    {model \in DOMAIN group \ DOMAIN Prices :
        Max({group[model].total, group[model].all.input + group[model].all.output}) > 0}
=============================================================================
