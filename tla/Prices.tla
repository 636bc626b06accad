-------------------------------- MODULE Prices -------------------------------
(***************************************************************************)
(* Prices of models (PricingMap in rust/crates/turbotokens-core/src/       *)
(* pricing.rs, and cost.rs): threads that read logs cost their records by  *)
(* one table with a cache of what was found, and fetch another table when  *)
(* the first one does not have a model.                                    *)
(*                                                                         *)
(* A table is the set of the model names it has a price for, under another *)
(* name or version as well; a price is known by its table.                 *)
(***************************************************************************)
EXTENDS Integers, Sequences, FiniteSets

CONSTANTS
    Reader,         \* threads that cost records
    Records,        \* per thread: the records it costs, of a model and with tokens or without
    Builtin,        \* the embedded table with the builtin prices
    Refreshed,      \* what LiteLLM publishes
    Overrides,      \* the user's prices
    ModelsDev,      \* what models.dev publishes
    Snapshot,       \* the embedded snapshot of models.dev
    MaxFetches,     \* bound on fetches of models.dev
    Unset

VARIABLES
    offline,        \* --offline
    primary,        \* the tables of load_with_overrides, Unset before
    find_cache,     \* per model looked up: the price, or that there is none
    models_dev,     \* ModelsDevPricingCache::pricing is set
    last_failure,   \* "none", "recent" or "old"
    fetches,
    step,           \* per thread: the line it is at
    found,          \* per thread: what its lookup has come to
    again,          \* per thread: whether it looks the model up again
    costed          \* per thread: its records' prices, and whether they are told to have none

prvars == <<offline, primary, find_cache, models_dev, last_failure, fetches, step, found, again, costed>>

ModelOf(r) == Records[r][Len(costed[r]) + 1].model
HasTokens(r) == Records[r][Len(costed[r]) + 1].tokens

Goto(r, line) == step' = [step EXCEPT ![r] = line]

----------------------------------------------------------------------------
\* PricingMap::load_with_overrides: the refresh may fail.
Load ==
    /\ primary = Unset
    /\ \E refreshed \in BOOLEAN :
          /\ offline => ~refreshed
          /\ primary' = Builtin \cup Overrides \cup (IF refreshed THEN Refreshed ELSE {})
    /\ UNCHANGED <<offline, find_cache, models_dev, last_failure, fetches, step, found, again, costed>>

\* find: the cache.
Look(r) ==
    /\ primary # Unset
    /\ step[r] = "look" /\ Len(costed[r]) < Len(Records[r])
    /\ IF ModelOf(r) \in DOMAIN find_cache
       THEN /\ Goto(r, "answer")
            /\ found' = [found EXCEPT ![r] = find_cache[ModelOf(r)]]
       ELSE /\ Goto(r, "tables")
            /\ UNCHANGED found
    /\ UNCHANGED <<offline, primary, find_cache, models_dev, last_failure, fetches, again, costed>>

\* find: the lock is dropped; find_entry_or_alias of the name and of its alias.
LookUpPrimary(r) ==
    /\ step[r] = "tables"
    /\ IF ModelOf(r) \in primary
       THEN found' = [found EXCEPT ![r] = "primary"] /\ Goto(r, "store")
       ELSE Goto(r, IF offline THEN "snapshot" ELSE "models_dev") /\ UNCHANGED found
    /\ UNCHANGED <<offline, primary, find_cache, models_dev, last_failure, fetches, again, costed>>

\* get_or_try_load: the table if it is there, nothing soon after a failure.
GetModelsDev(r) ==
    /\ step[r] = "models_dev"
    /\ Goto(r, IF models_dev THEN "fetched" ELSE IF last_failure = "recent" THEN "snapshot" ELSE "fetch")
    /\ UNCHANGED <<offline, primary, find_cache, models_dev, last_failure, fetches, found, again, costed>>

\* fetch_models_dev_json; fetches are not serialized.
Fetch(r) ==
    /\ step[r] = "fetch"
    /\ fetches < MaxFetches
    /\ fetches' = fetches + 1
    /\ \/ /\ Goto(r, "fetched")
          /\ models_dev' = TRUE
          /\ last_failure' = "none"
       \/ /\ Goto(r, "snapshot")
          /\ last_failure' = "recent"
          /\ UNCHANGED models_dev
    /\ UNCHANGED <<offline, primary, find_cache, found, again, costed>>

LookUpModelsDev(r) ==
    /\ step[r] = "fetched"
    /\ IF ModelOf(r) \in ModelsDev
       THEN found' = [found EXCEPT ![r] = "models.dev"] /\ Goto(r, "store")
       ELSE Goto(r, "snapshot") /\ UNCHANGED found
    /\ UNCHANGED <<offline, primary, find_cache, models_dev, last_failure, fetches, again, costed>>

LookUpSnapshot(r) ==
    /\ step[r] = "snapshot"
    /\ found' = [found EXCEPT ![r] = IF ModelOf(r) \in Snapshot THEN "snapshot" ELSE "nothing"]
    /\ Goto(r, "store")
    /\ UNCHANGED <<offline, primary, find_cache, models_dev, last_failure, fetches, again, costed>>

Remember(cache, model, price) ==
    [m \in DOMAIN cache \cup {model} |-> IF m = model THEN price ELSE cache[m]]

\* Mutant: only prices are kept.
StoredIfFound(cache, model, price) == IF price = "nothing" THEN cache ELSE Remember(cache, model, price)

\* What is kept of a lookup: a miss is as well.
Stored(cache, model, price) == Remember(cache, model, price)

Store(r) ==
    /\ step[r] = "store"
    /\ find_cache' = Stored(find_cache, ModelOf(r), found[r])
    /\ Goto(r, "answer")
    /\ UNCHANGED <<offline, primary, models_dev, last_failure, fetches, found, again, costed>>

Cost(r, price, missing) ==
    /\ costed' = [costed EXCEPT ![r] = Append(@, [price |-> price, missing |-> missing])]
    /\ again' = [again EXCEPT ![r] = FALSE]

\* cost_and_missing_model_for_usage: a record with tokens and without a price is looked up again
\* to be told of (missing_pricing_model_for_token_total).
Answer(r) ==
    /\ step[r] = "answer"
    /\ Goto(r, "look")
    /\ IF again[r] THEN Cost(r, "nothing", found[r] = "nothing")
       ELSE IF found[r] # "nothing" \/ ~HasTokens(r) THEN Cost(r, found[r], FALSE)
       ELSE again' = [again EXCEPT ![r] = TRUE] /\ UNCHANGED costed
    /\ UNCHANGED <<offline, primary, find_cache, models_dev, last_failure, fetches, found>>

\* failure_retry_after passes.
RetryAgain ==
    /\ last_failure = "recent"
    /\ last_failure' = "old"
    /\ UNCHANGED <<offline, primary, find_cache, models_dev, fetches, step, found, again, costed>>

----------------------------------------------------------------------------
PRInit ==
    /\ offline \in BOOLEAN
    /\ primary = Unset
    /\ find_cache = <<>>
    /\ models_dev = FALSE
    /\ last_failure = "none"
    /\ fetches = 0
    /\ step = [r \in Reader |-> "look"]
    /\ found = [r \in Reader |-> "nothing"]
    /\ again = [r \in Reader |-> FALSE]
    /\ costed = [r \in Reader |-> <<>>]

PRNext ==
    \/ Load \/ RetryAgain
    \/ \E r \in Reader :
          \/ Look(r) \/ LookUpPrimary(r) \/ GetModelsDev(r) \/ Fetch(r)
          \/ LookUpModelsDev(r) \/ LookUpSnapshot(r) \/ Store(r) \/ Answer(r)

----------------------------------------------------------------------------
AllCosted == \A r \in Reader : Len(costed[r]) = Len(Records[r])

\* A report whose records of a model cost nothing for want of a price tells so of the model,
\* however fetches that fail and succeed come between a record's two lookups.
PricedOrTold ==
    AllCosted => \A r \in Reader : \A n \in DOMAIN Records[r] :
        Records[r][n].tokens =>
            \E q \in Reader : \E k \in DOMAIN Records[q] :
                /\ Records[q][k].model = Records[r][n].model /\ Records[q][k].tokens
                /\ costed[q][k].price # "nothing" \/ costed[q][k].missing

=============================================================================
