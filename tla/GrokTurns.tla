------------------------------ MODULE GrokTurns ------------------------------
(***************************************************************************)
(* Grok's log names no model: the files of its sessions tell which one the *)
(* turns ran with, and a request is of the turn it falls into              *)
(* (grok/src/parser.rs).                                                   *)
(***************************************************************************)
EXTENDS Integers, FiniteSets, SequencesExt

CONSTANT Unknown        \* UNKNOWN_MODEL

\* record_model_event: behind what is no later; a turn that is there is not added.
RecordModelEvent(events, turn) ==
    IF turn \in ToSet(events) THEN events
    ELSE LET n == Cardinality({i \in DOMAIN events : events[i].at <= turn.at})
         IN  InsertAt(events, n + 1, turn)

\* Mutant: of the last turn there is.
LatestModel(events, at) == IF events = <<>> THEN Unknown ELSE Last(events).model

\* model_at: of the last turn until then, or of the first.
ModelAt(events, at) ==
    LET n == Cardinality({i \in DOMAIN events : events[i].at <= at})
    IN  IF events = <<>> THEN Unknown ELSE IF n > 0 THEN events[n].model ELSE events[1].model
=============================================================================
