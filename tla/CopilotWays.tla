----------------------------- MODULE CopilotWays -----------------------------
(***************************************************************************)
(* Copilot exports a request in several ways (copilot/src/parser.rs): the  *)
(* span of the chat, records of the inference and of the turn, and the     *)
(* span of the agent, which sums up.                                       *)
(***************************************************************************)
EXTENDS Integers, Sequences

CONSTANT None

Ways == <<"chat", "inference", "turn", "summary">>

Better(way) == {Ways[i] : i \in {j \in DOMAIN Ways : \E k \in DOMAIN Ways : Ways[k] = way /\ j < k}}

\* should_emit_candidate: no better way tells of the trace or of the response.
Emitted(record, records) ==
    \A i \in DOMAIN records :
        records[i].way \in Better(record.way) =>
            /\ record.trace = None \/ record.trace # records[i].trace
            /\ record.response = None \/ record.response # records[i].response
=============================================================================
