----------------------------- MODULE MCLiveViews ----------------------------
(***************************************************************************)
(* The live view of one agent: of Codex, as in MCCodexLive, or of Grok,    *)
(* with two sessions over one log, of which the first changes its model    *)
(* between its two requests and the second names none.                     *)
(***************************************************************************)
EXTENDS MCCodexLive, GrokLive

VARIABLE agent

----------------------------------------------------------------------------
GrokTurn(s, at, model) == [kind |-> "turn", session |-> s, at |-> at, model |-> model]
GrokRequest(s, at) == [kind |-> "request", session |-> s, at |-> at, model |-> None]

GrokScript(s) ==
    IF s = "a" THEN <<GrokTurn("a", 1, "grok-4"), GrokRequest("a", 2),
                      GrokTurn("a", 3, "grok-code"), GrokRequest("a", 4)>>
    ELSE <<GrokRequest("b", 2)>>

MCGrokLine == UNION {ToSet(GrokScript(s)) : s \in Session}

----------------------------------------------------------------------------
\* Of a view that does not run one initial state will do.
ViewsInit ==
    /\ agent \in {"codex", "grok"}
    /\ Init
    /\ agent = "grok" => \A f \in File : disk[f] = Gone /\ career[f] = <<Alike>>
    /\ GrokInit

ViewsNext ==
    \/ agent = "codex" /\ Next /\ UNCHANGED <<agent, grokVars>>
    \/ agent = "grok" /\ GrokNext /\ UNCHANGED <<agent, vars>>

\* The fairness of the view that runs.
ViewsSpec ==
    /\ ViewsInit /\ [][ViewsNext]_<<agent, vars, grokVars>>
    /\ []<><<pc' # pc \/ grok_pc' # grok_pc>>_<<pc, grok_pc>>

----------------------------------------------------------------------------
\* Every request of logs that come to rest is streamed, whatever happened to them meanwhile, by
\* the view of either agent (run_live of codex/src/live.rs and of grok/src/live.rs).
ViewsCatchUp == (agent = "codex" => CatchesUp) /\ (agent = "grok" => GrokCatchesUp)
=============================================================================
