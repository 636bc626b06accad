------------------------------ MODULE AllReport -----------------------------
(***************************************************************************)
(* The report of all agents (load_agent_rows_parallel and around it, in    *)
(* turbotokens-adapter-all) with the spinner it shows (progress.rs).       *)
(*                                                                         *)
(* Every agent's loader is a thread that sends its rows or its error over  *)
(* a channel, or panics.  A session of the spinner has a thread that draws *)
(* until the session's owner stops it.  The registry of sessions is local  *)
(* to a thread: a loader that fetches prices starts one beside the main    *)
(* thread's, on the same line of the terminal.                             *)
(*                                                                         *)
(* Of a row its period and tokens are kept.                                *)
(***************************************************************************)
EXTENDS Integers, SequencesExt

CONSTANTS
    Agents,         \* number of agents: agent i has index i
    Fetching,       \* agents whose loader shows a status of its own
    RowsOfAgent,    \* RowsOfAgent[i]: the rows agent i's logs come to, as <<period, tokens>>
    MainThread      \* the main thread

Agent == 1..Agents
Owner == {MainThread} \cup Fetching

\* The main thread is told from the loaders' by what it is numbered.
ASSUME ARAssumption == Agents \in Nat /\ Fetching \subseteq Agent /\ MainThread \notin Agent

ASSUME RowsAssumption == RowsOfAgent \in [Agent -> Seq(STRING \X Nat)]

VARIABLES
    outcome,        \* per agent: how its loader ends
    enabled,        \* whether progress is shown
    loader,         \* per agent: where its thread is
    senders,        \* who holds a sender of the channel
    channel,        \* messages sent and not received
    main,           \* where the main thread is
    joined,         \* how many loaders it has joined
    loaded,         \* rows received, in order
    errors,         \* agents whose errors were noted, in order
    result,         \* what load_base_rows returns
    states,         \* per agent: what the main thread's line shows of it
    session,        \* per owner: its session of the spinner
    cursor          \* whether the terminal shows its cursor

arvars == <<outcome, enabled, loader, senders, channel, main, joined, loaded, errors, result,
            states, session, cursor>>
spinner == <<session, cursor>>

----------------------------------------------------------------------------
(***************************************************************************)
(* The spinner.                                                            *)
(***************************************************************************)
NoSession == [running |-> FALSE, worker |-> "none", rendered |-> FALSE]

\* UsageLoadProgress::new.
Open(o) ==
    session' = IF enabled
               THEN [session EXCEPT ![o] = [running |-> TRUE, worker |-> "draw", rendered |-> FALSE]]
               ELSE session

HasContent(o) == o # MainThread \/ \E a \in Agent : states[a] # "unknown"

\* The thread draws a frame, which hides the cursor ...
Draw(o) ==
    /\ session[o].worker = "draw"
    /\ session' = [session EXCEPT ![o].worker = "check",
                                  ![o].rendered = @ \/ HasContent(o)]
    /\ cursor' = (cursor /\ ~HasContent(o))
    /\ UNCHANGED <<outcome, enabled, loader, senders, channel, main, joined, loaded, errors, result,
                   states>>

\* ... and ends if it was stopped, or waits for the interval to pass or for being woken.
Check(o) ==
    /\ session[o].worker \in {"check", "wait"}
    /\ session' = [session EXCEPT ![o].worker =
                      IF ~session[o].running THEN "over"
                      ELSE IF session[o].worker = "check" THEN "wait" ELSE "draw"]
    /\ UNCHANGED <<outcome, enabled, loader, senders, channel, main, joined, loaded, errors, result,
                   states, cursor>>

\* stop: the flag, then the join, then the line and the cursor.
StopFlag(o) == session' = [session EXCEPT ![o].running = FALSE]

\* Mutant: the thread is not waited for.
StoppedSoon(o) == ~session[o].running

Stopped(o) == session[o].worker = "over"

Restore(o) ==
    /\ cursor' = (cursor \/ session[o].rendered)
    /\ UNCHANGED session

----------------------------------------------------------------------------
(***************************************************************************)
(* The loaders' threads.                                                   *)
(***************************************************************************)
Step(a, before, after) ==
    /\ loader[a] = before
    /\ loader' = [loader EXCEPT ![a] = after]
    /\ UNCHANGED <<outcome, enabled, main, joined, loaded, errors, result, states>>

\* Reading the logs ends one way or the other; prices are fetched meanwhile.
Load(a) ==
    \/ /\ a \notin Fetching \/ ~enabled
       /\ Step(a, "load", "ended")
       /\ UNCHANGED <<senders, channel, spinner>>
    \/ /\ a \in Fetching /\ enabled
       /\ Step(a, "load", "fetch")
       /\ Open(a)
       /\ UNCHANGED <<senders, channel, cursor>>

\* track_status ends, or unwinds: both stop the session.
FetchEnds(a) ==
    /\ Step(a, "fetch", "stop")
    /\ StopFlag(a)
    /\ UNCHANGED <<senders, channel, cursor>>

FetchStops(a) ==
    /\ Step(a, "stop", "ended")
    /\ Stopped(a)
    /\ Restore(a)
    /\ UNCHANGED <<senders, channel>>

\* A loader that does not panic sends what it has; its sender goes with it.
Send(a) ==
    /\ Step(a, "ended", "over")
    /\ senders' = senders \ {a}
    /\ channel' = IF outcome[a] = "panic" THEN channel ELSE Append(channel, a)
    /\ UNCHANGED spinner

----------------------------------------------------------------------------
(***************************************************************************)
(* The main thread.                                                        *)
(***************************************************************************)
Main(before, after) ==
    /\ main = before
    /\ main' = after
    /\ UNCHANGED <<outcome, enabled>>

\* load_base_rows opens the session and enters the agents.
StartProgress ==
    /\ Main("new", "spawn")
    /\ Open(MainThread)
    /\ states' = [a \in Agent |-> "loading"]
    /\ UNCHANGED <<loader, senders, channel, joined, loaded, errors, result, cursor>>

\* Mutant: the main thread keeps a sender.
SpawnAndKeep ==
    /\ Main("spawn", "receive")
    /\ loader' = [a \in Agent |-> "load"]
    /\ senders' = Agent \cup {MainThread}
    /\ UNCHANGED <<channel, joined, loaded, errors, result, states, spinner>>

\* The threads have a sender each; the main thread drops its own.
Spawn ==
    /\ Main("spawn", "receive")
    /\ loader' = [a \in Agent |-> "load"]
    /\ senders' = Agent
    /\ UNCHANGED <<channel, joined, loaded, errors, result, states, spinner>>

Receive ==
    /\ channel # <<>>
    /\ Main("receive", "receive")
    /\ channel' = Tail(channel)
    /\ LET a == Head(channel) IN
       IF outcome[a] = "rows"
       THEN /\ loaded' = Append(loaded, a)
            /\ states' = [states EXCEPT ![a] = "succeeded"]
            /\ UNCHANGED errors
       ELSE /\ errors' = Append(errors, a)
            /\ states' = [states EXCEPT ![a] = "failed"]
            /\ UNCHANGED loaded
    /\ UNCHANGED <<loader, senders, joined, result, spinner>>

\* The receiver ends when nobody is left to send.
ReceiverEnds ==
    /\ channel = <<>> /\ senders = {}
    /\ Main("receive", "join")
    /\ UNCHANGED <<loader, senders, channel, joined, loaded, errors, result, states, spinner>>

Join ==
    /\ joined < Agents
    /\ loader[joined + 1] = "over"
    /\ Main("join", "join")
    /\ joined' = joined + 1
    /\ IF outcome[joined + 1] = "panic"
       THEN /\ errors' = Append(errors, joined + 1)
            /\ states' = [states EXCEPT ![joined + 1] = "failed"]
       ELSE UNCHANGED <<errors, states>>
    /\ UNCHANGED <<loader, senders, channel, loaded, result, spinner>>

InOrder(agents) ==
    CHOOSE order \in [DOMAIN agents -> ToSet(agents)] :
        \A i, j \in DOMAIN agents : i < j => order[i] < order[j]

\* The rows of a period added to its group, one by one.
SumIn(rows, p) ==
    LET upTo[n \in 0..Len(rows)] ==
            IF n = 0 THEN 0 ELSE upTo[n - 1] + (IF rows[n][1] = p THEN rows[n][2] ELSE 0)
    IN  upTo[Len(rows)]

AgentsIn(agents, p) == {a \in ToSet(agents) : \E row \in ToSet(RowsOfAgent[a]) : row[1] = p}

\* aggregate_rows: per period the sum and the agents it is of.
Aggregated(agents) ==
    LET rows == FlattenSeq([i \in DOMAIN agents |-> RowsOfAgent[agents[i]]])
    IN  [p \in {row[1] : row \in ToSet(rows)} |->
            [tokens |-> SumIn(rows, p), agents |-> AgentsIn(agents, p)]]

\* A Result: the agent whose error it is, or the rows by period.
Ok(rows) == [error |-> MainThread, rows |-> rows]
Err(agent) == [error |-> agent, rows |-> <<>>]

\* Mutant: the error that came first is reported.
FirstNoted == IF errors # <<>> THEN Err(Head(errors)) ELSE Ok(Aggregated(InOrder(loaded)))

\* The first error in the order of the agents comes before rows in that order.
Outcome == IF errors # <<>> THEN Err(Min(ToSet(errors))) ELSE Ok(Aggregated(InOrder(loaded)))

Finish ==
    /\ joined = Agents
    /\ Main("join", "stop")
    /\ result' = Outcome
    /\ IF enabled THEN StopFlag(MainThread) ELSE UNCHANGED session
    /\ UNCHANGED <<loader, senders, channel, joined, loaded, errors, states, cursor>>

\* The session is dropped on the way out.
Return ==
    /\ ~enabled \/ Stopped(MainThread)
    /\ Main("stop", "done")
    /\ IF enabled THEN Restore(MainThread) ELSE UNCHANGED spinner
    /\ states' = [a \in Agent |-> "unknown"]
    /\ UNCHANGED <<loader, senders, channel, joined, loaded, errors, result>>

----------------------------------------------------------------------------
ARInit ==
    /\ outcome \in [Agent -> {"rows", "error", "panic"}]
    /\ enabled \in BOOLEAN
    /\ loader = [a \in Agent |-> "new"]
    /\ senders = {MainThread}
    /\ channel = <<>>
    /\ main = "new"
    /\ joined = 0
    /\ loaded = <<>>
    /\ errors = <<>>
    /\ result = Ok(<<>>)
    /\ states = [a \in Agent |-> "unknown"]
    /\ session = [o \in Owner |-> NoSession]
    /\ cursor = TRUE

MainStep == StartProgress \/ Spawn \/ Receive \/ ReceiverEnds \/ Join \/ Finish \/ Return
LoaderStep(a) == Load(a) \/ FetchEnds(a) \/ FetchStops(a) \/ Send(a)
DrawStep(o) == Draw(o) \/ Check(o)

ARNext ==
    \/ MainStep
    \/ \E a \in Agent : LoaderStep(a)
    \/ \E o \in Owner : DrawStep(o)

\* Threads run.
ARFair == /\ WF_arvars(MainStep)
          /\ \A a \in Agent : WF_arvars(LoaderStep(a))
          /\ \A o \in Owner : WF_arvars(DrawStep(o))

ARSpec == ARInit /\ [][ARNext]_arvars /\ ARFair

----------------------------------------------------------------------------
Failing == {a \in Agent : outcome[a] # "rows"}

Periods == {row[1] : row \in UNION {ToSet(RowsOfAgent[a]) : a \in Agent}}

\* What all agents have in the period.
Spent(p) ==
    LET upTo[a \in 0..Agents] == IF a = 0 THEN 0 ELSE upTo[a - 1] + SumIn(RowsOfAgent[a], p)
    IN  upTo[Agents]

Having(p) == {a \in Agent : \E row \in ToSet(RowsOfAgent[a]) : row[1] = p}

\* Whatever order the threads end in, the report is the sums of all agents' rows, or the error of
\* the first agent that has one (load_base_rows): never a report that silently misses an agent.
AllOrFirstError ==
    main = "done" =>
        IF Failing # {} THEN result.error \in Failing /\ \A a \in Failing : result.error <= a
        ELSE /\ result.error = MainThread
             /\ DOMAIN result.rows = Periods
             /\ \A p \in Periods :
                   result.rows[p].tokens = Spent(p) /\ result.rows[p].agents = Having(p)

\* After the report no thread draws and the cursor is back, with two spinners on one line and with
\* loaders that fail and panic.
TidyEnd ==
    main = "done" => cursor /\ \A o \in Owner : session[o].worker \in {"none", "over"}

\* The report ends.
ReportEnds == <>(main = "done")
=============================================================================
