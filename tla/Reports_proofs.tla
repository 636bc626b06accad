--------------------------- MODULE Reports_proofs ---------------------------
(***************************************************************************)
(* For all agents, runs, timelines, clocks and durations: the report of    *)
(* all agents, the status line and the blocks of entries.                  *)
(***************************************************************************)
EXTENDS AllReport, Statusline, SessionBlocks, SequenceFacts, FiniteSetTheorems

----------------------------------------------------------------------------
(***************************************************************************)
(* The report of all agents.  For any number of agents, however their      *)
(* threads interleave and whichever of them fail or panic: the report is   *)
(* of every agent, each once, or the error of the first that has one; and  *)
(* when it is there, no thread draws and the terminal shows its cursor.    *)
(*                                                                         *)
(* The invariant follows each agent's message from its thread through the  *)
(* channel to the lists, and each spinner from its owner's opening it to   *)
(* the owner's restoring the cursor.                                       *)
(***************************************************************************)
USE ARAssumption

Workers == {"none", "draw", "check", "wait", "over"}

\* Every variable has its type.
ARTypeOK ==
    /\ outcome \in [Agent -> {"rows", "error", "panic"}]
    /\ enabled \in BOOLEAN
    /\ loader \in [Agent -> {"new", "load", "fetch", "stop", "ended", "over"}]
    /\ senders \subseteq Agent \cup {MainThread}
    /\ channel \in Seq(Agent)
    /\ main \in {"new", "spawn", "receive", "join", "stop", "done"}
    /\ joined \in 0..Agents
    /\ loaded \in Seq(Agent)
    /\ errors \in Seq(Agent)
    /\ states \in [Agent -> {"unknown", "loading", "succeeded", "failed"}]
    /\ session \in [Owner -> [running: BOOLEAN, worker: Workers, rendered: BOOLEAN]]
    /\ cursor \in BOOLEAN

\* A thread has its sender until it is over; the main thread has none from when it receives, and
\* it receives until nobody has one.
Phases ==
    /\ main \in {"new", "spawn"} => joined = 0 /\ \A a \in Agent : loader[a] = "new"
    /\ main \notin {"new", "spawn"} => senders = {a \in Agent : loader[a] # "over"}
    /\ main = "receive" => joined = 0
    /\ main \in {"join", "stop", "done"} => senders = {} /\ channel = <<>>
    /\ main \in {"stop", "done"} => joined = Agents

Received == ToSet(loaded) \cup ToSet(errors)

\* A loader that is over has its message in the channel or received, once; one that panicked is
\* noted when it is joined.
Messages ==
    /\ \A a \in Agent : outcome[a] # "panic" =>
          (loader[a] = "over" <=> a \in ToSet(channel) \cup Received)
    /\ \A a \in Agent : outcome[a] = "panic" => (a <= joined <=> a \in ToSet(errors))
    /\ \A a \in ToSet(channel) : outcome[a] # "panic"
    /\ \A a \in ToSet(loaded) : outcome[a] = "rows"
    /\ \A a \in ToSet(errors) : outcome[a] # "rows"
    /\ ToSet(channel) \cap Received = {}
    /\ IsInjective(channel) /\ IsInjective(loaded) /\ IsInjective(errors)

Told == main \in {"stop", "done"} => result = Outcome

\* The owner of a session has opened it and not yet restored the cursor.
InSession(o) == IF o = MainThread THEN main # "done" ELSE loader[o] \in {"fetch", "stop"}

\* A thread draws for an owner in session, and who hid the cursor will restore it.
Spinners ==
    /\ \A o \in Owner : session[o].worker \in {"draw", "check", "wait"} => InSession(o)
    /\ \A o \in Owner : session[o].rendered => session[o].worker # "none"
    /\ \A o \in Owner : session[o].worker # "none" => enabled
    /\ main = "new" => session[MainThread].worker = "none"
    /\ ~cursor => \E o \in Owner : session[o].rendered /\ InSession(o)

Inv == ARTypeOK /\ Phases /\ Messages /\ Told /\ Spinners

\* Nothing is sent, noted or drawn before the report is asked for.
LEMMA InitKeeps == ARInit => Inv
<1> SUFFICES ASSUME ARInit PROVE Inv
  OBVIOUS
<1> USE DEF ARInit
<1>1. ARTypeOK
  BY DEF ARTypeOK, NoSession, Workers
<1>4. Phases /\ Told
  BY DEF Phases, Told
<1>5. MainThread \in Owner /\ \A o \in Owner : session[o].worker = "none" /\ ~session[o].rendered
  BY DEF NoSession, Owner
<1>2. Phases /\ Told /\ Spinners
  BY <1>4, <1>5 DEF Spinners
<1>3. Messages
  BY EmptyElements, EmptyInjective DEF Messages, Received
<1> QED  BY <1>1, <1>2, <1>3 DEF Inv

\* The spinners' threads touch their sessions and the cursor only.
LEMMA DrawKeeps ==
    ASSUME Inv, NEW o \in Owner, DrawStep(o)
    PROVE  Inv'
<1>0. /\ UNCHANGED <<outcome, enabled, loader, senders, channel, main, joined, loaded, errors,
                     result, states>>
      /\ session[o].worker \in {"draw", "check", "wait"}
  BY DEF DrawStep, Draw, Check
<1>1. Phases' /\ Messages' /\ Told'
  BY <1>0 DEF Inv, Phases, Messages, Received, Told, Outcome
<1>2. CASE Draw(o)
  <2> DEFINE seen == session[o].rendered \/ HasContent(o)
  <2>0. /\ session' = [session EXCEPT ![o].worker = "check", ![o].rendered = seen]
        /\ cursor' = (cursor /\ ~HasContent(o)) /\ session[o].worker = "draw"
    BY <1>2 DEF Draw
  <2>3. seen \in BOOLEAN /\ cursor' \in BOOLEAN /\ (HasContent(o) => seen)
    BY <2>0, Zenon DEF HasContent
  <2> HIDE DEF seen
  <2>1. ARTypeOK'
    BY <1>0, <2>0, <2>3 DEF Inv, ARTypeOK, Workers
  <2>4. /\ session'[o].worker = "check" /\ (session'[o].rendered <=> seen)
        /\ \A p \in Owner \ {o} : session'[p] = session[p]
    BY <2>0, <2>3 DEF Inv, ARTypeOK
  <2>5. /\ \A p \in Owner : InSession(p)' = InSession(p)
        /\ InSession(o) /\ enabled /\ (main = "new" => o # MainThread)
    BY <1>0, <2>0 DEF InSession, Inv, Spinners
  <2>6. session[o].rendered => seen
    BY DEF seen
  <2>2. Spinners'
    <3>1. \A p \in Owner : session[p].rendered => session'[p].rendered
      BY <2>4, <2>6
    <3>2. ~cursor' => ~cursor \/ HasContent(o)
      BY <2>0
    <3>3. ~cursor' => \E p \in Owner : session'[p].rendered /\ InSession(p)'
      BY <2>3, <2>4, <2>5, <3>1, <3>2 DEF Inv, Spinners
    <3>4. \A p \in Owner : session'[p].worker \in {"draw", "check", "wait"} => InSession(p)'
      BY <2>4, <2>5 DEF Inv, Spinners
    <3>5. \A p \in Owner : session'[p].rendered => session'[p].worker # "none"
      BY <2>4 DEF Inv, Spinners
    <3>7. \A p \in Owner : session'[p].worker # "none" => enabled'
      BY <1>0, <2>5
    <3>6. main' = "new" => session'[MainThread].worker = "none"
      BY <1>0, <2>4, <2>5 DEF Inv, Spinners, Owner
    <3> QED  BY <3>3, <3>4, <3>5, <3>6, <3>7, Zenon DEF Spinners
  <2> QED  BY <1>1, <2>1, <2>2 DEF Inv
<1>3. CASE Check(o)
  <2>1. ARTypeOK'
    BY <1>3 DEF Check, Inv, ARTypeOK, Workers
  <2>2. Spinners'
    BY <1>0, <1>3 DEF Check, Inv, ARTypeOK, Spinners, InSession
  <2> QED  BY <1>1, <2>1, <2>2 DEF Inv
<1> QED  BY <1>2, <1>3 DEF DrawStep

\* The parts of the invariant about messages, when nothing of them changes.
LEMMA MessagesSame ==
    ASSUME Messages, UNCHANGED <<outcome, channel, joined, loaded, errors>>,
           \A a \in Agent : loader'[a] = "over" <=> loader[a] = "over"
    PROVE  Messages'
  BY DEF Messages, Received

\* A loader reads, fetches under its spinner, and sends.
LEMMA LoaderKeeps ==
    ASSUME Inv, NEW a \in Agent, LoaderStep(a)
    PROVE  Inv'
<1>0. /\ UNCHANGED <<outcome, enabled, main, joined, loaded, errors, result, states>>
      /\ main \notin {"new", "spawn"}
      /\ loader[a] # "over" /\ senders # {}
  <2>1. loader[a] \notin {"new", "over"}
    BY DEF LoaderStep, Load, FetchEnds, FetchStops, Send, Step
  <2> QED  BY <2>1 DEF LoaderStep, Load, FetchEnds, FetchStops, Send, Step, Inv, Phases
<1>1. main = "receive"
  BY <1>0 DEF Inv, Phases, ARTypeOK
<1>2. Told'
  BY <1>0, <1>1 DEF Told
<1>3. ASSUME NEW before, NEW after \in {"fetch", "stop", "ended"}, Step(a, before, after),
             UNCHANGED <<senders, channel>>
      PROVE  /\ loader' \in [Agent -> {"new", "load", "fetch", "stop", "ended", "over"}]
             /\ loader'[a] = after /\ \A b \in Agent \ {a} : loader'[b] = loader[b]
             /\ Phases' /\ Messages'
  <2>1. /\ loader' \in [Agent -> {"new", "load", "fetch", "stop", "ended", "over"}]
        /\ loader'[a] = after /\ \A b \in Agent \ {a} : loader'[b] = loader[b]
    BY <1>3 DEF Step, Inv, ARTypeOK
  <2>2. Phases'
    BY <1>0, <1>1, <1>3, <2>1 DEF Inv, Phases
  <2>3. Messages'
    BY <1>0, <1>3, <2>1, MessagesSame DEF Inv
  <2> QED  BY <2>1, <2>2, <2>3
<1>4. MainThread # a
  OBVIOUS
<1>5. CASE Load(a)
  <2>1. CASE Step(a, "load", "ended") /\ UNCHANGED <<senders, channel, spinner>>
    <3>1. Spinners'
      BY <1>0, <1>3, <2>1 DEF Inv, Spinners, InSession, spinner, Step
    <3> QED  BY <1>0, <1>2, <1>3, <2>1, <3>1 DEF Inv, ARTypeOK, spinner
  <2>2. CASE /\ a \in Fetching /\ enabled /\ Step(a, "load", "fetch") /\ Open(a)
             /\ UNCHANGED <<senders, channel, cursor>>
    <3>1. /\ session' = [session EXCEPT
                           ![a] = [running |-> TRUE, worker |-> "draw", rendered |-> FALSE]]
          /\ a \in Owner /\ loader[a] = "load"
      BY <2>2 DEF Open, Owner, Step
    <3>2. ~(session[a].rendered /\ InSession(a))
      BY <1>4, <3>1 DEF InSession
    <3>4. /\ session'[a].worker = "draw" /\ ~session'[a].rendered
          /\ \A o \in Owner \ {a} : session'[o] = session[o]
      BY <3>1 DEF Inv, ARTypeOK
    <3>5. /\ InSession(a)' /\ \A o \in Owner \ {a} : InSession(o)' = InSession(o)
      BY <1>0, <1>3, <1>4, <2>2, <3>1 DEF InSession, Owner
    <3>6. ~cursor' => \E o \in Owner \ {a} : session[o].rendered /\ InSession(o)
      BY <2>2, <3>2 DEF Inv, Spinners
    <3>3. Spinners'
      BY <1>0, <2>2, <3>4, <3>5, <3>6 DEF Inv, Spinners
    <3> QED  BY <1>0, <1>2, <1>3, <2>2, <3>1, <3>3 DEF Inv, ARTypeOK, Workers
  <2> QED  BY <1>5, <2>1, <2>2 DEF Load
<1>6. CASE FetchEnds(a)
  <2>1. /\ session' = [session EXCEPT ![a].running = FALSE] /\ Step(a, "fetch", "stop")
        /\ UNCHANGED <<senders, channel, cursor>>
    BY <1>6 DEF FetchEnds, StopFlag
  <2>2. Spinners'
    BY <1>0, <1>1, <1>3, <1>4, <2>1 DEF Inv, ARTypeOK, Spinners, InSession, Step
  <2> QED  BY <1>0, <1>2, <1>3, <2>1, <2>2 DEF Inv, ARTypeOK
<1>7. CASE FetchStops(a)
  <2>1. /\ Step(a, "stop", "ended") /\ session[a].worker = "over"
        /\ cursor' = (cursor \/ session[a].rendered)
        /\ UNCHANGED <<senders, channel, session>>
    BY <1>7 DEF FetchStops, Stopped, Restore
  <2>2. Spinners'
    BY <1>0, <1>1, <1>3, <1>4, <2>1 DEF Inv, ARTypeOK, Spinners, InSession, Step
  <2>3. cursor' \in BOOLEAN
    BY <2>1
  <2> QED  BY <1>0, <1>2, <1>3, <2>1, <2>2, <2>3 DEF Inv, ARTypeOK
<1>8. CASE Send(a)
  <2>1. /\ loader[a] = "ended" /\ loader' = [loader EXCEPT ![a] = "over"]
        /\ senders' = senders \ {a} /\ UNCHANGED <<session, cursor>>
        /\ channel' = IF outcome[a] = "panic" THEN channel ELSE Append(channel, a)
    BY <1>8 DEF Send, Step, spinner
  <2>2. /\ loader'[a] = "over" /\ \A b \in Agent \ {a} : loader'[b] = loader[b]
        /\ loader' \in [Agent -> {"new", "load", "fetch", "stop", "ended", "over"}]
    BY <2>1 DEF Inv, ARTypeOK
  <2>3. Phases'
    BY <1>0, <1>1, <2>1, <2>2 DEF Inv, Phases
  <2>4. Spinners'
    BY <1>0, <1>4, <2>1, <2>2 DEF Inv, Spinners, InSession
  <2>5. CASE outcome[a] = "panic"
    <3>1. Messages'
      BY <1>0, <2>1, <2>2, <2>5 DEF Inv, Messages, Received
    <3> QED  BY <1>0, <1>2, <2>1, <2>2, <2>3, <2>4, <2>5, <3>1 DEF Inv, ARTypeOK
  <2>6. CASE outcome[a] # "panic"
    <3>1. a \notin ToSet(channel) \cup Received
      BY <1>0, <2>6 DEF Inv, Messages
    <3>2. /\ channel' \in Seq(Agent) /\ ToSet(channel') = ToSet(channel) \cup {a}
          /\ IsInjective(channel')
      BY <2>1, <2>6, <3>1, Enqueued DEF Inv, ARTypeOK, Messages
    <3>3. Messages'
      BY <1>0, <2>1, <2>2, <2>6, <3>1, <3>2 DEF Inv, Messages, Received
    <3> QED  BY <1>0, <1>2, <2>1, <2>2, <2>3, <2>4, <3>2, <3>3 DEF Inv, ARTypeOK
  <2> QED  BY <2>5, <2>6
<1> QED  BY <1>5, <1>6, <1>7, <1>8 DEF LoaderStep

\* The main thread opens its session and starts the loaders.
LEMMA StartKeeps ==
    ASSUME Inv, StartProgress \/ Spawn
    PROVE  Inv'
<1>0. /\ UNCHANGED <<outcome, enabled, channel, joined, loaded, errors, result, cursor>>
      /\ main \in {"new", "spawn"} /\ joined = 0 /\ \A a \in Agent : loader[a] = "new"
  BY DEF StartProgress, Spawn, Main, Inv, Phases, spinner
<1>1. CASE StartProgress
  <2>0. /\ main' = "spawn" /\ states' = [a \in Agent |-> "loading"]
        /\ UNCHANGED <<loader, senders>>
        /\ session' = IF enabled
                      THEN [session EXCEPT ![MainThread] =
                               [running |-> TRUE, worker |-> "draw", rendered |-> FALSE]]
                      ELSE session
    BY <1>1 DEF StartProgress, Main, Open
  <2>1. Messages'
    BY <1>0, <2>0, MessagesSame DEF Inv
  <2>2. Phases' /\ Told'
    BY <1>0, <2>0 DEF Inv, Phases, Told
  <2>3. ARTypeOK'
    BY <1>0, <2>0 DEF Inv, ARTypeOK, Workers
  <2>4. MainThread \in Owner /\ \A o \in Owner \ {MainThread} : ~InSession(o)
    BY <1>0 DEF Owner, InSession
  <2>9. session[MainThread].worker = "none"
    BY <1>1 DEF StartProgress, Main, Inv, Spinners
  <2>5. \A o \in Owner \ {MainThread} : session'[o] = session[o] /\ ~InSession(o)'
    BY <1>0, <2>0, <2>4 DEF Inv, ARTypeOK, InSession
  <2>6. InSession(MainThread)' /\ MainThread \notin Agent
    BY <2>0 DEF InSession
  <2>7. CASE enabled
    <3>1. session'[MainThread].worker = "draw" /\ ~session'[MainThread].rendered
      BY <2>0, <2>4, <2>7 DEF Inv, ARTypeOK
    <3>3. ~session[MainThread].rendered
      BY <2>4, <2>9 DEF Inv, Spinners
    <3>2. cursor
      BY <2>4, <3>3 DEF Inv, Spinners
    <3>4. \A o \in Owner : session'[o].worker \in {"draw", "check", "wait"} => InSession(o)'
      BY <2>4, <2>5, <2>6 DEF Inv, Spinners
    <3>5. \A o \in Owner : session'[o].rendered => session'[o].worker # "none"
      BY <2>4, <2>5, <3>1 DEF Inv, Spinners
    <3>6. \A o \in Owner : session'[o].worker # "none" => enabled'
      BY <1>0, <2>7
    <3>7. cursor' /\ main' # "new"
      BY <1>0, <2>0, <3>2
    <3>8. Spinners'
      BY <3>4, <3>5, <3>6, <3>7, Zenon DEF Spinners
    <3> QED  BY <2>1, <2>2, <2>3, <3>8 DEF Inv
  <2>8. CASE ~enabled
    <3>1. session' = session
      BY <2>0, <2>8
    <3> QED  BY <1>0, <2>1, <2>2, <2>3, <2>4, <2>5, <2>6, <2>8, <3>1 DEF Inv, Spinners
  <2> QED  BY <2>7, <2>8
<1>2. CASE Spawn
  <2>0. /\ main' = "receive" /\ loader' = [a \in Agent |-> "load"] /\ senders' = Agent
        /\ UNCHANGED <<states, session>>
    BY <1>2 DEF Spawn, Main, spinner
  <2>1. \A a \in Agent : loader'[a] = "load"
    BY <2>0
  <2>2. Messages'
    BY <1>0, <2>0, <2>1, MessagesSame DEF Inv
  <2>3. Phases' /\ Told'
    BY <1>0, <2>0, <2>1 DEF Inv, Phases, Told
  <2>4. ARTypeOK'
    BY <1>0, <2>0 DEF Inv, ARTypeOK
  <2>5. \A o \in Owner : InSession(o)' = InSession(o)
    BY <1>0, <2>0, <2>1 DEF InSession, Owner
  <2> QED  BY <1>0, <2>0, <2>2, <2>3, <2>4, <2>5 DEF Inv, Spinners
<1> QED  BY <1>1, <1>2

\* A message leaves the channel for the rows or the errors.
LEMMA ReceiveKeeps ==
    ASSUME Inv, Receive
    PROVE  Inv'
<1> DEFINE a == Head(channel)
<1>0. /\ UNCHANGED <<outcome, enabled, main, loader, senders, joined, result, session, cursor>>
      /\ main = "receive" /\ channel # <<>> /\ channel' = Tail(channel)
      /\ outcome[a] = "rows" => /\ loaded' = Append(loaded, a) /\ errors' = errors
                                /\ states' = [states EXCEPT ![a] = "succeeded"]
      /\ outcome[a] # "rows" => /\ errors' = Append(errors, a) /\ loaded' = loaded
                                /\ states' = [states EXCEPT ![a] = "failed"]
  BY DEF Receive, Main, spinner
<1>1. /\ a \in Agent /\ channel' \in Seq(Agent)
      /\ ToSet(channel) = ToSet(channel') \cup {a}
      /\ IsInjective(channel') /\ a \notin ToSet(channel')
  BY <1>0, Dequeued DEF Inv, ARTypeOK, Messages
<1>2. /\ loader[a] = "over" /\ outcome[a] # "panic" /\ a \notin Received
  BY <1>1 DEF Inv, Messages
<1> HIDE DEF a
<1>3. /\ loaded' \in Seq(Agent) /\ errors' \in Seq(Agent)
      /\ IsInjective(loaded') /\ IsInjective(errors')
      /\ ToSet(loaded') = IF outcome[a] = "rows" THEN ToSet(loaded) \cup {a} ELSE ToSet(loaded)
      /\ ToSet(errors') = IF outcome[a] = "rows" THEN ToSet(errors) ELSE ToSet(errors) \cup {a}
  <2>0. /\ loaded \in Seq(Agent) /\ errors \in Seq(Agent)
        /\ IsInjective(loaded) /\ IsInjective(errors)
        /\ a \notin ToSet(loaded) /\ a \notin ToSet(errors)
    BY <1>2 DEF Inv, ARTypeOK, Messages, Received
  <2>3. a \in Agent
    BY <1>1
  <2>4. /\ Append(loaded, a) \in Seq(Agent) /\ IsInjective(Append(loaded, a))
        /\ ToSet(Append(loaded, a)) = ToSet(loaded) \cup {a}
    BY <2>0, <2>3, Enqueued
  <2>5. /\ Append(errors, a) \in Seq(Agent) /\ IsInjective(Append(errors, a))
        /\ ToSet(Append(errors, a)) = ToSet(errors) \cup {a}
    BY <2>0, <2>3, Enqueued
  <2>1. CASE outcome[a] = "rows"
    BY <1>0, <2>0, <2>1, <2>4
  <2>2. CASE outcome[a] # "rows"
    BY <1>0, <2>0, <2>2, <2>5
  <2> QED  BY <2>1, <2>2
<1>4. ARTypeOK'
  <2>1. states' \in [Agent -> {"unknown", "loading", "succeeded", "failed"}]
    BY <1>0 DEF Inv, ARTypeOK
  <2> QED  BY <1>0, <1>1, <1>3, <2>1 DEF Inv, ARTypeOK
<1>5. Messages'
  <2>1. Received' = Received \cup {a}
    BY <1>3 DEF Received
  <2>2. ToSet(channel)' \cup Received' = ToSet(channel) \cup Received
    BY <1>1, <2>1
  <2>3. \A b \in Agent : outcome[b] = "panic" => (b \in ToSet(errors)' <=> b \in ToSet(errors))
    BY <1>2, <1>3
  <2>4. /\ \A b \in ToSet(channel)' : outcome[b] # "panic"
        /\ \A b \in ToSet(loaded)' : outcome[b] = "rows"
        /\ \A b \in ToSet(errors)' : outcome[b] # "rows"
    BY <1>1, <1>3 DEF Inv, Messages
  <2>5. ToSet(channel)' \cap Received' = {}
    BY <1>1, <2>1 DEF Inv, Messages
  <2> QED  BY <1>0, <1>1, <1>3, <2>2, <2>3, <2>4, <2>5 DEF Inv, Messages
<1>6. Phases' /\ Told'
  BY <1>0 DEF Inv, Phases, Told
<1>7. Spinners'
  BY <1>0 DEF Inv, Spinners, InSession
<1> QED  BY <1>4, <1>5, <1>6, <1>7 DEF Inv

\* The receiver ends; the loaders are joined, and one that panicked is noted.
LEMMA JoinKeeps ==
    ASSUME Inv, ReceiverEnds \/ Join
    PROVE  Inv'
<1>0. /\ UNCHANGED <<outcome, enabled, loader, senders, channel, loaded, result, session, cursor>>
      /\ main \in {"receive", "join"} /\ main' = "join" /\ senders = {} /\ channel = <<>>
  BY DEF ReceiverEnds, Join, Main, spinner, Inv, Phases
<1>1. Spinners'
  BY <1>0 DEF Inv, Spinners, InSession
<1>2. Told'
  BY <1>0 DEF Told
<1>3. CASE ReceiverEnds
  <2>0. UNCHANGED <<joined, errors, states>>
    BY <1>3 DEF ReceiverEnds
  <2>1. Messages'
    BY <1>0, <2>0, MessagesSame DEF Inv
  <2> QED  BY <1>0, <1>1, <1>2, <2>0, <2>1 DEF Inv, ARTypeOK, Phases
<1>4. CASE Join
  <2> DEFINE a == joined + 1
  <2>0. /\ joined < Agents /\ loader[a] = "over" /\ joined' = a
        /\ outcome[a] = "panic" => /\ errors' = Append(errors, a)
                                   /\ states' = [states EXCEPT ![a] = "failed"]
        /\ outcome[a] # "panic" => UNCHANGED <<errors, states>>
    BY <1>4 DEF Join
  <2>1. a \in Agent /\ a \in 0..Agents /\ ~(a <= joined)
        /\ \A b \in Agent \ {a} : b <= a <=> b <= joined
    BY <2>0 DEF Inv, ARTypeOK, Agent
  <2> HIDE DEF a
  <2>2. Phases'
    BY <1>0, <1>4 DEF Inv, Phases, Join, Main
  <2>3. CASE outcome[a] = "panic"
    <3>1. a \notin ToSet(errors) /\ errors \in Seq(Agent) /\ IsInjective(errors)
      BY <2>1, <2>3 DEF Inv, Messages, ARTypeOK
    <3>2. /\ errors' \in Seq(Agent) /\ IsInjective(errors')
          /\ ToSet(errors') = ToSet(errors) \cup {a}
      <4>1. /\ Append(errors, a) \in Seq(Agent) /\ IsInjective(Append(errors, a))
            /\ ToSet(Append(errors, a)) = ToSet(errors) \cup {a}
        BY <2>1, <3>1, Enqueued
      <4> QED  BY <2>0, <2>3, <4>1
    <3>3. states' \in [Agent -> {"unknown", "loading", "succeeded", "failed"}]
      BY <2>0, <2>3 DEF Inv, ARTypeOK
    <3>4. ARTypeOK'
      BY <1>0, <2>0, <2>1, <3>2, <3>3 DEF Inv, ARTypeOK
    <3>5. Received' = Received \cup {a} /\ a \notin ToSet(channel)
      BY <1>0, <2>3, <3>2 DEF Inv, Messages, Received
    <3>6. Messages'
      BY <1>0, <2>0, <2>1, <2>3, <3>2, <3>5 DEF Inv, Messages
    <3> QED  BY <1>1, <1>2, <2>2, <3>4, <3>6 DEF Inv
  <2>4. CASE outcome[a] # "panic"
    <3>1. ARTypeOK'
      BY <1>0, <2>0, <2>1, <2>4 DEF Inv, ARTypeOK
    <3>2. Messages'
      BY <1>0, <2>0, <2>1, <2>4 DEF Inv, Messages, Received
    <3> QED  BY <1>1, <1>2, <2>2, <3>1, <3>2 DEF Inv
  <2> QED  BY <2>3, <2>4
<1> QED  BY <1>3, <1>4

\* The report's result is made and its session stopped; when its thread is over, the cursor is
\* shown again.
LEMMA ReturnKeeps ==
    ASSUME Inv, Finish \/ Return
    PROVE  Inv'
<1>0. /\ UNCHANGED <<outcome, enabled, loader, senders, channel, joined, loaded, errors>>
      /\ main \in {"join", "stop"} /\ main' \in {"stop", "done"} /\ joined = Agents
      /\ senders = {} /\ channel = <<>> /\ \A a \in Agent : loader[a] = "over"
  BY DEF Finish, Return, Main, Inv, Phases
<1>1. Messages'
  BY <1>0, MessagesSame DEF Inv
<1>2. Phases'
  BY <1>0 DEF Inv, Phases
<1>3. \A o \in Owner \ {MainThread} : ~InSession(o) /\ ~InSession(o)'
  BY <1>0 DEF Owner, InSession
<1>4. MainThread \in Owner
  BY DEF Owner
<1>5. CASE Finish
  <2>0. /\ main' = "stop" /\ result' = Outcome /\ UNCHANGED <<states, cursor>>
        /\ session' = IF enabled THEN [session EXCEPT ![MainThread].running = FALSE] ELSE session
        /\ main = "join"
    BY <1>5 DEF Finish, Main, StopFlag
  <2>1. Told'
    BY <1>0, <2>0 DEF Told, Outcome
  <2>2. session' \in [Owner -> [running: BOOLEAN, worker: Workers, rendered: BOOLEAN]]
    BY <2>0 DEF Inv, ARTypeOK
  <2>3. ARTypeOK'
    BY <1>0, <2>0, <2>2 DEF Inv, ARTypeOK
  <2>4. \A o \in Owner : /\ session'[o].worker = session[o].worker
                         /\ session'[o].rendered = session[o].rendered
    BY <2>0 DEF Inv, ARTypeOK
  <2>5. InSession(MainThread) /\ InSession(MainThread)'
    BY <2>0 DEF InSession
  <2>6. Spinners'
    BY <1>0, <1>3, <2>0, <2>4, <2>5 DEF Inv, Spinners
  <2> QED  BY <1>1, <1>2, <2>1, <2>3, <2>6 DEF Inv
<1>6. CASE Return
  <2>0. /\ main = "stop" /\ main' = "done" /\ UNCHANGED <<result, session>>
        /\ enabled => session[MainThread].worker = "over"
        /\ cursor' = IF enabled THEN cursor \/ session[MainThread].rendered ELSE cursor
        /\ states' = [a \in Agent |-> "unknown"]
    BY <1>6 DEF Return, Main, Stopped, Restore, spinner
  <2>1. Told'
    BY <1>0, <2>0 DEF Inv, Told, Outcome
  <2>2. ARTypeOK'
    <3>1. cursor' \in BOOLEAN
      BY <2>0 DEF Inv, ARTypeOK
    <3> QED  BY <1>0, <2>0, <3>1 DEF Inv, ARTypeOK
  <2>3. session[MainThread].worker \notin {"draw", "check", "wait"}
    BY <1>4, <2>0 DEF Inv, Spinners, ARTypeOK
  <2>4. cursor'
    BY <1>3, <1>4, <2>0 DEF Inv, Spinners, ARTypeOK, Workers
  <2>5. Spinners'
    BY <1>0, <1>3, <2>0, <2>3, <2>4 DEF Inv, Spinners
  <2> QED  BY <1>1, <1>2, <2>1, <2>2, <2>5 DEF Inv
<1> QED  BY <1>5, <1>6

\* Every step.
LEMMA StepKeeps == ASSUME Inv, [ARNext]_arvars PROVE Inv'
<1>1. CASE ARNext
  BY <1>1, StartKeeps, ReceiveKeeps, JoinKeeps, ReturnKeeps, LoaderKeeps, DrawKeeps
  DEF ARNext, MainStep
<1>2. CASE UNCHANGED arvars
  BY <1>2 DEF arvars, Inv, ARTypeOK, Phases, Messages, Received, Told, Outcome, Spinners, InSession
<1> QED  BY <1>1, <1>2

\* The invariant holds in every reachable state.
THEOREM ReportInvariance == ARSpec => []Inv
<1>1. ARInit => Inv
  BY InitKeeps
<1>2. Inv /\ [ARNext]_arvars => Inv'
  BY StepKeeps
<1> QED  BY <1>1, <1>2, PTL DEF ARSpec

\* After the report no thread draws, and whoever hid the cursor has shown it again (Drop and stop
\* of progress.rs): with any agents, whatever fails or panics, two spinners on one line.
THEOREM Tidy == ARSpec => []TidyEnd
<1>1. ASSUME Inv PROVE TidyEnd
  <2> SUFFICES ASSUME main = "done"
               PROVE  cursor /\ \A o \in Owner : session[o].worker \in {"none", "over"}
    BY DEF TidyEnd
  <2>1. \A a \in Agent : loader[a] = "over"
    BY <1>1 DEF Inv, Phases
  <2>2. \A o \in Owner : ~InSession(o)
    BY <2>1 DEF InSession, Owner
  <2> QED  BY <1>1, <2>2 DEF Inv, Spinners, ARTypeOK, Workers
<1>2. Inv => TidyEnd
  BY <1>1
<1> QED  BY <1>2, ReportInvariance, PTL

\* The agents, each once, in their order.
EachAgent == [a \in Agent |-> a]

\* What is increasing from 1..N to itself moves nothing.
LEMMA IncreasingIs ==
    ASSUME NEW N \in Nat, NEW f \in [1 .. N -> 1 .. N],
           \A i, j \in 1 .. N : i < j => f[i] < f[j]
    PROVE  \A i \in 1 .. N : f[i] = i
<1> DEFINE Low == {n \in 0 .. N : n = 0 \/ f[n] >= n}
           High == {n \in 0 .. N : n = N \/ f[N - n] <= N - n}
<1>1. \A n \in 0 .. N : n \in Low
  <2>1. 0 \in Low
    OBVIOUS
  <2>2. ASSUME NEW n \in 1 .. N, n - 1 \in Low PROVE n \in Low
    <3>1. CASE n = 1
      <4>1. f[n] \in 1 .. N
        OBVIOUS
      <4> QED  BY <3>1, <4>1
    <3>2. CASE n # 1
      <4>1. n - 1 \in 1 .. N /\ f[n - 1] >= n - 1 /\ f[n - 1] < f[n]
        BY <2>2, <3>2
      <4>2. f[n] \in Nat /\ f[n - 1] \in Nat
        BY <4>1
      <4> QED  BY <4>1, <4>2
    <3> QED  BY <3>1, <3>2
  <2> HIDE DEF Low
  <2> QED  BY <2>1, <2>2, SetInduction
<1>2. \A n \in 0 .. N : n \in High
  <2>1. 0 \in High
    <3>1. N # 0 => f[N] \in 1 .. N
      OBVIOUS
    <3> QED  BY <3>1
  <2>2. ASSUME NEW n \in 1 .. N, n - 1 \in High PROVE n \in High
    <3>1. CASE n = N
      BY <3>1
    <3>2. CASE n # N
      <4> DEFINE i == N - n
      <4>1. i \in 1 .. N /\ i + 1 \in 1 .. N /\ N - (n - 1) = i + 1 /\ n - 1 # N
        BY <3>2
      <4>2. f[i + 1] <= i + 1
        BY <2>2, <4>1
      <4>3. f[i] \in Nat /\ f[i + 1] \in Nat /\ f[i] < f[i + 1]
        BY <4>1
      <4>4. f[i] <= i
        BY <4>1, <4>2, <4>3
      <4> QED  BY <4>4
    <3> QED  BY <3>1, <3>2
  <2> HIDE DEF High
  <2> QED  BY <2>1, <2>2, SetInduction
<1> SUFFICES ASSUME NEW i \in 1 .. N PROVE f[i] = i
  OBVIOUS
<1>3. f[i] >= i
  BY <1>1
<1>4. f[i] <= i
  <2>1. N - i \in 0 .. N /\ N - (N - i) = i /\ N - i # N
    OBVIOUS
  <2>2. N - i \in High
    <3> HIDE DEF High
    <3> QED  BY <1>2, <2>1
  <2> QED  BY <2>1, <2>2
<1> QED  BY <1>3, <1>4

\* However they came, agents that are all there are put in their order.
LEMMA InOrderIs ==
    ASSUME NEW s \in Seq(Agent), IsInjective(s), ToSet(s) = Agent
    PROVE  InOrder(s) = EachAgent
<1>1. Len(s) = Agents
  <2>0. s \in [1 .. Len(s) -> Agent] /\ DOMAIN s = 1 .. Len(s)
    OBVIOUS
  <2>1. s \in Surjection(1 .. Len(s), Agent) /\ s \in Injection(1 .. Len(s), Agent)
    <3>1. \A a \in Agent : \E i \in 1 .. Len(s) : s[i] = a
      BY <2>0 DEF ToSet
    <3> QED  BY <2>0, <3>1 DEF IsInjective, Surjection, Injection
  <2>2. IsFiniteSet(1 .. Len(s)) /\ Cardinality(1 .. Len(s)) = Len(s)
    <3>1. Len(s) \in Nat /\ 1 \in Int
      OBVIOUS
    <3> DEFINE n == Len(s)
    <3>2. n \in Int /\ (1 > n => n = 0) /\ (n - 1) + 1 = n
      BY <3>1
    <3> HIDE DEF n
    <3>3. IsFiniteSet(1 .. n) /\ Cardinality(1 .. n) = n
      BY <3>1, <3>2, FS_Interval
    <3> QED  BY <3>3 DEF n
  <2>3. Cardinality(Agent) = Agents
    BY FS_Interval DEF Agent
  <2> QED  BY <2>1, <2>2, <2>3, FS_Surjection
<1> DEFINE Orders(f) == /\ f \in [DOMAIN s -> ToSet(s)]
                        /\ \A i, j \in DOMAIN s : i < j => f[i] < f[j]
<1>2. DOMAIN s = 1 .. Agents /\ ToSet(s) = 1 .. Agents
  BY <1>1 DEF Agent
<1>3. Orders(EachAgent)
  BY <1>2 DEF EachAgent, Agent
<1>4. Orders(InOrder(s))
  BY <1>3 DEF InOrder
<1>5. ASSUME NEW f, Orders(f) PROVE f = EachAgent
  <2>1. \A i \in 1 .. Agents : f[i] = i
    BY <1>2, <1>5, IncreasingIs
  <2> QED  BY <1>2, <1>5, <2>1 DEF EachAgent, Agent
<1> QED  BY <1>4, <1>5

Rows == Seq(STRING \X Nat)

TokensIn(row, p) == IF row[1] = p THEN row[2] ELSE 0

\* There is a running sum, and SumIn is its last value.
LEMMA SumInIs ==
    ASSUME NEW rows \in Rows, NEW p
    PROVE  \E h \in [0 .. Len(rows) -> Nat] :
              /\ h[0] = 0 /\ \A n \in 1 .. Len(rows) : h[n] = h[n-1] + TokensIn(rows[n], p)
              /\ SumIn(rows, p) = h[Len(rows)]
<1> DEFINE N == Len(rows)
           Is(h) == h = [n \in 0 .. N |->
                            IF n = 0 THEN 0 ELSE h[n-1] + (IF rows[n][1] = p THEN rows[n][2] ELSE 0)]
           step == [n \in 1 .. N |-> [t \in Nat |-> t + TokensIn(rows[n], p)]]
           upTo == CHOOSE h : Is(h)
<1>1. N \in Nat /\ \A n \in 1 .. N : TokensIn(rows[n], p) \in Nat
  <2>1. \A n \in 1 .. N : rows[n] \in STRING \X Nat
    BY DEF Rows
  <2> QED  BY <2>1 DEF TokensIn, Rows
<1>2. \A n \in 1 .. N : \A t \in Nat : step[n][t] = t + TokensIn(rows[n], p)
  OBVIOUS
<1>3. \A n \in 1 .. N : \A t \in Nat : step[n][t] \in Nat
  BY <1>1, <1>2
<1> HIDE DEF step
<1>4. PICK g \in [0 .. N -> Nat] : g[0] = 0 /\ \A n \in 1 .. N : g[n] = step[n][g[n-1]]
  <2>1. Recurs(Nat, N, 0, step)
    BY <1>1, <1>3, Recursion
  <2> QED  BY <2>1 DEF Recurs
<1>5. \A n \in 1 .. N : g[n] = g[n-1] + TokensIn(rows[n], p)
  <2> SUFFICES ASSUME NEW n \in 1 .. N PROVE g[n] = g[n-1] + TokensIn(rows[n], p)
    OBVIOUS
  <2>1. n - 1 \in 0 .. N
    BY <1>1
  <2>2. g[n-1] \in Nat
    BY <2>1
  <2> QED  BY <1>2, <1>4, <2>2
<1>6. Is(g)
  <2>1. \A n \in 0 .. N : g[n] = IF n = 0 THEN 0
                                 ELSE g[n-1] + (IF rows[n][1] = p THEN rows[n][2] ELSE 0)
    BY <1>1, <1>4, <1>5 DEF TokensIn
  <2>2. g = [n \in 0 .. N |-> g[n]]
    OBVIOUS
  <2> QED  BY <2>1, <2>2
<1>7. Is(upTo)
  BY <1>6
<1>8. SumIn(rows, p) = upTo[N]
  BY DEF SumIn
<1>9. upTo[0] = 0 /\ \A n \in 1 .. N : upTo[n] = upTo[n-1] + TokensIn(rows[n], p)
  <2> HIDE DEF upTo
  <2> QED  BY <1>1, <1>7 DEF TokensIn
<1> HIDE DEF upTo
<1> DEFINE T == {n \in 0 .. N : upTo[n] = g[n]}
<1>10. \A n \in 0 .. N : n \in T
  <2>1. 0 \in T
    BY <1>1, <1>4, <1>9
  <2>2. ASSUME NEW n \in 1 .. N, n - 1 \in T PROVE n \in T
    BY <1>5, <1>9, <2>2
  <2> HIDE DEF T
  <2> QED  BY <1>1, <2>1, <2>2, SetInduction
<1>11. N \in 0 .. N
  BY <1>1
<1>12. SumIn(rows, p) = g[N]
  BY <1>8, <1>10, <1>11
<1> QED  BY <1>4, <1>5, <1>12

\* The sum of rows after rows is that of both.
LEMMA SumInBoth ==
    ASSUME NEW a \in Rows, NEW b \in Rows, NEW p
    PROVE  /\ SumIn(a, p) \in Nat /\ SumIn(b, p) \in Nat
           /\ SumIn(a \o b, p) = SumIn(a, p) + SumIn(b, p)
<1> DEFINE c == a \o b
           A == Len(a)
           B == Len(b)
<1>1. /\ A \in Nat /\ B \in Nat /\ c \in Rows /\ Len(c) = A + B
      /\ \A n \in 1 .. A : c[n] = a[n]
      /\ \A n \in 1 .. B : c[A + n] = b[n]
  BY DEF Rows
<1> HIDE DEF c, A, B
<1>2. PICK f \in [0 .. A -> Nat] :
         /\ f[0] = 0 /\ \A n \in 1 .. A : f[n] = f[n-1] + TokensIn(a[n], p)
         /\ SumIn(a, p) = f[A]
  BY SumInIs DEF A
<1>3. PICK g \in [0 .. B -> Nat] :
         /\ g[0] = 0 /\ \A n \in 1 .. B : g[n] = g[n-1] + TokensIn(b[n], p)
         /\ SumIn(b, p) = g[B]
  BY SumInIs DEF B
<1>4. PICK h \in [0 .. Len(c) -> Nat] :
         /\ h[0] = 0 /\ \A n \in 1 .. Len(c) : h[n] = h[n-1] + TokensIn(c[n], p)
         /\ SumIn(c, p) = h[Len(c)]
  BY <1>1, SumInIs
<1>5. h[A] = f[A]
  <2> DEFINE T == {n \in 0 .. A : h[n] = f[n]}
  <2>1. 0 \in T
    BY <1>1, <1>2, <1>4
  <2>2. ASSUME NEW n \in 1 .. A, n - 1 \in T PROVE n \in T
    <3>1. n \in 1 .. Len(c)
      BY <1>1
    <3> QED  BY <1>1, <1>2, <1>4, <2>2, <3>1
  <2> HIDE DEF T
  <2>3. \A n \in 0 .. A : n \in T
    BY <1>1, <2>1, <2>2, SetInduction
  <2>4. A \in T
    BY <1>1, <2>3
  <2> QED  BY <2>4 DEF T
<1>6. h[A + B] = f[A] + g[B]
  <2> DEFINE T == {n \in 0 .. B : h[A + n] = f[A] + g[n]}
  <2>0. f[A] \in Nat
    BY <1>1
  <2>1. 0 \in T
    BY <1>1, <1>3, <1>5, <2>0
  <2>2. ASSUME NEW n \in 1 .. B, n - 1 \in T PROVE n \in T
    <3> DEFINE m == A + n
    <3>1. m \in 1 .. Len(c) /\ m - 1 = A + (n - 1) /\ c[m] = b[n]
      BY <1>1
    <3> HIDE DEF m
    <3>2. h[m] = h[A + (n - 1)] + TokensIn(b[n], p)
      <4>1. h[m] = h[m - 1] + TokensIn(c[m], p)
        BY <1>4, <3>1
      <4> QED  BY <3>1, <4>1
    <3>3. g[n] = g[n-1] + TokensIn(b[n], p) /\ g[n-1] \in Nat /\ TokensIn(b[n], p) \in Nat
      <4>1. b[n] \in STRING \X Nat
        BY DEF B, Rows
      <4>2. n - 1 \in 0 .. B
        BY <1>1
      <4> QED  BY <1>3, <4>1, <4>2 DEF TokensIn
    <3>4. h[A + n] = f[A] + g[n]
      BY <2>0, <2>2, <3>2, <3>3 DEF m
    <3> QED  BY <3>4
  <2> HIDE DEF T
  <2>3. \A n \in 0 .. B : n \in T
    BY <1>1, <2>1, <2>2, SetInduction
  <2>4. B \in T
    BY <1>1, <2>3
  <2> QED  BY <2>4 DEF T
<1>7. f[A] \in Nat /\ g[B] \in Nat
  BY <1>1
<1> QED  BY <1>1, <1>2, <1>3, <1>4, <1>6, <1>7 DEF c

\* What all agents have in a period is added agent by agent.
LEMMA SpentIs ==
    ASSUME NEW p
    PROVE  \E h \in [0 .. Agents -> Nat] :
              /\ h[0] = 0 /\ \A a \in Agent : h[a] = h[a-1] + SumIn(RowsOfAgent[a], p)
              /\ Spent(p) = h[Agents]
<1> DEFINE Is(h) == h = [a \in 0 .. Agents |->
                            IF a = 0 THEN 0 ELSE h[a-1] + SumIn(RowsOfAgent[a], p)]
           step == [a \in 1 .. Agents |-> [t \in Nat |-> t + SumIn(RowsOfAgent[a], p)]]
           upTo == CHOOSE h : Is(h)
<1>1. \A a \in 1 .. Agents : SumIn(RowsOfAgent[a], p) \in Nat
  <2> SUFFICES ASSUME NEW a \in 1 .. Agents PROVE SumIn(RowsOfAgent[a], p) \in Nat
    OBVIOUS
  <2>1. RowsOfAgent[a] \in Rows
    BY RowsAssumption DEF Agent, Rows
  <2> QED  BY <2>1, SumInBoth
<1>2. \A a \in 1 .. Agents : \A t \in Nat : step[a][t] = t + SumIn(RowsOfAgent[a], p)
  OBVIOUS
<1>3. \A a \in 1 .. Agents : \A t \in Nat : step[a][t] \in Nat
  BY <1>1, <1>2
<1> HIDE DEF step
<1>4. PICK g \in [0 .. Agents -> Nat] :
         g[0] = 0 /\ \A a \in 1 .. Agents : g[a] = step[a][g[a-1]]
  <2>1. Recurs(Nat, Agents, 0, step)
    BY <1>3, Recursion
  <2> QED  BY <2>1 DEF Recurs
<1>5. \A a \in 1 .. Agents : g[a] = g[a-1] + SumIn(RowsOfAgent[a], p)
  <2> SUFFICES ASSUME NEW a \in 1 .. Agents PROVE g[a] = g[a-1] + SumIn(RowsOfAgent[a], p)
    OBVIOUS
  <2>1. a - 1 \in 0 .. Agents
    OBVIOUS
  <2>2. g[a-1] \in Nat
    BY <2>1
  <2> QED  BY <1>2, <1>4, <2>2
<1>6. Is(g)
  <2>1. \A a \in 0 .. Agents : g[a] = IF a = 0 THEN 0 ELSE g[a-1] + SumIn(RowsOfAgent[a], p)
    BY <1>4, <1>5
  <2>2. g = [a \in 0 .. Agents |-> g[a]]
    OBVIOUS
  <2> QED  BY <2>1, <2>2
<1>7. Is(upTo)
  BY <1>6
<1>8. Spent(p) = upTo[Agents]
  BY DEF Spent
<1>9. upTo[0] = 0 /\ \A a \in 1 .. Agents : upTo[a] = upTo[a-1] + SumIn(RowsOfAgent[a], p)
  <2> HIDE DEF upTo
  <2> QED  BY <1>7
<1> HIDE DEF upTo
<1> DEFINE T == {a \in 0 .. Agents : upTo[a] = g[a]}
<1>10. \A a \in 0 .. Agents : a \in T
  <2>1. 0 \in T
    BY <1>4, <1>9
  <2>2. ASSUME NEW a \in 1 .. Agents, a - 1 \in T PROVE a \in T
    BY <1>5, <1>9, <2>2
  <2> HIDE DEF T
  <2> QED  BY <2>1, <2>2, SetInduction
<1>11. Spent(p) = g[Agents]
  BY <1>8, <1>10
<1> QED  BY <1>4, <1>5, <1>11 DEF Agent

\* So the sum of all rows is the sum of the agents'.
LEMMA SumOfAll == \A p : SumIn(FlattenSeq(RowsOfAgent), p) = Spent(p)
<1> SUFFICES ASSUME NEW p PROVE SumIn(FlattenSeq(RowsOfAgent), p) = Spent(p)
  OBVIOUS
<1>1. RowsOfAgent \in Seq(Rows) /\ Len(RowsOfAgent) = Agents
  BY RowsAssumption DEF Agent, Rows
<1>2. PICK h \in [0 .. Agents -> Rows] :
         /\ h[0] = <<>> /\ \A n \in 1 .. Agents : h[n] = h[n-1] \o RowsOfAgent[n]
         /\ FlattenSeq(RowsOfAgent) = h[Agents]
  BY <1>1, FlattenIs DEF Rows
<1>3. PICK g \in [0 .. Agents -> Nat] :
         /\ g[0] = 0 /\ \A a \in Agent : g[a] = g[a-1] + SumIn(RowsOfAgent[a], p)
         /\ Spent(p) = g[Agents]
  BY SpentIs
<1> DEFINE T == {n \in 0 .. Agents : SumIn(h[n], p) = g[n]}
<1>4. 0 \in T
  <2>1. <<>> \in Rows /\ Len(<<>>) = 0
    BY DEF Rows
  <2>2. SumIn(<<>>, p) = 0
    BY <2>1, SumInIs
  <2> QED  BY <1>2, <1>3, <2>2
<1>5. ASSUME NEW n \in 1 .. Agents, n - 1 \in T PROVE n \in T
  <2>1. n - 1 \in 0 .. Agents /\ n \in Agent /\ n \in 0 .. Agents
    BY DEF Agent
  <2>2. h[n-1] \in Rows /\ RowsOfAgent[n] \in Rows
    BY <2>1, RowsAssumption DEF Rows
  <2>3. SumIn(h[n], p) = SumIn(h[n-1], p) + SumIn(RowsOfAgent[n], p)
    <3> DEFINE a == h[n-1]
               b == RowsOfAgent[n]
    <3>1. h[n] = a \o b
      BY <1>2
    <3>2. a \in Rows /\ b \in Rows
      BY <2>2
    <3> HIDE DEF a, b
    <3>3. SumIn(a \o b, p) = SumIn(a, p) + SumIn(b, p)
      BY <3>2, SumInBoth
    <3> QED  BY <3>1, <3>3 DEF a, b
  <2>4. SumIn(h[n-1], p) = g[n-1]
    BY <1>5
  <2>5. g[n] = g[n-1] + SumIn(RowsOfAgent[n], p)
    BY <1>3, <2>1
  <2> QED  BY <2>1, <2>3, <2>4, <2>5
<1> HIDE DEF T
<1>6. \A n \in 0 .. Agents : n \in T
  BY <1>4, <1>5, SetInduction
<1> QED  BY <1>2, <1>3, <1>6 DEF T

\* What the rows of all agents, each once and in order, are added up to.
LEMMA AggregatedIs ==
    LET rows == Aggregated(EachAgent)
    IN  /\ DOMAIN rows = Periods
        /\ \A p \in Periods : rows[p].tokens = Spent(p) /\ rows[p].agents = Having(p)
<1>1. DOMAIN EachAgent = Agent /\ \A a \in Agent : EachAgent[a] = a
  BY DEF EachAgent
<1>2. ToSet(EachAgent) = Agent
  BY <1>1 DEF ToSet
<1>3. RowsOfAgent = [i \in DOMAIN EachAgent |-> RowsOfAgent[EachAgent[i]]]
  BY <1>1, RowsAssumption
<1>4. RowsOfAgent \in Seq(Rows) /\ DOMAIN RowsOfAgent = Agent
  <2>1. RowsOfAgent \in [1 .. Agents -> Rows]
    BY RowsAssumption DEF Agent, Rows
  <2> QED  BY <2>1 DEF Agent
<1>5. ToSet(FlattenSeq(RowsOfAgent)) = UNION {ToSet(RowsOfAgent[a]) : a \in Agent}
  BY <1>4, FlattenElements DEF Rows
<1> DEFINE all == FlattenSeq(RowsOfAgent)
<1>6. Aggregated(EachAgent) = [p \in {row[1] : row \in ToSet(all)} |->
                                  [tokens |-> SumIn(all, p), agents |-> AgentsIn(EachAgent, p)]]
  BY <1>3 DEF Aggregated
<1>7. {row[1] : row \in ToSet(all)} = Periods
  BY <1>5 DEF Periods
<1>8. \A p : AgentsIn(EachAgent, p) = Having(p)
  BY <1>2 DEF AgentsIn, Having
<1>9. \A p : SumIn(all, p) = Spent(p)
  BY SumOfAll
<1> HIDE DEF all
<1> QED  BY <1>6, <1>7, <1>8, <1>9

\* Whatever order the threads end in, the report is the sums of all agents' rows, or the error of
\* the first agent that has one (load_base_rows): no agent is missed.
THEOREM AllCounted == ARSpec => []AllOrFirstError
<1>1. ASSUME Inv PROVE AllOrFirstError
  <2> SUFFICES ASSUME main = "done"
               PROVE  IF Failing # {}
                      THEN result.error \in Failing /\ \A a \in Failing : result.error <= a
                      ELSE /\ result.error = MainThread
                           /\ DOMAIN result.rows = Periods
                           /\ \A p \in Periods : /\ result.rows[p].tokens = Spent(p)
                                                /\ result.rows[p].agents = Having(p)
    BY DEF AllOrFirstError
  <2>0. /\ joined = Agents /\ channel = <<>> /\ senders = {} /\ result = Outcome
        /\ \A a \in Agent : loader[a] = "over"
    BY <1>1 DEF Inv, Phases, Told
  <2>1. ToSet(errors) \subseteq Agent /\ ToSet(loaded) \subseteq Agent /\ ToSet(channel) = {}
    BY <1>1, <2>0, ElementsType, EmptyElements DEF Inv, ARTypeOK
  <2>2. \A a \in Agent : outcome[a] \in {"rows", "error", "panic"} /\ a <= joined
    BY <1>1, <2>0 DEF Inv, ARTypeOK, Agent
  <2>3. \A a \in Agent : /\ a \in ToSet(errors) <=> outcome[a] # "rows"
                         /\ a \in ToSet(loaded) <=> outcome[a] = "rows"
    BY <1>1, <2>0, <2>1, <2>2 DEF Inv, Messages, Received
  <2>4. ToSet(errors) = Failing
    BY <2>1, <2>3 DEF Failing
  <2>5. CASE Failing # {}
    <3>1. errors # <<>>
      BY <2>4, <2>5, EmptyElements
    <3>2. Failing \in SUBSET Nat
      BY DEF Failing, Agent
    <3>3. result.error = Min(Failing)
      BY <2>0, <2>4, <3>1 DEF Outcome, Err
    <3> QED  BY <2>5, <3>2, <3>3, MinIs
  <2>6. CASE Failing = {}
    <3>1. errors = <<>>
      <4>1. errors \in Seq(Agent) /\ \A i \in DOMAIN errors : errors[i] \in ToSet(errors)
        BY <1>1 DEF Inv, ARTypeOK, ToSet
      <4>2. 1 \notin DOMAIN errors
        BY <2>4, <2>6, <4>1
      <4> QED  BY <4>1, <4>2
    <3>2. ToSet(loaded) = Agent
      BY <2>1, <2>3, <2>6 DEF Failing
    <3>3. InOrder(loaded) = EachAgent
      BY <1>1, <3>2, InOrderIs DEF Inv, ARTypeOK, Messages
    <3>4. result = Ok(Aggregated(EachAgent))
      BY <2>0, <3>1, <3>3 DEF Outcome
    <3>5. result.error = MainThread /\ result.rows = Aggregated(EachAgent)
      BY <3>4 DEF Ok
    <3> QED  BY <2>6, <3>5, AggregatedIs
  <2> QED  BY <2>5, <2>6
<1>2. Inv => AllOrFirstError
  BY <1>1
<1> QED  BY <1>2, ReportInvariance, PTL

HIDE ARAssumption

----------------------------------------------------------------------------
(***************************************************************************)
(* The status line.  However many runs share the cache file, whatever they *)
(* overwrite of each other's marks and wherever they fail or die: a line   *)
(* that is shown again was completed within the refresh interval, or a run *)
(* that is still there is about to replace it.                             *)
(*                                                                         *)
(* The invariant: what a cache says of its line's age is no less than the  *)
(* line's age, in the file and in every copy a run has read; and the mark  *)
(* in the file names nobody or a run that has not ended.  A mark is        *)
(* written back only by Release, which has taken it out before.            *)
(***************************************************************************)
USE SLAssumption

Records == [last_output: Output, since_update: 0..Refresh, transcript_mtime: 0..MaxVersion,
            pid: Run \cup {NoRun}]

Cache == Records \cup {NoCache}

Lines == {"ended", "read", "mark", "marking", "render", "complete", "completing", "release",
          "releasing"}

\* Every field has its type, and whoever is to complete has an output.
SLTypeOK ==
    /\ transcript \in 0..MaxVersion
    /\ cache \in Cache
    /\ line \in [Run -> Lines]
    /\ mtime \in [Run -> 0..MaxVersion]
    /\ initial \in [Run -> Cache]
    /\ output \in [Run -> Output]
    /\ \A r \in Run : line[r] \in {"complete", "completing"} => output[r] # NoOutput
    /\ faults \in Nat

\* A line in a cache is no older than the cache says it is.
Dated(c) == c # NoCache /\ c.last_output # NoOutput => c.last_output.age <= c.since_update

AllDated == Dated(cache) /\ \A r \in Run : Dated(initial[r])

\* The mark in the file names a run that has read the cache and not ended, or nobody.
MarksTheLiving == cache # NoCache /\ cache.pid # NoRun => line[cache.pid] \notin {"ended", "read"}

\* What a run is about to write back marks nobody.
ReleasesUnmarked ==
    \A r \in Run : line[r] = "releasing" /\ initial[r] # NoCache => initial[r].pid = NoRun

SLInv == SLTypeOK /\ AllDated /\ MarksTheLiving /\ ReleasesUnmarked

\* Time passes for a line: it stays what it is, one tick older.
LEMMA OlderOutput ==
    ASSUME NEW out \in Output
    PROVE  /\ Older(out) \in Output
           /\ Older(out) = NoOutput <=> out = NoOutput
           /\ out # NoOutput => Older(out).age = Old(out.age) /\ out.age \in 0..Refresh
<1>1. CASE out = NoOutput
  BY <1>1 DEF Older, Output
<1>2. CASE out # NoOutput
  <2>1. out \in [version: 0..MaxVersion, age: 0..Refresh]
    BY <1>2 DEF Output
  <2>2. Older(out) = [out EXCEPT !.age = Old(@)]
    BY <1>2 DEF Older
  <2>3. Old(out.age) \in 0..Refresh
    BY <2>1 DEF Old
  <2>4. [out EXCEPT !.age = Old(@)] \in [version: 0..MaxVersion, age: 0..Refresh]
    BY <2>1, <2>3
  <2> QED  BY <1>2, <2>1, <2>2, <2>4 DEF Output
<1> QED  BY <1>1, <1>2

\* It passes for the line and for the cache's date of it alike.
LEMMA OlderKeeps ==
    ASSUME NEW c \in Cache
    PROVE  /\ OlderCache(c) \in Cache
           /\ Dated(c) => Dated(OlderCache(c))
           /\ OlderCache(c) # NoCache => c # NoCache /\ OlderCache(c).pid = c.pid
<1>1. CASE c = NoCache
  BY <1>1 DEF OlderCache, Cache
<1>2. CASE c # NoCache
  <2> DEFINE d == [c EXCEPT !.last_output = Older(@), !.since_update = Old(@)]
  <2>1. c \in Records
    BY <1>2 DEF Cache
  <2>2. OlderCache(c) = d
    BY <1>2 DEF OlderCache
  <2>3. /\ Older(c.last_output) \in Output /\ Old(c.since_update) \in 0..Refresh
        /\ c.last_output \in Output /\ c.since_update \in 0..Refresh
    BY <2>1, OlderOutput DEF Records, Old
  <2>4. /\ d \in Records /\ d.last_output = Older(c.last_output)
        /\ d.since_update = Old(c.since_update) /\ d.pid = c.pid
    BY <2>1, <2>3 DEF Records
  <2> HIDE DEF d
  <2>5. Dated(c) => Dated(d)
    <3>1. c.last_output # NoOutput =>
            /\ Older(c.last_output).age = Old(c.last_output.age)
            /\ c.last_output.age \in 0..Refresh
      BY <2>3, OlderOutput
    <3>2. d.last_output # NoOutput => c.last_output # NoOutput
      BY <2>3, <2>4, OlderOutput
    <3>3. \A m, n \in 0..Refresh : m <= n => Old(m) <= Old(n)
      BY DEF Old
    <3> QED  BY <1>2, <2>3, <2>4, <3>1, <3>2, <3>3 DEF Dated
  <2> QED  BY <1>2, <2>2, <2>4, <2>5 DEF Cache
<1> QED  BY <1>1, <1>2

\* Forgetting a process id changes nothing else.
LEMMA ForgottenKeeps ==
    ASSUME NEW c \in Cache, NEW r \in Run
    PROVE  /\ Forgotten(c, r) \in Cache
           /\ Dated(c) => Dated(Forgotten(c, r))
           /\ Forgotten(c, r) # NoCache =>
                /\ c # NoCache
                /\ Forgotten(c, r).pid = (IF c.pid = r THEN NoRun ELSE c.pid)
<1>1. CASE c # NoCache /\ c.pid = r
  <2>1. c \in Records
    BY <1>1 DEF Cache
  <2>2. /\ [c EXCEPT !.pid = NoRun] \in Records
        /\ [c EXCEPT !.pid = NoRun].pid = NoRun
        /\ [c EXCEPT !.pid = NoRun].last_output = c.last_output
        /\ [c EXCEPT !.pid = NoRun].since_update = c.since_update
    BY <2>1 DEF Records
  <2> QED  BY <1>1, <2>2 DEF Forgotten, Cache, Dated
<1>2. CASE ~(c # NoCache /\ c.pid = r)
  BY <1>2 DEF Forgotten
<1> QED  BY <1>1, <1>2

\* Nothing is cached before the first run.
LEMMA SLInitInv == SLInit => SLInv
  BY DEF SLInit, SLInv, SLTypeOK, AllDated, Dated, MarksTheLiving, ReleasesUnmarked,
         Lines, Cache, Output

\* A run that ends and leaves a cache that does not name it keeps the invariant's parts about
\* what runs hold.
LEMMA EndKeeps ==
    ASSUME SLInv, NEW r \in Run, End(r)
    PROVE  /\ line' \in [Run -> Lines] /\ initial' \in [Run -> Cache]
           /\ \A q \in Run : line'[q] = IF q = r THEN "ended" ELSE line[q]
           /\ \A q \in Run : Dated(initial'[q])
           /\ ReleasesUnmarked'
<1>1. line \in [Run -> Lines] /\ initial \in [Run -> Cache]
  BY DEF SLInv, SLTypeOK
<1>2. line' = [line EXCEPT ![r] = "ended"]
  BY DEF End, Goto
<1>3. \A q \in Run : initial'[q] = IF q = r THEN NoCache ELSE Forgotten(initial[q], r)
  BY DEF End
<1>4. line' \in [Run -> Lines] /\ \A q \in Run : line'[q] = IF q = r THEN "ended" ELSE line[q]
  BY <1>1, <1>2 DEF Lines
<1>5. \A q \in Run : /\ Forgotten(initial[q], r) \in Cache
                     /\ Dated(initial[q]) => Dated(Forgotten(initial[q], r))
                     /\ Forgotten(initial[q], r) # NoCache =>
                          /\ initial[q] # NoCache
                          /\ Forgotten(initial[q], r).pid =
                                (IF initial[q].pid = r THEN NoRun ELSE initial[q].pid)
  BY <1>1, ForgottenKeeps
<1>6. initial' \in [Run -> Cache]
  <2>1. initial' = [q \in Run |-> IF q = r THEN NoCache ELSE Forgotten(initial[q], r)]
    BY DEF End
  <2> QED  BY <2>1, <1>5 DEF Cache
<1>7. \A q \in Run : Dated(initial'[q])
  BY <1>3, <1>5 DEF SLInv, AllDated, Dated
<1>8. ReleasesUnmarked'
  <2> SUFFICES ASSUME NEW q \in Run, line'[q] = "releasing", initial'[q] # NoCache
               PROVE  initial'[q].pid = NoRun
    BY DEF ReleasesUnmarked
  <2>1. q # r /\ line[q] = "releasing" /\ initial'[q] = Forgotten(initial[q], r)
    BY <1>3, <1>4
  <2> QED  BY <1>5, <2>1 DEF SLInv, ReleasesUnmarked
<1> QED  BY <1>4, <1>6, <1>7, <1>8

\* The steps that read and show, or end, a run.
LEMMA ReadKeeps ==
    ASSUME SLInv, NEW r \in Run, ReadCache(r)
    PROVE  SLInv'
<1>1. CASE Cached(cache, mtime[r])
  <2>1. /\ End(r) /\ cache' = Forgotten(cache, r) /\ line[r] = "read"
        /\ output' = [output EXCEPT ![r] = cache.last_output]
        /\ UNCHANGED <<transcript, mtime, faults>>
    BY <1>1 DEF ReadCache
  <2>2. cache \in Records
    BY <1>1 DEF Cached, SLInv, SLTypeOK, Cache
  <2>3. output' \in [Run -> Output]
    BY <2>1, <2>2 DEF Records, SLInv, SLTypeOK
  <2>4. \A q \in Run : /\ line'[q] = IF q = r THEN "ended" ELSE line[q]
                       /\ output'[q] = IF q = r THEN cache.last_output ELSE output[q]
    BY <2>1, EndKeeps DEF SLInv, SLTypeOK
  <2>5. SLTypeOK'
    BY <2>1, <2>3, <2>4, EndKeeps, ForgottenKeeps DEF SLInv, SLTypeOK
  <2>6. MarksTheLiving'
    BY <2>1, <2>2, <2>4, ForgottenKeeps DEF SLInv, SLTypeOK, MarksTheLiving, Records
  <2> QED  BY <2>1, <2>5, <2>6, EndKeeps, ForgottenKeeps DEF SLInv, SLTypeOK, AllDated
<1>2. CASE ~Cached(cache, mtime[r])
  <2>1. /\ line[r] = "read" /\ line' = [line EXCEPT ![r] = "mark"]
        /\ initial' = [initial EXCEPT ![r] = cache]
        /\ UNCHANGED <<transcript, mtime, faults, output, cache>>
    BY <1>2 DEF ReadCache, Goto
  <2>2. SLTypeOK'
    BY <2>1 DEF SLInv, SLTypeOK, Lines
  <2>3. AllDated' /\ MarksTheLiving' /\ ReleasesUnmarked'
    BY <2>1 DEF SLInv, SLTypeOK, AllDated, MarksTheLiving, ReleasesUnmarked, Lines, Cache, Records
  <2> QED  BY <2>2, <2>3 DEF SLInv
<1> QED  BY <1>1, <1>2

\* The steps that write the file.
LEMMA WriteKeeps ==
    ASSUME SLInv, NEW r \in Run,
           EmptyToMark(r) \/ Mark(r) \/ EmptyToComplete(r) \/ Complete(r)
    PROVE  SLInv'
<1>1. CASE EmptyToMark(r) \/ EmptyToComplete(r)
  BY <1>1 DEF EmptyToMark, EmptyToComplete, Empty, Goto, SLInv, SLTypeOK, AllDated, Dated,
              MarksTheLiving, ReleasesUnmarked, Lines, Cache
<1>2. CASE Mark(r)
  <2> DEFINE before == initial[r]
  <2>1. /\ line[r] = "marking" /\ line' = [line EXCEPT ![r] = "render"]
        /\ cache' = Updating(r, mtime[r], before)
        /\ UNCHANGED <<transcript, mtime, initial, output, faults>>
    BY <1>2 DEF Mark, Goto
  <2>2. before \in Cache /\ Dated(before) /\ mtime[r] \in 0..MaxVersion
    BY DEF SLInv, SLTypeOK, AllDated
  <2> HIDE DEF before
  <2>3. /\ cache' \in Records /\ cache'.pid = r
        /\ cache'.last_output # NoOutput => cache'.last_output.age <= cache'.since_update
    <3>1. CASE before = NoCache
      BY <2>1, <2>2, <3>1 DEF Updating, Records, Output
    <3>2. CASE before # NoCache
      BY <2>1, <2>2, <3>2 DEF Updating, Records, Cache, Dated
    <3> QED  BY <3>1, <3>2
  <2> QED  BY <2>1, <2>3 DEF SLInv, SLTypeOK, AllDated, Dated, MarksTheLiving, ReleasesUnmarked,
                             Lines, Cache
<1>3. CASE Complete(r)
  <2>1. /\ line[r] = "completing" /\ End(r)
        /\ cache' = Completed(output[r].version, mtime[r])
        /\ output' = [output EXCEPT ![r].age = 0]
        /\ UNCHANGED <<transcript, mtime, faults>>
    BY <1>3 DEF Complete
  <2>2. /\ output[r] \in [version: 0..MaxVersion, age: 0..Refresh]
        /\ mtime[r] \in 0..MaxVersion
    BY <2>1 DEF SLInv, SLTypeOK, Output
  <2>3. cache' \in Records /\ cache'.pid = NoRun /\ Dated(cache')
    BY <2>1, <2>2 DEF Completed, Records, Output, Dated
  <2>4. output' \in [Run -> Output] /\ \A q \in Run \ {r} : output'[q] = output[q]
    BY <2>1, <2>2 DEF Output, SLInv, SLTypeOK
  <2> QED  BY <2>1, <2>3, <2>4, EndKeeps DEF SLInv, SLTypeOK, AllDated, MarksTheLiving, Cache
<1> QED  BY <1>1, <1>2, <1>3

\* Rendering, and what follows a rendering that failed.
LEMMA RenderKeeps ==
    ASSUME SLInv, NEW r \in Run, Render(r) \/ Fail(r)
    PROVE  SLInv'
<1>1. CASE Render(r)
  <2>1. [version |-> transcript, age |-> 0] \in [version: 0..MaxVersion, age: 0..Refresh]
    BY DEF SLInv, SLTypeOK
  <2>2. output'[r] # NoOutput /\ output' \in [Run -> Output]
    BY <1>1, <2>1 DEF Render, Output, SLInv, SLTypeOK
  <2> QED  BY <1>1, <2>2 DEF Render, Goto, SLInv, SLTypeOK, AllDated, MarksTheLiving,
                             ReleasesUnmarked, Lines
<1>2. CASE Fail(r)
  <2>1. output' \in [Run -> Output] /\ \A q \in Run \ {r} : output'[q] = output[q]
    BY <1>2 DEF Fail, SLInv, SLTypeOK, Cache, Records, Output
  <2> QED  BY <1>2, <2>1 DEF Fail, Goto, SLInv, SLTypeOK, AllDated, MarksTheLiving,
                             ReleasesUnmarked, Lines
<1> QED  BY <1>1, <1>2

\* The cache is released, or its run dies.
LEMMA ReleaseKeeps ==
    ASSUME SLInv, NEW r \in Run, ReadToRelease(r) \/ Release(r) \/ Die(r)
    PROVE  SLInv'
<1>1. CASE ReadToRelease(r) /\ cache = NoCache
  BY <1>1, EndKeeps DEF ReadToRelease, SLInv, SLTypeOK, AllDated, MarksTheLiving
<1>2. CASE ReadToRelease(r) /\ cache # NoCache
  <2>1. cache \in Records
    BY <1>2 DEF SLInv, SLTypeOK, Cache
  <2>2. /\ initial' = [initial EXCEPT ![r] = [cache EXCEPT !.pid = NoRun]]
        /\ line[r] = "release" /\ line' = [line EXCEPT ![r] = "releasing"] /\ cache' = NoCache
        /\ UNCHANGED <<transcript, mtime, output, faults>>
    BY <1>2 DEF ReadToRelease, Goto
  <2>3. /\ [cache EXCEPT !.pid = NoRun] \in Records
        /\ [cache EXCEPT !.pid = NoRun].pid = NoRun
        /\ [cache EXCEPT !.pid = NoRun].last_output = cache.last_output
        /\ [cache EXCEPT !.pid = NoRun].since_update = cache.since_update
    BY <2>1 DEF Records
  <2>4. Dated([cache EXCEPT !.pid = NoRun])
    BY <1>2, <2>3 DEF Dated, SLInv, AllDated
  <2> QED  BY <2>2, <2>3, <2>4 DEF SLInv, SLTypeOK, AllDated, Dated, MarksTheLiving,
                                   ReleasesUnmarked, Lines, Cache
<1>3. CASE Release(r)
  BY <1>3, EndKeeps DEF Release, SLInv, SLTypeOK, AllDated, MarksTheLiving, ReleasesUnmarked
<1>4. CASE Die(r)
  <2>1. output' \in [Run -> Output] /\ faults' \in Nat
        /\ \A q \in Run \ {r} : output'[q] = output[q]
    BY <1>4 DEF Die, SLInv, SLTypeOK, Output
  <2>2. /\ End(r) /\ cache' = Forgotten(cache, r) /\ UNCHANGED <<transcript, mtime>>
    BY <1>4 DEF Die
  <2>3. cache \in Cache /\ cache' \in Cache
    BY <2>2, ForgottenKeeps DEF SLInv, SLTypeOK
  <2>4. SLTypeOK'
    BY <2>1, <2>2, <2>3, EndKeeps DEF SLInv, SLTypeOK
  <2>5. MarksTheLiving'
    <3> SUFFICES ASSUME cache' # NoCache, cache'.pid # NoRun
                 PROVE  line'[cache'.pid] \notin {"ended", "read"}
      BY DEF MarksTheLiving
    <3>1. cache # NoCache /\ cache.pid # r /\ cache'.pid = cache.pid /\ cache.pid \in Run
      BY <2>2, <2>3, ForgottenKeeps DEF Cache, Records
    <3> QED  BY <2>2, <3>1, EndKeeps DEF SLInv, MarksTheLiving
  <2> QED  BY <2>2, <2>3, <2>4, <2>5, EndKeeps, ForgottenKeeps DEF SLInv, AllDated
<1> QED  BY <1>1, <1>2, <1>3, <1>4

\* Time passes, a run begins, the transcript changes.
LEMMA TimeKeeps ==
    ASSUME SLInv,
           Tick \/ ChangeTranscript \/ \E r \in Run : BeginRun(r)
    PROVE  SLInv'
<1>1. CASE Tick
  <2>1. /\ cache' = OlderCache(cache)
        /\ initial' = [r \in Run |-> OlderCache(initial[r])]
        /\ output' = [r \in Run |-> Older(output[r])]
        /\ UNCHANGED <<transcript, line, mtime, faults>>
    BY <1>1 DEF Tick
  <2>2. /\ cache \in Cache /\ \A r \in Run : initial[r] \in Cache /\ output[r] \in Output
    BY DEF SLInv, SLTypeOK
  <2> QED  BY <2>1, <2>2, OlderKeeps, OlderOutput
           DEF SLInv, SLTypeOK, AllDated, MarksTheLiving, ReleasesUnmarked
<1>2. CASE ChangeTranscript
  BY <1>2 DEF ChangeTranscript, SLInv, SLTypeOK, AllDated, MarksTheLiving,
              ReleasesUnmarked
<1>3. ASSUME NEW r \in Run, BeginRun(r) PROVE SLInv'
  BY <1>3 DEF BeginRun, Goto, SLInv, SLTypeOK, AllDated, MarksTheLiving, ReleasesUnmarked, Lines,
              Output
<1> QED  BY <1>1, <1>2, <1>3

\* So does every step.
LEMMA RunKeeps == SLInv /\ [SLNext]_slvars => SLInv'
<1> SUFFICES ASSUME SLInv, [SLNext]_slvars PROVE SLInv'
  OBVIOUS
<1>1. CASE UNCHANGED slvars
  BY <1>1 DEF slvars, SLInv, SLTypeOK, AllDated, Dated, MarksTheLiving, ReleasesUnmarked
<1>2. CASE SLNext
  BY <1>2, ReadKeeps, WriteKeeps, RenderKeeps, ReleaseKeeps, TimeKeeps DEF SLNext, RunStep
<1> QED  BY <1>1, <1>2

\* What the file holds was written for a version there was, its line no older than the date the
\* file has of it, and what marks it is a process that is still there.
THEOREM LineInvariance == SLSpec => []SLInv
  BY SLInitInv, RunKeeps, PTL DEF SLSpec

\* cached_statusline_output shows no line again that is older than the refresh interval, unless
\* the process that marked the cache is still there (StatuslineCache::updating).
THEOREM StaleBounded == SLSpec => StaleIsBounded
<1>1. ASSUME SLInv, [SLNext]_slvars, NEW r \in Run,
             line[r] = "read", line'[r] = "ended", output'[r] # NoOutput
      PROVE  \/ output'[r].age < Refresh
             \/ \E q \in Run : line[q] \notin {"read", "ended"} /\ cache.pid = q
  <2> USE <1>1
  <2>1. ReadCache(r) \/ Die(r)
    <3>1. ASSUME NEW q \in Run, BeginRun(q) \/ Mark(q) \/ Render(q) \/ Fail(q) \/ EmptyToMark(q)
                                \/ EmptyToComplete(q) \/ ReadToRelease(q) \/ Release(q)
                                \/ Complete(q)
          PROVE  FALSE
      <4>1. line[q] # "read" /\ \A p \in Run \ {q} : line'[p] = line[p]
        BY <3>1 DEF SLInv, SLTypeOK, BeginRun, Mark, Render, Fail, EmptyToMark, EmptyToComplete, Empty,
                    Complete, ReadToRelease, Release, End, Goto
      <4> QED  BY <4>1
    <3>2. ASSUME NEW q \in Run, ReadCache(q) \/ Die(q)
          PROVE  q = r
      <4>1. \A p \in Run \ {q} : line'[p] = line[p]
        BY <3>2 DEF SLInv, SLTypeOK, ReadCache, Die, End, Goto
      <4> QED  BY <4>1
    <3>3. line' # line
      OBVIOUS
    <3> QED  BY <3>1, <3>2, <3>3 DEF SLNext, RunStep, slvars, ChangeTranscript, Tick
  <2>0. ~Die(r)
    BY DEF Die, SLInv, SLTypeOK
  <2>2. /\ Cached(cache, mtime[r]) /\ output'[r] = cache.last_output
    BY <2>0, <2>1 DEF ReadCache, Goto, SLInv, SLTypeOK
  <2>3. cache \in Records /\ cache.last_output # NoOutput
    BY <2>2 DEF Cached, SLInv, SLTypeOK, Cache
  <2>4. CASE cache.since_update < Refresh
    <3>1. cache.last_output \in [version: 0..MaxVersion, age: 0..Refresh]
      BY <2>3 DEF Records, Output
    <3> QED  BY <2>2, <2>3, <2>4, <3>1 DEF SLInv, AllDated, Dated, Records, Cached
  <2>5. CASE cache.pid # NoRun
    BY <2>2, <2>3, <2>5 DEF SLInv, MarksTheLiving, Records, Cached
  <2> QED  BY <2>2, <2>4, <2>5 DEF Cached, Alive
<1> DEFINE Bounded == \A r \in Run :
        line[r] = "read" /\ line'[r] = "ended" /\ output'[r] # NoOutput =>
          \/ output'[r].age < Refresh
          \/ \E q \in Run : line[q] \notin {"read", "ended"} /\ cache.pid = q
<1>2. SLInv /\ [SLNext]_slvars => [Bounded]_slvars
  BY <1>1
<1> QED  BY LineInvariance, <1>2, PTL DEF SLSpec, StaleIsBounded

HIDE SLAssumption

----------------------------------------------------------------------------
(***************************************************************************)
(* Blocks.  For every timeline, clock and duration: the blocks share out   *)
(* the entries, each within its window, the gaps are the silences, and     *)
(* only the last block can be active.                                      *)
(*                                                                         *)
(* The inductive invariant adds what is known of the block under way: the  *)
(* last entry is in it and its entries lie in its window.                  *)
(***************************************************************************)
USE BlocksAssumption

Within(i, begin) ==
    /\ begin <= times[i]
    /\ times[i] <= begin + Duration \/ times[i] < begin + Hour

UnderWay ==
    /\ start = NoStart => current = {}
    /\ start = NoStart /\ ~built => taken = 0 /\ blocks = <<>>
    /\ start # NoStart =>
          /\ start \in Nat /\ ~built /\ taken \in current
          /\ \A i \in current : i <= taken /\ Within(i, start)

\* What a block that was pushed is, once n entries have been gone through.
Silent(b) == /\ b.start < b.end
             /\ \A i \in Places : times[i] + Duration <= b.start \/ b.end <= times[i]

BlockOK(b, n) ==
    /\ \A i \in b.entries : i <= n /\ b.start <= times[i]
    /\ \A i \in b.entries : times[i] <= b.end \/ times[i] < b.start + Hour
    /\ b.is_gap => Silent(b)

Apart(bs) == \A b, c \in DOMAIN bs : b # c => bs[b].entries \cap bs[c].entries = {}

Pushed(bs, n) ==
    /\ bs \in Seq(BlockType)
    /\ \A b \in DOMAIN bs : BlockOK(bs[b], n)
    /\ Apart(bs)

Inactive(bs) == AllPast => \A b \in DOMAIN bs : ~bs[b].is_active

Held(bs, cur, n) == \A i \in 1..n : i \in cur \/ \E b \in DOMAIN bs : i \in bs[b].entries

Free(bs, places) == \A b \in DOMAIN bs : bs[b].entries \cap places = {}

Covered(bs, n) ==
    \A i \in 2..n : times[i] - times[i - 1] > Duration =>
        \E b \in DOMAIN bs : bs[b] = GapBlock(times[i - 1], times[i])

Frame == /\ times \in Seq(Nat) /\ Ascending(times) /\ now \in Nat
         /\ taken \in 0..Len(times) /\ built \in BOOLEAN
         /\ start \in Nat \cup {NoStart} /\ current \in SUBSET Places
         /\ built => taken = Len(times)

IInv == /\ Frame /\ UnderWay
        /\ Pushed(blocks, taken)
        /\ Held(blocks, current, taken)
        /\ Free(blocks, current)
        /\ Covered(blocks, taken)
        /\ ~built => Inactive(blocks)
        /\ OneActive

----------------------------------------------------------------------------
\* Flooring to the hour goes back by less than an hour.
LEMMA Floored ==
    ASSUME NEW t \in Nat
    PROVE  FloorToHour(t) \in Nat /\ FloorToHour(t) <= t /\ t < FloorToHour(t) + Hour
<1>1. t % Hour \in 0..(Hour - 1)
  OBVIOUS
<1>2. t % Hour <= t
  OBVIOUS
<1> QED BY <1>1, <1>2 DEF FloorToHour

\* The places of a list that grew by one.
LEMMA Appended ==
    ASSUME NEW S, NEW bs \in Seq(S), NEW x \in S
    PROVE  /\ Append(bs, x) \in Seq(S)
           /\ Len(Append(bs, x)) = Len(bs) + 1
           /\ DOMAIN Append(bs, x) = DOMAIN bs \cup {Len(bs) + 1}
           /\ \A b \in DOMAIN bs : Append(bs, x)[b] = bs[b] /\ b # Len(bs) + 1
           /\ Append(bs, x)[Len(bs) + 1] = x
  OBVIOUS

\* Pushing a block that is right and shares no entry with the others.
LEMMA PushOne ==
    ASSUME NEW n, NEW bs, Pushed(bs, n), NEW x \in BlockType, BlockOK(x, n), Free(bs, x.entries)
    PROVE  Pushed(Append(bs, x), n)
<1>1. bs \in Seq(BlockType)
  BY DEF Pushed
<1> DEFINE cs == Append(bs, x)
<1>2. /\ cs \in Seq(BlockType) /\ DOMAIN cs = DOMAIN bs \cup {Len(bs) + 1}
      /\ \A b \in DOMAIN bs : cs[b] = bs[b] /\ b # Len(bs) + 1
      /\ cs[Len(bs) + 1] = x
  BY <1>1, Appended
<1> HIDE DEF cs
<1>3. \A b \in DOMAIN cs : BlockOK(cs[b], n)
  BY <1>2 DEF Pushed
<1>4. Apart(cs)
  BY <1>2 DEF Pushed, Apart, Free
<1> QED BY <1>2, <1>3, <1>4 DEF Pushed, cs

\* What was right of n entries is right of more.
LEMMA PushedLater ==
    ASSUME NEW n \in Nat, NEW m \in Nat, n <= m, NEW bs, Pushed(bs, n), \A b \in DOMAIN bs :
           bs[b].entries \subseteq Nat
    PROVE  Pushed(bs, m)
  BY DEF Pushed, BlockOK

\* A block's entries are places.
LEMMA EntriesArePlaces ==
    ASSUME NEW bs \in Seq(BlockType), NEW b \in DOMAIN bs
    PROVE  bs[b] \in BlockType /\ bs[b].entries \subseteq Places
<1>1. bs[b] \in BlockType
  OBVIOUS
<1> QED BY <1>1 DEF BlockType

\* The block under way can be pushed; and it is not active when an entry that is past ends it.
LEMMA ClosingBlock ==
    ASSUME IInv, start # NoStart, NEW x, x = Block(start, current, taken)
    PROVE  /\ x \in BlockType /\ x.entries = current /\ ~x.is_gap
           /\ x.start = start /\ x.end = start + Duration
           /\ x.is_active <=> now - times[taken] < Duration /\ now < start + Duration
           /\ BlockOK(x, taken)
           /\ Pushed(Append(blocks, x), taken)
<1>1. /\ start \in Nat /\ taken \in current /\ current \in SUBSET Places /\ times[taken] \in Nat
      /\ now \in Nat /\ Duration \in Nat
  BY DEF IInv, Frame, UnderWay, Places
<1>2. (now - times[taken] < Duration /\ now < start + Duration) \in BOOLEAN
  BY <1>1
<1>3. /\ x.entries = current /\ x.is_gap = FALSE /\ x.start = start /\ x.end = start + Duration
      /\ x.is_active = (now - times[taken] < Duration /\ now < start + Duration)
      /\ x \in BlockType
  BY <1>1, <1>2 DEF Block, BlockType, IsActive
<1>4. BlockOK(x, taken)
  BY <1>3 DEF BlockOK, IInv, UnderWay, Within
<1>5. Free(blocks, x.entries)
  BY <1>3 DEF IInv
<1>6. Pushed(Append(blocks, x), taken)
  BY <1>3, <1>4, <1>5, PushOne DEF IInv
<1> QED BY <1>3, <1>4, <1>6

\* A gap's block, where the entries after taken are further away than Duration.
LEMMA GapPushed ==
    ASSUME Frame, taken \in 1..(Len(times) - 1), SinceLast > Duration,
           NEW bs, Pushed(bs, taken), NEW g, g = GapBlock(times[taken], times[taken + 1])
    PROVE  /\ g \in BlockType /\ g.entries = {} /\ ~g.is_active
           /\ Pushed(Append(bs, g), taken)
<1>1. /\ times[taken] \in Nat /\ times[taken + 1] \in Nat /\ taken + 1 \in DOMAIN times
      /\ taken \in DOMAIN times /\ Duration \in Nat /\ DOMAIN times = Places
  BY DEF Frame, Places
<1>2. /\ g.start = times[taken] + Duration /\ g.end = times[taken + 1] /\ g.entries = {}
      /\ g.is_active = FALSE /\ g.is_gap = TRUE /\ g \in BlockType
  BY <1>1 DEF GapBlock, BlockType
<1>3. g.start < g.end
  BY <1>1, <1>2 DEF SinceLast
<1>4. ASSUME NEW i \in Places PROVE times[i] + Duration <= g.start \/ g.end <= times[i]
  <2>1. i \in DOMAIN times /\ times[i] \in Nat /\ (i <= taken \/ taken + 1 <= i)
    BY <1>1 DEF Frame, Places
  <2>2. times[i] <= times[taken] \/ times[taken + 1] <= times[i]
    BY <2>1, <1>1 DEF Frame, Ascending
  <2> QED BY <2>1, <2>2, <1>1, <1>2
<1>5. BlockOK(g, taken)
  BY <1>2, <1>3, <1>4 DEF BlockOK, Silent
<1>6. Free(bs, g.entries)
  BY <1>2 DEF Free
<1> QED BY <1>2, <1>5, <1>6, PushOne

----------------------------------------------------------------------------
\* Nothing the invariant says of the blocks depends on more than times and now.
LEMMA Carried ==
    ASSUME times' = times, now' = now, NEW bs, NEW n, NEW cur,
           bs = blocks', n = taken', cur = current',
           Pushed(bs, n), Held(bs, cur, n), Free(bs, cur), Covered(bs, n)
    PROVE  Pushed(blocks, taken)' /\ Held(blocks, current, taken)' /\ Free(blocks, current)'
           /\ Covered(blocks, taken)'
<1>1. Pushed(blocks, taken)'
  BY DEF Pushed, BlockOK, Silent, Apart, BlockType, Places
<1>2. Held(blocks, current, taken)'
  BY DEF Held
<1>3. Free(blocks, current)'
  BY DEF Free
<1>4. Covered(blocks, taken)'
  BY DEF Covered, GapBlock
<1> QED BY <1>1, <1>2, <1>3, <1>4

\* The invariant holds before the loop.
LEMMA InitInv == BLInit => IInv
<1> SUFFICES ASSUME BLInit PROVE IInv
  OBVIOUS
<1>1. Frame
  <2>1. times \in Seq(Nat) /\ Ascending(times) /\ now \in Nat
    BY DEF BLInit
  <2>2. taken \in 0..Len(times)
    BY <2>1 DEF BLInit
  <2> QED BY <2>1, <2>2 DEF BLInit, Frame
<1>2. UnderWay
  BY DEF BLInit, UnderWay
<1>3. Pushed(blocks, taken) /\ Held(blocks, current, taken) /\ Free(blocks, current)
      /\ Covered(blocks, taken)
  BY DEF BLInit, Pushed, Apart, Held, Free, Covered
<1>4. Inactive(blocks) /\ OneActive
  BY DEF BLInit, Inactive, OneActive
<1> QED BY <1>1, <1>2, <1>3, <1>4 DEF IInv

\* The next entry, its time and the hour it falls into.
LEMMA NextEntry ==
    ASSUME IInv, taken < Len(times)
    PROVE  /\ taken + 1 \in Places /\ taken + 1 \in DOMAIN times /\ times[taken + 1] \in Nat
           /\ FloorToHour(times[taken + 1]) \in Nat
           /\ Within(taken + 1, FloorToHour(times[taken + 1]))
           /\ \A i \in 1..taken : times[i] \in Nat /\ times[i] <= times[taken + 1]
<1>1. /\ taken + 1 \in Places /\ taken + 1 \in DOMAIN times /\ times[taken + 1] \in Nat
      /\ \A i \in 1..taken : times[i] \in Nat /\ i \in DOMAIN times /\ i <= taken + 1
  BY DEF IInv, Frame, Places
<1>2. \A i \in 1..taken : times[i] <= times[taken + 1]
  BY <1>1 DEF IInv, Frame, Ascending
<1>3. /\ FloorToHour(times[taken + 1]) \in Nat
      /\ FloorToHour(times[taken + 1]) <= times[taken + 1]
      /\ times[taken + 1] < FloorToHour(times[taken + 1]) + Hour
  BY <1>1, Floored
<1> QED BY <1>1, <1>2, <1>3 DEF Within

\* The first entry begins the first block.
LEMMA FirstPreserves == IInv /\ First => IInv'
<1> SUFFICES ASSUME IInv, First PROVE IInv'
  OBVIOUS
<1>1. /\ taken = 0 /\ blocks = <<>> /\ blocks' = <<>> /\ taken' = 1 /\ ~built /\ ~built'
      /\ built' \in BOOLEAN
      /\ times' = times /\ now' = now /\ taken + 1 \in Places
      /\ start' = FloorToHour(times[1]) /\ current' = {1} /\ start' \in Nat
      /\ Within(1, start')
  BY NextEntry DEF First, Begin, IInv, UnderWay, Frame, Places
<1>2. Frame'
  <2>1. /\ times' \in Seq(Nat) /\ Ascending(times') /\ now' \in Nat /\ start' \in Nat
        /\ Places' = Places /\ current' \in SUBSET Places
    BY <1>1 DEF IInv, Frame, Places
  <2>2. taken' \in 0..Len(times')
    BY <1>1, <2>1 DEF Places
  <2> QED BY <1>1, <2>1, <2>2 DEF Frame, Ascending
<1>3. UnderWay'
  BY <1>1 DEF UnderWay, Within, IInv, Frame
<1>4. Pushed(blocks', taken') /\ Held(blocks', current', taken') /\ Free(blocks', current')
      /\ Covered(blocks', taken')
  BY <1>1 DEF Pushed, Apart, Held, Free, Covered
<1>5. Inactive(blocks)' /\ OneActive'
  BY <1>1 DEF Inactive, OneActive
<1> QED BY <1>1, <1>2, <1>3, <1>4, <1>5, Carried DEF IInv

\* Another entry joins the block under way.
LEMMA ExtendPreserves == IInv /\ Extend => IInv'
<1> SUFFICES ASSUME IInv, Extend PROVE IInv'
  OBVIOUS
<1>1. /\ blocks' = blocks /\ taken' = taken + 1 /\ ~built /\ ~built' /\ built' = built
      /\ times' = times /\ now' = now /\ start' = start /\ start # NoStart /\ start \in Nat
      /\ current' = current \cup {taken + 1} /\ taken + 1 \in Places
      /\ ~(SinceStart > Duration) /\ ~(SinceLast > Duration) /\ taken \in Nat
      /\ times[taken + 1] \in Nat /\ taken \in current /\ taken >= 1
      /\ taken + 1 <= Len(times) /\ times[taken] <= times[taken + 1] /\ times[taken] \in Nat
  BY NextEntry DEF Extend, IsOver, IInv, UnderWay, Frame, Places
<1>2. Frame'
  BY <1>1 DEF IInv, Frame, Places, Ascending
<1>3. start <= times[taken + 1] /\ times[taken + 1] <= start + Duration
  BY <1>1 DEF SinceStart, IInv, UnderWay, Within
<1>4. UnderWay'
  BY <1>1, <1>3 DEF UnderWay, Within, IInv, Frame, Places
<1>5. Pushed(blocks', taken')
  BY <1>1, PushedLater, EntriesArePlaces DEF IInv, Pushed, Places
<1>6. \A b \in DOMAIN blocks : taken + 1 \notin blocks[b].entries
  BY <1>1 DEF IInv, Pushed, BlockOK
<1>7. Held(blocks', current', taken') /\ Free(blocks', current')
  BY <1>1, <1>6 DEF IInv, Held, Free
<1>8. Covered(blocks', taken')
  BY <1>1 DEF IInv, Covered, SinceLast
<1>9. Inactive(blocks)' /\ OneActive'
  BY <1>1 DEF IInv, Inactive, OneActive, AllPast, Places
<1> QED BY <1>1, <1>2, <1>4, <1>5, <1>7, <1>8, <1>9, Carried DEF IInv

\* An entry that is too late ends the block; it is past, so the block is over for the clock too.
LEMMA BreakPreserves == IInv /\ Break => IInv'
<1> SUFFICES ASSUME IInv, Break PROVE IInv'
  OBVIOUS
<1> DEFINE x == Block(start, current, taken)
           g == GapBlock(times[taken], times[taken + 1])
           bs == Append(blocks, x)
           cs == Append(bs, g)
<1>1. /\ blocks' = WithGapIfAny(bs) /\ taken' = taken + 1 /\ ~built /\ ~built' /\ built' = built
      /\ times' = times /\ now' = now /\ start # NoStart /\ start \in Nat
      /\ start' = FloorToHour(times[taken + 1]) /\ start' \in Nat /\ start' # NoStart
      /\ Within(taken + 1, start')
      /\ current' = {taken + 1} /\ taken + 1 \in Places
      /\ (SinceStart > Duration \/ SinceLast > Duration) /\ taken \in Nat
      /\ times[taken + 1] \in Nat /\ taken \in current /\ taken >= 1 /\ now \in Nat
      /\ taken + 1 <= Len(times) /\ times[taken] <= times[taken + 1] /\ times[taken] \in Nat
  BY NextEntry DEF Break, Begin, IsOver, IInv, UnderWay, Frame, Places
<1>2. Frame'
  BY <1>1 DEF IInv, Frame, Places, Ascending
<1>3. UnderWay'
  BY <1>1 DEF UnderWay, Within
<1>4. /\ x \in BlockType /\ x.entries = current /\ ~x.is_gap
      /\ x.is_active <=> now - times[taken] < Duration /\ now < start + Duration
      /\ Pushed(bs, taken)
  BY <1>1, ClosingBlock
<1>5. AllPast => ~x.is_active
  BY <1>1, <1>4 DEF AllPast, SinceStart, SinceLast
<1> HIDE DEF x
<1>6. /\ bs \in Seq(BlockType) /\ DOMAIN bs = DOMAIN blocks \cup {Len(blocks) + 1}
      /\ \A b \in DOMAIN blocks : bs[b] = blocks[b] /\ b # Len(blocks) + 1
      /\ bs[Len(blocks) + 1] = x
  BY <1>4, Appended DEF IInv, Pushed
<1> HIDE DEF bs
<1>7. Inactive(bs)
  BY <1>1, <1>5, <1>6 DEF IInv, Inactive
<1>8. \A i \in 1..taken : \E b \in DOMAIN bs : i \in bs[b].entries
  BY <1>4, <1>6 DEF IInv, Held
<1>9. Covered(bs, taken)
  BY <1>6 DEF IInv, Covered
<1>10. CASE ~(SinceLast > Duration)
  <2>1. blocks' = bs
    BY <1>1, <1>10 DEF WithGapIfAny
  <2>2. Pushed(bs, taken + 1)
    <3>1. \A b \in DOMAIN bs : bs[b].entries \subseteq Nat
      BY <1>6, EntriesArePlaces DEF Places
    <3> QED BY <1>1, <1>4, <3>1, PushedLater
  <2>3. Covered(bs, taken + 1)
    BY <1>1, <1>9, <1>10 DEF Covered, SinceLast
  <2>4. Held(bs, current', taken + 1)
    BY <1>1, <1>8 DEF Held
  <2>5. Free(bs, current')
    BY <1>1, <1>4 DEF Free, Pushed, BlockOK
  <2>6. Inactive(blocks)' /\ OneActive'
    BY <1>1, <1>7, <2>1 DEF Inactive, OneActive, AllPast, Places
  <2> QED BY <1>1, <1>2, <1>3, <2>1, <2>2, <2>3, <2>4, <2>5, <2>6, Carried DEF IInv
<1>11. CASE SinceLast > Duration
  <2>1. blocks' = cs
    BY <1>1, <1>11 DEF WithGapIfAny
  <2>2. g \in BlockType /\ g.entries = {} /\ ~g.is_active /\ Pushed(cs, taken)
    <3>1. taken \in 1..(Len(times) - 1)
      BY <1>1 DEF IInv, Frame
    <3> QED BY <1>4, <1>11, <3>1, GapPushed DEF IInv
  <2> HIDE DEF g
  <2>3. /\ cs \in Seq(BlockType) /\ DOMAIN cs = DOMAIN bs \cup {Len(bs) + 1}
        /\ \A b \in DOMAIN bs : cs[b] = bs[b] /\ b # Len(bs) + 1
        /\ cs[Len(bs) + 1] = g
    BY <1>6, <2>2, Appended
  <2>4. \E b \in DOMAIN cs : cs[b] = GapBlock(times[taken], times[taken + 1])
    BY <2>3 DEF g
  <2> HIDE DEF cs
  <2>5. Pushed(cs, taken + 1)
    <3>1. \A b \in DOMAIN cs : cs[b].entries \subseteq Nat
      BY <2>3, EntriesArePlaces DEF Places
    <3> QED BY <1>1, <2>2, <3>1, PushedLater
  <2>6. Covered(cs, taken + 1)
    <3> SUFFICES ASSUME NEW i \in 2..(taken + 1), times[i] - times[i - 1] > Duration
                 PROVE  \E b \in DOMAIN cs : cs[b] = GapBlock(times[i - 1], times[i])
      BY DEF Covered
    <3>1. CASE i = taken + 1
      BY <1>1, <2>4, <3>1
    <3>2. CASE i # taken + 1
      <4>1. i \in 2..taken
        BY <1>1, <3>2
      <4>2. PICK b \in DOMAIN bs : bs[b] = GapBlock(times[i - 1], times[i])
        BY <1>9, <4>1 DEF Covered
      <4> QED BY <2>3, <4>2
    <3> QED BY <3>1, <3>2
  <2>7. Held(cs, current', taken + 1)
    <3>1. \A i \in 1..taken : \E b \in DOMAIN cs : i \in cs[b].entries
      BY <1>8, <2>3
    <3> QED BY <1>1, <3>1 DEF Held
  <2>8. Free(cs, current')
    BY <1>1, <2>2 DEF Free, Pushed, BlockOK
  <2>9. Inactive(cs)
    BY <1>7, <2>2, <2>3 DEF Inactive
  <2>10. Inactive(blocks)' /\ OneActive'
    BY <1>1, <2>9, <2>1 DEF Inactive, OneActive, AllPast, Places
  <2> QED BY <1>1, <1>2, <1>3, <2>1, <2>5, <2>6, <2>7, <2>8, <2>10, Carried DEF IInv
<1> QED BY <1>10, <1>11

\* The block under way at the end is the last.
LEMMA ClosePreserves == IInv /\ Close => IInv'
<1> SUFFICES ASSUME IInv, Close PROVE IInv'
  OBVIOUS
<1>1. /\ taken' = taken /\ ~built /\ built' /\ built' \in BOOLEAN /\ times' = times /\ now' = now
      /\ start' = NoStart /\ current' = {} /\ taken = Len(times) /\ blocks \in Seq(BlockType)
      /\ Inactive(blocks)
  BY DEF Close, IInv, Pushed
<1>2. Frame'
  BY <1>1 DEF IInv, Frame, Places, Ascending
<1>3. UnderWay'
  BY <1>1 DEF UnderWay
<1>4. Free(blocks', current')
  BY <1>1 DEF Free
<1>5. CASE start = NoStart
  <2>1. blocks' = blocks /\ current = {} /\ current' = current
    BY <1>1, <1>5 DEF Close, IInv, UnderWay
  <2>2. OneActive'
    BY <1>1, <2>1 DEF Inactive, OneActive, AllPast, Places
  <2> QED BY <1>1, <1>2, <1>3, <1>4, <2>1, <2>2, Carried DEF IInv
<1>6. CASE start # NoStart
  <2> DEFINE x == Block(start, current, taken)
             bs == Append(blocks, x)
  <2>1. blocks' = bs
    BY <1>6 DEF Close
  <2>2. x \in BlockType /\ x.entries = current /\ Pushed(bs, taken) /\ ~x.is_gap
    BY <1>6, ClosingBlock
  <2> HIDE DEF x
  <2>3. /\ bs \in Seq(BlockType) /\ DOMAIN bs = DOMAIN blocks \cup {Len(blocks) + 1}
        /\ \A b \in DOMAIN blocks : bs[b] = blocks[b] /\ b # Len(blocks) + 1
        /\ bs[Len(blocks) + 1] = x /\ Len(bs) = Len(blocks) + 1
    BY <1>1, <2>2, Appended
  <2> HIDE DEF bs
  <2>4. Held(bs, current', taken)
    BY <1>1, <2>2, <2>3 DEF IInv, Held
  <2>5. Covered(bs, taken)
    BY <2>3 DEF IInv, Covered
  <2>6. AllPast => \A b \in DOMAIN bs : bs[b].is_active => b = Len(bs)
    BY <1>1, <2>3 DEF Inactive
  <2>7. OneActive'
    BY <1>1, <2>1, <2>6 DEF OneActive, AllPast, Places
  <2> QED BY <1>1, <1>2, <1>3, <1>4, <2>1, <2>2, <2>4, <2>5, <2>7, Carried DEF IInv
<1> QED BY <1>5, <1>6

\* Every step of the loop keeps the invariant, and so does none.
LEMMA NextInv == IInv /\ [BLNext]_blvars => IInv'
<1> SUFFICES ASSUME IInv, [BLNext]_blvars PROVE IInv'
  OBVIOUS
<1>1. CASE First
  BY <1>1, FirstPreserves
<1>2. CASE Extend
  BY <1>2, ExtendPreserves
<1>3. CASE Break
  BY <1>3, BreakPreserves
<1>4. CASE Close
  BY <1>4, ClosePreserves
<1>5. CASE UNCHANGED blvars
  BY <1>5 DEF blvars, IInv, Frame, UnderWay, Within, Pushed, BlockOK, Silent, Apart, BlockType,
              Places, Held, Free, Covered, GapBlock, Inactive, OneActive, AllPast, Ascending
<1> QED BY <1>1, <1>2, <1>3, <1>4, <1>5 DEF BLNext

\* The blocks stay as the invariant says for every timeline, clock, duration and hour.
THEOREM BlocksInvariance == BLSpec => []IInv
<1>1. BLInit => IInv
  BY InitInv
<1>2. IInv /\ [BLNext]_blvars => IInv'
  BY NextInv
<1> QED BY <1>1, <1>2, PTL DEF BLSpec

\* The variables of identify_session_blocks keep their types.
THEOREM BlocksTypeCorrect == BLSpec => []BLTypeOK
<1>1. IInv => BLTypeOK
  BY DEF IInv, Frame, Pushed, BLTypeOK
<1> QED BY <1>1, BlocksInvariance, PTL

\* No entry is lost between blocks and none is in two of them.
THEOREM SharedOut == BLSpec => []EntriesOnce
<1>1. IInv => EntriesOnce
  BY DEF IInv, Frame, Places, Held, Free, Pushed, Apart, EntriesOnce
<1> QED BY <1>1, BlocksInvariance, PTL

\* A block's entries lie in its window.
THEOREM Windows == BLSpec => []InWindow
<1>1. IInv => InWindow
  BY DEF IInv, Pushed, BlockOK, InWindow
<1> QED BY <1>1, BlocksInvariance, PTL

\* When no entry is from the future only the last block can be active.
THEOREM OnlyLastActive == BLSpec => []OneActive
<1>1. IInv => OneActive
  BY DEF IInv
<1> QED BY <1>1, BlocksInvariance, PTL

\* The gaps are the silences longer than a block, and no entry falls into one.
THEOREM Gaps == BLSpec => []GapsAreSilences
<1>1. IInv => GapsAreSilences
  BY DEF IInv, Pushed, BlockOK, Silent, Covered, GapsAreSilences
<1> QED BY <1>1, BlocksInvariance, PTL
=============================================================================
