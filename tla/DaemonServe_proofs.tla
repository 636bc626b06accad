------------------------- MODULE DaemonServe_proofs -------------------------
(***************************************************************************)
(* For every number of clients and every zone, option and fault: the       *)
(* daemon's queues hold a connection once, a client takes only rows of its *)
(* own arguments, and a stop that fails has stopped nothing.               *)
(*                                                                         *)
(* The inductive invariant adds what a reply promises: rows are those of   *)
(* the daemon's arguments, a reply to a shutdown is one the loop ends over *)
(* while its client waits.                                                 *)
(***************************************************************************)
EXTENDS DaemonServe, SequenceFacts

\* The daemon's own connection comes last.
WakeLast == main \notin {"join", "ended"} => Wake \notin Queued

IdleIsClean == \A c \in Client : client[c] = "idle" => reply[c] = None

Promises == \A c \in Client :
    reply[c] # None /\ reply[c].ok =>
        \/ request[c] = "shutdown"
        \/ reply[c].rows = startedWith

StoppersWait == \A c \in stoppers :
    /\ client[c] \in {"waiting", "stopped"}
    /\ request[c] = "shutdown"
    /\ reply[c] # None /\ reply[c].ok

Inv ==
    /\ TypeOK /\ OnePlace /\ WakeLast
    /\ IdleIsClean /\ Promises /\ StoppersWait /\ TakesOwnRows

USE ServeAssumption

LEMMA NoConns == <<>> \in Seq(Conn)
  OBVIOUS

LEMMA NoneUnqueued == \A s \in Seq(Conn) : None \notin ToSet(s)
  BY ElementsType

----------------------------------------------------------------------------
\* Before the first client the queues are empty.
LEMMA InitInv == Init => Inv
<1> SUFFICES ASSUME Init PROVE Inv
  OBVIOUS
<1>1. TypeOK
  BY NoConns DEF Init, TypeOK, Request
<1>2. OnePlace /\ WakeLast
  BY EmptyElements, EmptyInjective DEF Init, OnePlace, WakeLast, Queued, Conn
<1>3. IdleIsClean /\ Promises /\ StoppersWait /\ TakesOwnRows
  BY DEF Init, IdleIsClean, Promises, StoppersWait, TakesOwnRows
<1> QED  BY <1>1, <1>2, <1>3 DEF Inv

\* Connections are closed only where they are, and a closed one promises nothing.
LEMMA CloseAllIs ==
    ASSUME TypeOK, NEW conns, CloseAll(conns)
    PROVE  /\ reply' \in [Client -> Reply \cup {None}]
           /\ \A c \in Client : \/ reply'[c] = reply[c]
                                \/ c \in conns /\ reply[c] = None /\ reply'[c] # None /\ ~reply'[c].ok
<1>1. Closed \in Reply /\ ~Closed.ok
  BY DEF Closed, Reply
<1> QED  BY <1>1 DEF CloseAll, TypeOK

\* What a client does moves no connection but its own.
LEMMA ClientPreserves ==
    ASSUME Inv, NEW c \in Client, ClientStep(c)
    PROVE  Inv'
<1> USE DEF Inv
<1>1. CASE Connect(c)
  <2>1. c \notin Queued /\ reply[c] = None
    BY <1>1 DEF Connect, OnePlace, IdleIsClean
  <2>2. /\ backlog' \in Seq(Conn) /\ ToSet(backlog') = ToSet(backlog) \cup {c}
        /\ IsInjective(backlog')
    BY <1>1, <2>1, Enqueued DEF Connect, TypeOK, OnePlace, Queued, Conn
  <2>3. TypeOK'
    BY <1>1, <2>2 DEF Connect, TypeOK, Request
  <2>4. OnePlace'
    BY <1>1, <2>1, <2>2 DEF Connect, TypeOK, OnePlace, Queued
  <2>5. WakeLast'
    BY <1>1, <2>2 DEF Connect, WakeLast, Queued
  <2>6. IdleIsClean' /\ Promises' /\ StoppersWait' /\ TakesOwnRows'
    BY <1>1, <2>1 DEF Connect, TypeOK, IdleIsClean, Promises, StoppersWait, TakesOwnRows
  <2> QED  BY <2>3, <2>4, <2>5, <2>6
<1>2. CASE Send(c) \/ GiveUp(c)
  <2>1. TypeOK'
    BY <1>2 DEF Send, GiveUp, TypeOK, threadVars
  <2>2. OnePlace' /\ WakeLast'
    BY <1>2 DEF Send, GiveUp, TypeOK, threadVars, OnePlace, WakeLast, Queued
  <2>3. IdleIsClean' /\ Promises' /\ StoppersWait' /\ TakesOwnRows'
    BY <1>2 DEF Send, GiveUp, TypeOK, IdleIsClean, Promises, StoppersWait, TakesOwnRows
  <2> QED  BY <2>1, <2>2, <2>3
<1>3. CASE Receive(c)
  <2>1. TypeOK'
    BY <1>3 DEF Receive, TypeOK, threadVars
  <2>2. OnePlace' /\ WakeLast'
    BY <1>3 DEF Receive, TypeOK, threadVars, OnePlace, WakeLast, Queued
  <2>3. IdleIsClean' /\ Promises'
    BY <1>3 DEF Receive, TypeOK, IdleIsClean, Promises
  <2>4. StoppersWait'
    BY <1>3 DEF Receive, TypeOK, StoppersWait
  <2>5. Compatible(args[c], startedWith) => args[c] = startedWith
    BY DEF Compatible, Identity, TypeOK, Args
  <2>6. client'[c] = "served" => reply[c].rows = startedWith /\ Compatible(args[c], reply[c].rows)
    BY <1>3 DEF Receive, TypeOK, Promises
  <2>7. TakesOwnRows'
    BY <1>3, <2>5, <2>6 DEF Receive, TypeOK, TakesOwnRows
  <2> QED  BY <2>1, <2>2, <2>3, <2>4, <2>7
<1>4. CASE Leave(c)
  <2>1. TypeOK'
    BY <1>4 DEF Leave, TypeOK, threadVars, Request
  <2>2. OnePlace' /\ WakeLast'
    BY <1>4 DEF Leave, TypeOK, threadVars, OnePlace, WakeLast, Queued
  <2>3. IdleIsClean' /\ Promises' /\ StoppersWait' /\ TakesOwnRows'
    BY <1>4 DEF Leave, TypeOK, IdleIsClean, Promises, StoppersWait, TakesOwnRows
  <2> QED  BY <2>1, <2>2, <2>3
<1> QED  BY <1>1, <1>2, <1>3, <1>4 DEF ClientStep

\* Mutual exclusion of places as the acceptor moves a connection, or closes all it has.
LEMMA AcceptorPreserves ==
    ASSUME Inv, Acceptor \/ AcceptFails
    PROVE  Inv'
<1> USE DEF Inv
<1>1. CASE Accept
  <2>1. /\ Head(backlog) \in Conn /\ Tail(backlog) \in Seq(Conn)
        /\ ToSet(backlog) = ToSet(Tail(backlog)) \cup {Head(backlog)}
        /\ IsInjective(Tail(backlog)) /\ Head(backlog) \notin ToSet(Tail(backlog))
    BY <1>1, Dequeued DEF Accept, TypeOK, OnePlace
  <2>2. TypeOK'
    BY <1>1, <2>1 DEF Accept, TypeOK, clientVars, Conn
  <2>3. OnePlace' /\ WakeLast'
    BY <1>1, <2>1 DEF Accept, TypeOK, clientVars, OnePlace, WakeLast, Queued
  <2>4. IdleIsClean' /\ Promises' /\ StoppersWait' /\ TakesOwnRows'
    BY <1>1 DEF Accept, clientVars, IdleIsClean, Promises, StoppersWait, TakesOwnRows
  <2> QED  BY <2>2, <2>3, <2>4
<1>2. CASE AcceptFails
  <2>1. held = None
    BY <1>2 DEF AcceptFails, TypeOK
  <2>2. CloseAll(ToSet(backlog)) /\ backlog' = <<>>
    BY <1>2 DEF AcceptFails, AcceptorEnds
  <2>3. TypeOK'
    <3>1. reply' \in [Client -> Reply \cup {None}] /\ backlog' \in Seq(Conn)
      BY <2>2, CloseAllIs, NoConns
    <3>2. faults' \in Nat
      BY <1>2 DEF AcceptFails, TypeOK
    <3> QED  BY <1>2, <2>1, <3>1, <3>2 DEF AcceptFails, AcceptorEnds, TypeOK, clientVars
  <2>4. OnePlace' /\ WakeLast'
    BY <1>2, <2>1, <2>2, CloseAllIs, EmptyElements, EmptyInjective
       DEF AcceptFails, TypeOK, clientVars, OnePlace, WakeLast, Queued, Conn
  <2>5. IdleIsClean' /\ Promises' /\ StoppersWait' /\ TakesOwnRows'
    BY <1>2, <2>2, CloseAllIs
       DEF AcceptFails, TypeOK, OnePlace, Queued, clientVars, IdleIsClean, Promises, StoppersWait,
           TakesOwnRows
  <2> QED  BY <2>3, <2>4, <2>5
<1>3. CASE HandOver /\ incoming
  <2>1. /\ channel' \in Seq(Conn) /\ ToSet(channel') = ToSet(channel) \cup {held}
        /\ IsInjective(channel')
    <3>1. held \in Conn /\ held \notin ToSet(channel) /\ channel \in Seq(Conn) /\ IsInjective(channel)
      BY <1>3 DEF HandOver, TypeOK, OnePlace
    <3>2. channel' = Append(channel, held)
      BY <1>3 DEF HandOver
    <3> QED  BY <3>1, <3>2, Enqueued
  <2>2. TypeOK'
    BY <1>3, <2>1 DEF HandOver, TypeOK, clientVars
  <2>3. OnePlace' /\ WakeLast'
    <3>1. /\ held \in Conn /\ held' = None
          /\ UNCHANGED <<main, backlog, serving, client, reply>>
      BY <1>3 DEF HandOver, TypeOK, clientVars
    <3>2. None \notin ToSet(channel) /\ None \notin ToSet(backlog)
      BY NoneUnqueued DEF TypeOK
    <3>3. (IsInjective(backlog) /\ IsInjective(channel) /\ ToSet(backlog) \cap ToSet(channel) = {})'
      BY <2>1, <3>1 DEF OnePlace
    <3>4. ({held, serving} \cap (ToSet(backlog) \cup ToSet(channel)) = {})'
      BY <2>1, <3>1, <3>2 DEF OnePlace
    <3>5. Queued' \cap Conn \subseteq Queued
      BY <2>1, <3>1 DEF Queued
    <3> QED  BY <3>1, <3>3, <3>4, <3>5 DEF OnePlace, WakeLast, Conn
  <2>4. IdleIsClean' /\ Promises' /\ StoppersWait' /\ TakesOwnRows'
    BY <1>3 DEF HandOver, clientVars, IdleIsClean, Promises, StoppersWait, TakesOwnRows
  <2> QED  BY <2>2, <2>3, <2>4
<1>4. CASE HandOver /\ ~incoming
  <2>1. held' = None
    BY <1>4 DEF HandOver
  <2>2. CloseAll(ToSet(backlog) \cup {held}) /\ backlog' = <<>>
    BY <1>4 DEF HandOver, AcceptorEnds
  <2>3. TypeOK'
    BY <1>4, <2>1, <2>2, CloseAllIs, NoConns DEF HandOver, AcceptorEnds, TypeOK, clientVars
  <2>4. OnePlace' /\ WakeLast'
    <3>1. held \in Conn /\ UNCHANGED <<main, channel, serving, client>>
      BY <1>4 DEF HandOver, TypeOK, clientVars
    <3>2. None \notin ToSet(channel) /\ channel \in Seq(Conn)
      BY NoneUnqueued DEF TypeOK
    <3>3. Queued' \cap Conn \subseteq Queued \ (ToSet(backlog) \cup {held})
      BY <2>1, <2>2, <3>1, EmptyElements DEF Queued, OnePlace
    <3>4. (\A c \in Client : client[c] = "idle" \/ reply[c] # None => c \notin Queued)'
      BY <2>2, <3>1, <3>3, CloseAllIs DEF OnePlace, Conn
    <3>5. ({held, serving} \cap (ToSet(backlog) \cup ToSet(channel)) = {})'
      BY <2>1, <2>2, <3>1, <3>2, EmptyElements DEF OnePlace
    <3>6. (IsInjective(backlog) /\ IsInjective(channel) /\ ToSet(backlog) \cap ToSet(channel) = {})'
      BY <2>2, <3>1, EmptyElements, EmptyInjective DEF OnePlace
    <3> QED  BY <2>1, <3>1, <3>3, <3>4, <3>5, <3>6 DEF OnePlace, WakeLast, Conn
  <2>5. IdleIsClean' /\ Promises' /\ StoppersWait' /\ TakesOwnRows'
    BY <1>4, <2>2, CloseAllIs
       DEF HandOver, TypeOK, OnePlace, Queued, clientVars, IdleIsClean, Promises, StoppersWait,
           TakesOwnRows
  <2> QED  BY <2>3, <2>4, <2>5
<1> QED  BY <1>1, <1>2, <1>3, <1>4 DEF Acceptor

\* Taking the next connection from the channel.
LEMMA TakePreserves ==
    ASSUME Inv, Recv \/ Drain, Take
    PROVE  Inv'
<1> USE DEF Inv
<1>1. /\ Head(channel) \in Conn /\ Tail(channel) \in Seq(Conn)
      /\ ToSet(channel) = ToSet(Tail(channel)) \cup {Head(channel)}
      /\ IsInjective(Tail(channel)) /\ Head(channel) \notin ToSet(Tail(channel))
  BY Dequeued DEF Take, TypeOK, OnePlace
<1>2. /\ UNCHANGED <<startedWith, acceptor, listening, incoming, backlog, held, shutdown, due,
                     clientVars, reply, stoppers, faults>>
      /\ serving = None
  BY DEF Recv, Drain, TypeOK
<1>3. TypeOK'
  BY <1>1, <1>2 DEF Take, TypeOK, clientVars, Conn
<1>4. OnePlace' /\ WakeLast'
  BY <1>1, <1>2 DEF Take, TypeOK, clientVars, OnePlace, WakeLast, Queued, Recv, Drain
<1>5. IdleIsClean' /\ Promises' /\ StoppersWait' /\ TakesOwnRows'
  BY <1>2 DEF clientVars, IdleIsClean, Promises, StoppersWait, TakesOwnRows
<1> QED  BY <1>3, <1>4, <1>5

\* The connection that was served is nowhere any more.
LEMMA ServedLeaves ==
    ASSUME Inv, serving \in Conn, serving' = None, main' = "drain", main = "handle",
           UNCHANGED <<backlog, channel, held, client>>,
           \A c \in Client : c # serving => reply'[c] = reply[c]
    PROVE  OnePlace' /\ WakeLast'
<1>1. OnePlace /\ WakeLast /\ held \in Conn \cup {None}
  BY DEF Inv, TypeOK
<1>2. None \notin ToSet(channel) /\ None \notin ToSet(backlog)
  BY NoneUnqueued DEF Inv, TypeOK
<1>3. Queued' \cap Conn \subseteq Queued \ {serving}
  BY <1>1 DEF Queued, OnePlace
<1>4. ({held, serving} \cap (ToSet(backlog) \cup ToSet(channel)) = {})'
  BY <1>1, <1>2 DEF OnePlace
<1>5. (\A c \in Client : client[c] = "idle" \/ reply[c] # None => c \notin Queued)'
  BY <1>1, <1>3 DEF OnePlace, Conn
<1>6. WakeLast'
  BY <1>1, <1>3 DEF WakeLast, Conn
<1> QED  BY <1>1, <1>4, <1>5, <1>6 DEF OnePlace

\* The answer to a connection goes to its client, and promises what the loop then does.
LEMMA HandlePreserves ==
    ASSUME Inv, Handle
    PROVE  Inv'
<1> USE DEF Inv
<1>1. serving \in Conn /\ serving' = None /\ main' = "drain" /\ shutdown' \in BOOLEAN
  BY DEF Handle, TypeOK, Raised, EndsOver, Conn
<1>2. CASE serving = Wake
  <2>1. UNCHANGED <<reply, shutdown, stoppers>>
    BY <1>2 DEF Handle
  <2>2. TypeOK'
    BY <1>1, <2>1 DEF Handle, TypeOK, clientVars
  <2>3. OnePlace' /\ WakeLast'
    BY <1>1, <2>1, ServedLeaves DEF Handle, clientVars
  <2>4. IdleIsClean' /\ Promises' /\ StoppersWait' /\ TakesOwnRows'
    BY <2>1 DEF Handle, clientVars, IdleIsClean, Promises, StoppersWait, TakesOwnRows
  <2> QED  BY <2>2, <2>3, <2>4
<1>3. CASE serving \in Client
  <2>1. client[serving] # "idle" /\ reply[serving] = None
    BY <1>3 DEF OnePlace, Queued
  <2>2. /\ reply' \in [Client -> Reply \cup {None}]
        /\ \A c \in Client : c # serving => reply'[c] = reply[c]
        /\ reply'[serving] # None
        /\ reply'[serving].ok =>
              /\ client[serving] = "waiting"
              /\ reply'[serving] = Answer(serving)
    <3>1. CASE client[serving] = "waiting"
      <4>1. Answer(serving) \in Reply
        BY DEF Answer, Closed, Reply, TypeOK
      <4> QED  BY <1>3, <3>1, <4>1 DEF Handle, TypeOK
    <3>2. CASE client[serving] # "waiting"
      <4>1. CloseAll({serving})
        BY <1>3, <3>2 DEF Handle
      <4>2. reply'[serving] = Closed /\ ~Closed.ok
        BY <1>3, <2>1, <4>1 DEF CloseAll, Closed
      <4>3. /\ reply' \in [Client -> Reply \cup {None}]
            /\ \A c \in Client : c # serving => reply'[c] = reply[c]
        BY <4>1, CloseAllIs
      <4>4. Closed \in Reply
        BY DEF Closed, Reply
      <4> QED  BY <4>2, <4>3, <4>4
    <3> QED  BY <3>1, <3>2
  <2>3. stoppers' = IF EndsOver(serving) THEN stoppers \cup {serving} ELSE stoppers
    BY <1>3 DEF Handle
  <2>4. EndsOver(serving) => reply'[serving].ok
    BY <1>3 DEF Handle, EndsOver, Answer, TypeOK
  <2>5. TypeOK'
    BY <1>1, <1>3, <2>2, <2>3 DEF Handle, TypeOK, clientVars
  <2>6. OnePlace' /\ WakeLast'
    BY <1>1, <1>3, <2>2, ServedLeaves DEF Handle, clientVars
  <2>7. IdleIsClean' /\ TakesOwnRows'
    BY <2>1, <2>2 DEF Handle, clientVars, IdleIsClean, TakesOwnRows
  <2>8. Promises'
    <3>1. reply'[serving].ok => request[serving] = "shutdown" \/ reply'[serving].rows = startedWith
      BY <1>3, <2>2 DEF Answer, Closed, TypeOK, Request
    <3> QED  BY <2>2, <3>1 DEF Handle, clientVars, Promises
  <2>9. StoppersWait'
    <3>1. client' = client /\ request' = request
      BY DEF Handle, clientVars
    <3>2. \A c \in stoppers : c # serving /\ c \in Client
      BY <2>1 DEF StoppersWait, TypeOK
    <3> QED  BY <2>2, <2>3, <2>4, <3>1, <3>2 DEF StoppersWait, EndsOver
  <2> QED  BY <2>5, <2>6, <2>7, <2>8, <2>9
<1> QED  BY <1>1, <1>2, <1>3 DEF Conn

\* The rest of the main thread: what is left in the channel is closed with it, and the daemon's
\* own connection is made once.
LEMMA MainPreserves ==
    ASSUME Inv, Main \/ PollDue
    PROVE  Inv'
<1> USE DEF Inv
<1>1. CASE ((Recv \/ Drain) /\ ~Take) \/ Tick \/ Join \/ PollDue
  <2>1. /\ UNCHANGED <<startedWith, acceptor, listening, incoming, backlog, held, channel, serving,
                       shutdown, clientVars, reply, stoppers, faults>>
        /\ \/ main' = main
           \/ main' \in {"drop", "tick", "recv"} /\ main \in {"recv", "drain", "tick"}
           \/ main' = "ended" /\ main = "join"
        /\ due' \in BOOLEAN
    BY <1>1 DEF Recv, Drain, Tick, Join, PollDue, TypeOK, threadVars
  <2>2. TypeOK'
    BY <2>1 DEF TypeOK, clientVars
  <2>3. OnePlace' /\ WakeLast'
    BY <2>1 DEF clientVars, OnePlace, WakeLast, Queued
  <2>4. IdleIsClean' /\ Promises' /\ StoppersWait' /\ TakesOwnRows'
    BY <2>1 DEF clientVars, IdleIsClean, Promises, StoppersWait, TakesOwnRows
  <2> QED  BY <2>2, <2>3, <2>4
<1>2. CASE DropIncoming
  <2>1. CloseAll(ToSet(channel)) /\ channel' = <<>>
    BY <1>2 DEF DropIncoming
  <2>2. TypeOK'
    BY <1>2, <2>1, CloseAllIs, NoConns DEF DropIncoming, TypeOK, clientVars
  <2>3. OnePlace' /\ WakeLast'
    BY <1>2, <2>1, CloseAllIs, EmptyElements, EmptyInjective
       DEF DropIncoming, TypeOK, clientVars, OnePlace, WakeLast, Queued
  <2>4. IdleIsClean' /\ Promises' /\ StoppersWait' /\ TakesOwnRows'
    BY <1>2, <2>1, CloseAllIs
       DEF DropIncoming, TypeOK, OnePlace, Queued, clientVars, IdleIsClean, Promises, StoppersWait,
           TakesOwnRows
  <2> QED  BY <2>2, <2>3, <2>4
<1>3. CASE WakeAcceptor
  <2>1. Wake \notin Queued
    BY <1>3 DEF WakeAcceptor, WakeLast
  <2>2. /\ backlog' \in Seq(Conn) /\ ToSet(backlog') \subseteq ToSet(backlog) \cup {Wake}
        /\ IsInjective(backlog')
    BY <1>3, <2>1, Enqueued DEF WakeAcceptor, TypeOK, OnePlace, Queued, Conn
  <2>3. TypeOK'
    BY <1>3, <2>2 DEF WakeAcceptor, TypeOK, clientVars
  <2>4. OnePlace' /\ WakeLast'
    BY <1>3, <2>1, <2>2 DEF WakeAcceptor, TypeOK, clientVars, OnePlace, WakeLast, Queued
  <2>5. IdleIsClean' /\ Promises' /\ StoppersWait' /\ TakesOwnRows'
    BY <1>3 DEF WakeAcceptor, clientVars, IdleIsClean, Promises, StoppersWait, TakesOwnRows
  <2> QED  BY <2>3, <2>4, <2>5
<1> QED  BY <1>1, <1>2, <1>3, TakePreserves, HandlePreserves DEF Main

\* Steps of the clients and of the two threads, in any order, keep the invariant.
THEOREM Invariance == Spec => []Inv
<1>1. Inv /\ [Next]_serveVars => Inv'
  <2> SUFFICES ASSUME Inv, [Next]_serveVars PROVE Inv'
    OBVIOUS
  <2>1. CASE Next
    BY <2>1, ClientPreserves, AcceptorPreserves, MainPreserves DEF Next
  <2>2. CASE UNCHANGED serveVars
    BY <2>2 DEF serveVars, threadVars, clientVars, Inv, TypeOK, OnePlace, WakeLast, Queued,
                IdleIsClean, Promises, StoppersWait, TakesOwnRows
  <2> QED  BY <2>1, <2>2
<1> QED  BY <1>1, InitInv, PTL DEF Spec

\* The threads' steps, their queues and the clients' requests and replies keep their types.
THEOREM TypeCorrect == Spec => []TypeOK
  BY Invariance, PTL DEF Inv

\* A connection is in one queue or one thread, once, and not after it was answered.
THEOREM Places == Spec => []OnePlace
  BY Invariance, PTL DEF Inv

\* Rows are taken only by a client of the daemon's zone and options, a zone without a name never.
THEOREM OwnRows == Spec => []TakesOwnRows
  BY Invariance, PTL DEF Inv

\* A client that reports it could not stop the daemon has not stopped it.
THEOREM NothingStopped == Spec => []FailedStopsNothing
<1>1. Inv => FailedStopsNothing
  BY DEF Inv, StoppersWait, FailedStopsNothing
<1> QED  BY <1>1, Invariance, PTL

=============================================================================
