----------------------------- MODULE DaemonServe -----------------------------
(***************************************************************************)
(* The query loop of the daemon (serve and handle_connection in            *)
(* rust/crates/turbotokens/src/commands/daemon.rs) and its clients         *)
(* (daemon_client.rs): an acceptor thread hands connections over a channel *)
(* to the main thread, which answers them one by one and polls the index   *)
(* in between.                                                             *)
(*                                                                         *)
(* A client is a process with one request; its place is taken by another   *)
(* once both ends of its connection are closed.  The PID file, the socket  *)
(* at its path and the first ping of a stop are in DaemonLifecycle.        *)
(***************************************************************************)
EXTENDS Naturals, SequencesExt

CONSTANTS
    Client,
    Wake,           \* the connection the daemon makes to itself
    None,
    Zone,           \* time zones
    Opaque,         \* zones whose rules have no name to compare
    Options,        \* the other options a load depends on, and its directories
    MaxFaults       \* bound: failures of accept

Conn == Client \cup {Wake}
Args == [zone: Zone, options: Options]
Reply == [ok: BOOLEAN, rows: Args \cup {None}]

ASSUME ServeAssumption ==
    /\ Opaque \subseteq Zone
    /\ Wake \notin Client
    /\ None \notin Conn /\ None \notin Zone /\ None \notin Args /\ None \notin Reply

Request == {"daily", "shutdown", "unknown"}

VARIABLES
    startedWith,    \* the daemon's zone and options
    main, acceptor, \* where the two threads are
    listening,      \* the listener is open
    incoming,       \* the receiving end of the channel is open
    backlog,        \* connections not accepted yet
    held,           \* the accepted connection about to be sent, or None
    channel,        \* connections handed over
    serving,        \* the connection being answered, or None
    shutdown, due,  \* the loop's flag; next_poll has passed
    client,         \* per client: where it is
    request,        \* per client: its command
    args,           \* per client: its zone and options
    reply,          \* per client: what the daemon left in its connection
    stoppers,       \* the clients whose shutdown the daemon has accepted
    faults

threadVars == <<main, acceptor, listening, incoming, backlog, held, channel, serving>>
clientVars == <<client, request, args>>
serveVars == <<startedWith, threadVars, shutdown, due, clientVars, reply, stoppers, faults>>

Closed == [ok |-> FALSE, rows |-> None]     \* the end of the stream, without a reply

Queued == ToSet(backlog) \cup ToSet(channel) \cup {held, serving}

\* The daemon's ends of these connections are closed.
CloseAll(conns) ==
    reply' = [c \in Client |-> IF c \in conns /\ reply[c] = None THEN Closed ELSE reply[c]]

----------------------------------------------------------------------------
(***************************************************************************)
(* Clients: request_response, and what they make of the reply.             *)
(***************************************************************************)
Connect(c) ==
    /\ client[c] = "idle"
    /\ listening
    /\ backlog' = Append(backlog, c)
    /\ client' = [client EXCEPT ![c] = "connected"]
    /\ \E r \in Request : \E a \in IF r = "daily" THEN Args ELSE {startedWith} :
        request' = [request EXCEPT ![c] = r] /\ args' = [args EXCEPT ![c] = a]
    /\ UNCHANGED <<startedWith, main, acceptor, listening, incoming, held, channel, serving,
                   shutdown, due, reply, stoppers, faults>>

Send(c) ==
    /\ client[c] = "connected"
    /\ client' = [client EXCEPT ![c] = IF reply[c] = None THEN "waiting" ELSE "failed"]
    /\ UNCHANGED <<startedWith, threadVars, shutdown, due, request, args, reply, stoppers, faults>>

\* The read times out: the client falls back, or reports that it could not stop the daemon.
GiveUp(c) ==
    /\ client[c] \in {"connected", "waiting"}
    /\ reply[c] = None
    /\ client' = [client EXCEPT ![c] = "failed"]
    /\ UNCHANGED <<startedWith, threadVars, shutdown, due, request, args, reply, stoppers, faults>>

Identity(zone) == IF zone \in Opaque THEN None ELSE zone

\* Mutant: two zones without an identity pass for the same.
SameIdentity(a, with) ==
    /\ Identity(with.zone) = Identity(a.zone)
    /\ with.options = a.options

\* compatible_with: the zones have one identity.
Compatible(a, with) ==
    /\ Identity(with.zone) # None
    /\ Identity(with.zone) = Identity(a.zone)
    /\ with.options = a.options

Receive(c) ==
    /\ client[c] = "waiting"
    /\ reply[c] # None
    /\ client' = [client EXCEPT ![c] =
            IF ~reply[c].ok THEN "failed"
            ELSE IF request[c] = "shutdown" THEN "stopped"
            ELSE IF Compatible(args[c], reply[c].rows) THEN "served" ELSE "failed"]
    /\ UNCHANGED <<startedWith, threadVars, shutdown, due, request, args, reply, stoppers, faults>>

\* Another client comes in its place.
Leave(c) ==
    /\ client[c] \in {"failed", "stopped", "served"}
    /\ c \notin Queued
    /\ client' = [client EXCEPT ![c] = "idle"]
    /\ request' = [request EXCEPT ![c] = "unknown"]
    /\ args' = [args EXCEPT ![c] = startedWith]
    /\ reply' = [reply EXCEPT ![c] = None]
    /\ stoppers' = stoppers \ {c}
    /\ UNCHANGED <<startedWith, threadVars, shutdown, due, faults>>

----------------------------------------------------------------------------
(***************************************************************************)
(* The acceptor thread.                                                    *)
(***************************************************************************)
Accept ==
    /\ acceptor = "accept"
    /\ backlog # <<>>
    /\ held' = Head(backlog)
    /\ backlog' = Tail(backlog)
    /\ acceptor' = "send"
    /\ UNCHANGED <<startedWith, main, listening, incoming, channel, serving, shutdown, due,
                   clientVars, reply, stoppers, faults>>

\* The thread ends: the listener and its end of the channel are closed.
AcceptorEnds(conns) ==
    /\ acceptor' = "done"
    /\ listening' = FALSE
    /\ backlog' = <<>>
    /\ CloseAll(ToSet(backlog) \cup conns)

AcceptFails ==
    /\ acceptor = "accept"
    /\ faults < MaxFaults
    /\ faults' = faults + 1
    /\ AcceptorEnds({})
    /\ UNCHANGED <<startedWith, main, incoming, held, channel, serving, shutdown, due, clientVars,
                   stoppers>>

HandOver ==
    /\ acceptor = "send"
    /\ held' = None
    /\ IF incoming
       THEN /\ channel' = Append(channel, held)
            /\ acceptor' = "accept"
            /\ UNCHANGED <<listening, backlog, reply>>
       ELSE AcceptorEnds({held}) /\ UNCHANGED channel
    /\ UNCHANGED <<startedWith, main, incoming, serving, shutdown, due, clientVars, stoppers,
                   faults>>

----------------------------------------------------------------------------
(***************************************************************************)
(* The main thread.                                                        *)
(***************************************************************************)
PollDue ==
    /\ ~due
    /\ main # "ended"
    /\ due' = TRUE
    /\ UNCHANGED <<startedWith, threadVars, shutdown, clientVars, reply, stoppers, faults>>

Take ==
    /\ channel # <<>>
    /\ serving' = Head(channel)
    /\ channel' = Tail(channel)
    /\ main' = "handle"

\* Mutant: the loop waits for a connection without looking at the time.
RecvForever ==
    /\ main = "recv"
    /\ \/ Take
       \/ /\ channel = <<>>
          /\ acceptor = "done"
          /\ main' = "drop"
          /\ UNCHANGED <<serving, channel>>
    /\ UNCHANGED <<startedWith, acceptor, listening, incoming, backlog, held, shutdown, due,
                   clientVars, reply, stoppers, faults>>

\* recv_timeout.
Recv ==
    /\ main = "recv"
    /\ \/ Take
       \/ /\ channel = <<>>
          /\ main' = IF acceptor = "done" THEN "drop" ELSE "tick"
          /\ acceptor = "done" \/ due
          /\ UNCHANGED <<serving, channel>>
    /\ UNCHANGED <<startedWith, acceptor, listening, incoming, backlog, held, shutdown, due,
                   clientVars, reply, stoppers, faults>>

\* The answer to a request that was read, of which the loop learns whether to end.
Answer(c) ==
    IF request[c] = "unknown" THEN Closed
    ELSE [ok |-> TRUE, rows |-> IF request[c] = "daily" THEN startedWith ELSE None]

\* Mutant: a reply that cannot be written counts as written.
WrittenAnyway(c) == request[c] = "shutdown"

\* The daemon may end over this connection: it is asked to, and the client takes the reply.
EndsOver(c) == request[c] = "shutdown" /\ client[c] = "waiting"

\* Mutant: the flag is what the last connection asked for.
LastAsked(ends) == ends

Raised(ends) == shutdown \/ ends

\* handle_connection.  A client that has sent nothing yet is waited for, until a timeout; to one
\* that has closed its end the reply cannot be written.
Handle ==
    /\ main = "handle"
    /\ IF serving \in Client
       THEN /\ IF client[serving] = "waiting"
               THEN reply' = [reply EXCEPT ![serving] = Answer(serving)]
               ELSE CloseAll({serving})
            /\ shutdown' = Raised(EndsOver(serving))
            /\ stoppers' = IF EndsOver(serving) THEN stoppers \cup {serving} ELSE stoppers
       ELSE UNCHANGED <<reply, shutdown, stoppers>>
    /\ serving' = None
    /\ main' = "drain"
    /\ UNCHANGED <<startedWith, acceptor, listening, incoming, backlog, held, channel, due,
                   clientVars, faults>>

\* try_recv until the channel is empty.
Drain ==
    /\ main = "drain"
    /\ \/ Take
       \/ /\ channel = <<>>
          /\ main' = IF shutdown THEN "drop" ELSE "tick"
          /\ UNCHANGED <<serving, channel>>
    /\ UNCHANGED <<startedWith, acceptor, listening, incoming, backlog, held, shutdown, due,
                   clientVars, reply, stoppers, faults>>

\* The index is polled if it is time.
Tick ==
    /\ main = "tick"
    /\ due' = FALSE
    /\ main' = "recv"
    /\ UNCHANGED <<startedWith, acceptor, listening, incoming, backlog, held, channel, serving,
                   shutdown, clientVars, reply, stoppers, faults>>

\* Mutant: the channel is kept while the acceptor is joined.
KeepIncoming ==
    /\ main = "drop"
    /\ main' = "wake"
    /\ UNCHANGED <<startedWith, acceptor, listening, incoming, backlog, held, channel, serving,
                   shutdown, due, clientVars, reply, stoppers, faults>>

\* The connections left in the channel are closed with it.
DropIncoming ==
    /\ main = "drop"
    /\ incoming' = FALSE
    /\ channel' = <<>>
    /\ CloseAll(ToSet(channel))
    /\ main' = "wake"
    /\ UNCHANGED <<startedWith, acceptor, listening, backlog, held, serving, shutdown, due,
                   clientVars, stoppers, faults>>

WakeAcceptor ==
    /\ main = "wake"
    /\ main' = "join"
    /\ backlog' = IF listening THEN Append(backlog, Wake) ELSE backlog
    /\ UNCHANGED <<startedWith, acceptor, listening, incoming, held, channel, serving, shutdown,
                   due, clientVars, reply, stoppers, faults>>

Join ==
    /\ main = "join"
    /\ acceptor = "done"
    /\ main' = "ended"
    /\ UNCHANGED <<startedWith, acceptor, listening, incoming, backlog, held, channel, serving,
                   shutdown, due, clientVars, reply, stoppers, faults>>

----------------------------------------------------------------------------
Init ==
    /\ startedWith \in Args
    /\ main = "recv"
    /\ acceptor = "accept"
    /\ listening = TRUE
    /\ incoming = TRUE
    /\ backlog = <<>>
    /\ held = None
    /\ channel = <<>>
    /\ serving = None
    /\ shutdown = FALSE
    /\ due = FALSE
    /\ client = [c \in Client |-> "idle"]
    /\ request = [c \in Client |-> "unknown"]
    /\ args = [c \in Client |-> startedWith]
    /\ reply = [c \in Client |-> None]
    /\ stoppers = {}
    /\ faults = 0

ClientStep(c) == Connect(c) \/ Send(c) \/ GiveUp(c) \/ Receive(c) \/ Leave(c)

Acceptor == Accept \/ HandOver

Main == Recv \/ Handle \/ Drain \/ Tick \/ DropIncoming \/ WakeAcceptor \/ Join

Next == (\E c \in Client : ClientStep(c)) \/ Acceptor \/ AcceptFails \/ Main \/ PollDue

\* The threads run and time passes.  A client's process runs too; whether it gives up is its own.
Spec ==
    /\ Init /\ [][Next]_serveVars
    /\ WF_serveVars(Acceptor) /\ WF_serveVars(Main) /\ WF_serveVars(PollDue)
    /\ \A c \in Client : WF_serveVars(Send(c)) /\ WF_serveVars(Receive(c))
----------------------------------------------------------------------------
\* Threads, queues and clients keep their types; a thread holds a connection just while it works
\* on it.
TypeOK ==
    /\ startedWith \in Args
    /\ main \in {"recv", "handle", "drain", "tick", "drop", "wake", "join", "ended"}
    /\ acceptor \in {"accept", "send", "done"}
    /\ listening \in BOOLEAN /\ incoming \in BOOLEAN /\ shutdown \in BOOLEAN /\ due \in BOOLEAN
    /\ backlog \in Seq(Conn) /\ channel \in Seq(Conn)
    /\ held \in Conn \cup {None} /\ (acceptor = "send" <=> held # None)
    /\ serving \in Conn \cup {None} /\ (main = "handle" <=> serving # None)
    /\ client \in [Client -> {"idle", "connected", "waiting", "failed", "stopped", "served"}]
    /\ request \in [Client -> Request]
    /\ args \in [Client -> Args]
    /\ reply \in [Client -> Reply \cup {None}]
    /\ stoppers \subseteq Client
    /\ faults \in Nat

\* A connection is in one place, once: nobody is answered twice, or another's answer.
OnePlace ==
    /\ IsInjective(backlog) /\ IsInjective(channel)
    /\ ToSet(backlog) \cap ToSet(channel) = {}
    /\ {held, serving} \cap (ToSet(backlog) \cup ToSet(channel)) = {}
    /\ held # None => held # serving
    /\ \A c \in Client : client[c] = "idle" \/ reply[c] # None => c \notin Queued

\* Rows are taken from the daemon only by a client whose own load would have used the very zone,
\* options and directories.
TakesOwnRows == \A c \in Client : client[c] = "served" => args[c] = startedWith

\* A stop that reports a failure has stopped nothing.
FailedStopsNothing == \A c \in Client : client[c] = "failed" => c \notin stoppers

ClientsKeepComing == []<>(\E c \in Client : client[c] = "connected")

\* A daemon that said it stops does end once clients stop coming, whatever was asked meanwhile.
StopIsKept == \A c \in Client : ClientsKeepComing \/ (client[c] = "stopped" ~> main = "ended")

\* Everybody who connects is answered or sees the end of the stream, also when the daemon ends.
NobodyHangs ==
    \A c \in Client : client[c] \in {"connected", "waiting"} ~>
                            client[c] \notin {"connected", "waiting"}

\* The index is polled again and again, once clients stop coming.
PollsWhenQuiet == ClientsKeepComing \/ (due ~> (~due \/ main = "ended"))
=============================================================================
