--------------------------- MODULE DaemonLifecycle ---------------------------
(***************************************************************************)
(* Daemon processes that start, serve, are stopped and crash               *)
(* (rust/crates/turbotokens/src/commands: daemon.rs, daemon_paths.rs,      *)
(* daemon_client.rs).  They meet in two files of a private directory: the  *)
(* PID file, whose lock makes its holder the owner, and the socket.  Each  *)
(* system call that reads or changes those files is a step of its own.     *)
(* Nothing but the daemons themselves touches the directory.               *)
(***************************************************************************)
EXTENDS Naturals, FiniteSets

CONSTANTS
    Proc,           \* process ids a daemon may run under, used again after it exits
    Client,         \* `turbotokens daemon stop` commands
    Ino,            \* inodes of the directory's file system
    None,           \* no process, no record, no file
    MaxCrashes      \* bound on the crashes

ASSUME LifecycleAssumption ==
    /\ None \notin Proc \cup Ino
    /\ None \notin [ino: Ino, record: Proc \cup {None}]
    /\ None \notin [ino: Ino, listener: Proc \cup {None}]
    /\ MaxCrashes \in Nat

VARIABLES
    pc,             \* per process: the next step of run_server
    pid_file,       \* the PID file at its path: its inode and its record
    socket,         \* the socket at its path: its inode and the process listening on it
    file,           \* per process: inode of the PID file it holds open
    lock,           \* per inode: the process holding its lock
    remove_on_drop, \* per process: PidFile::remove_on_drop
    bound,          \* per process: inode of the socket it saw or bound
    request,        \* per client: the step of its stop command, and the PID it read
    crashes         \* how many crashes there were

daemonVars == <<pc, pid_file, socket, file, lock, remove_on_drop, bound>>
vars == <<daemonVars, request, crashes>>

Steps == {"off", "probe", "create", "open", "check", "lock", "recheck",
          "inspect", "connect", "compare", "unlink", "listen", "truncate", "write",
          "serve", "wake", "match", "unbind", "validate", "remove", "close"}

Free(inodes) == Ino \ inodes

\* Inodes of PID files still at the path or open somewhere.
PidInodes == {file[p] : p \in Proc} \cup (IF pid_file = None THEN {} ELSE {pid_file.ino})

Goto(p, step) == pc' = [pc EXCEPT ![p] = step]

AtPath(p) == pid_file # None /\ pid_file.ino = file[p]

Init ==
    /\ pc = [p \in Proc |-> "off"]
    /\ pid_file = None
    /\ socket = None
    /\ file = [p \in Proc |-> None]
    /\ lock = [i \in Ino |-> None]
    /\ remove_on_drop = [p \in Proc |-> FALSE]
    /\ bound = [p \in Proc |-> None]
    /\ request = [c \in Client |-> [step |-> "read", pid |-> None]]
    /\ crashes = 0

----------------------------------------------------------------------------
(***************************************************************************)
(* run_server up to the lock.                                              *)
(***************************************************************************)
Start(p) ==
    /\ pc[p] = "off"
    /\ Goto(p, "probe")
    /\ UNCHANGED <<pid_file, socket, file, lock, remove_on_drop, bound, request, crashes>>

\* A process that answers pings is in its serve loop behind the socket at the path.
Answers(q) == socket # None /\ socket.listener = q /\ pc[q] = "serve"

\* A daemon answers the ping and this one gives up ...
FindRunning(p) ==
    /\ pc[p] = "probe"
    /\ \E q \in Proc : Answers(q)
    /\ Goto(p, "off")
    /\ UNCHANGED <<pid_file, socket, file, lock, remove_on_drop, bound, request, crashes>>

\* ... or none answers in time and this one reads the logs and goes on.
FindNone(p) ==
    /\ pc[p] = "probe"
    /\ Goto(p, "create")
    /\ UNCHANGED <<pid_file, socket, file, lock, remove_on_drop, bound, request, crashes>>

\* PidFile::acquire: create the file, unless there is one.
CreatePid(p) ==
    /\ pc[p] = "create"
    /\ pid_file = None
    /\ \E i \in Free(PidInodes) :
          /\ pid_file' = [ino |-> i, record |-> None]
          /\ file' = [file EXCEPT ![p] = i]
    /\ remove_on_drop' = [remove_on_drop EXCEPT ![p] = TRUE]
    /\ Goto(p, "check")
    /\ UNCHANGED <<socket, lock, bound, request, crashes>>

FindPid(p) ==
    /\ pc[p] = "create"
    /\ pid_file # None
    /\ remove_on_drop' = [remove_on_drop EXCEPT ![p] = FALSE]
    /\ Goto(p, "open")
    /\ UNCHANGED <<pid_file, socket, file, lock, bound, request, crashes>>

\* Open what is there; it may be gone by now, and the start fails.
OpenPid(p) ==
    /\ pc[p] = "open"
    /\ IF pid_file = None
       THEN Goto(p, "off") /\ UNCHANGED file
       ELSE Goto(p, "check") /\ file' = [file EXCEPT ![p] = pid_file.ino]
    /\ UNCHANGED <<pid_file, socket, lock, remove_on_drop, bound, request, crashes>>

\* What a process lets go of by closing the PID file.
Unlocked(p) == [i \in Ino |-> IF lock[i] = p THEN None ELSE lock[i]]

\* acquire returns an error: the file is closed, never removed.
GiveUp(p) ==
    /\ Goto(p, "off")
    /\ file' = [file EXCEPT ![p] = None]
    /\ lock' = Unlocked(p)

\* validate_pid_file before the lock ...
CheckPid(p) ==
    /\ pc[p] = "check"
    /\ IF AtPath(p) THEN Goto(p, "lock") /\ UNCHANGED <<file, lock>> ELSE GiveUp(p)
    /\ UNCHANGED <<pid_file, socket, remove_on_drop, bound, request, crashes>>

\* Mutant: a lock that is taken is waived.
LockAnyway(p) ==
    /\ pc[p] = "lock"
    /\ lock' = [lock EXCEPT ![file[p]] = p]
    /\ Goto(p, "recheck")
    /\ UNCHANGED <<pid_file, socket, file, remove_on_drop, bound, request, crashes>>

LockPid(p) ==
    /\ pc[p] = "lock"
    /\ IF lock[file[p]] = None
       THEN /\ lock' = [lock EXCEPT ![file[p]] = p]
            /\ Goto(p, "recheck")
            /\ UNCHANGED file
       ELSE GiveUp(p)
    /\ UNCHANGED <<pid_file, socket, remove_on_drop, bound, request, crashes>>

\* Mutant: what was valid before the lock is taken for valid after it.
TrustPid(p) ==
    /\ pc[p] = "recheck"
    /\ Goto(p, "inspect")
    /\ UNCHANGED <<pid_file, socket, file, lock, remove_on_drop, bound, request, crashes>>

\* ... and after it: the file may have been removed by the owner who held the lock.
RecheckPid(p) ==
    /\ pc[p] = "recheck"
    /\ IF AtPath(p) THEN Goto(p, "inspect") /\ UNCHANGED <<file, lock>> ELSE GiveUp(p)
    /\ UNCHANGED <<pid_file, socket, remove_on_drop, bound, request, crashes>>

----------------------------------------------------------------------------
(***************************************************************************)
(* bind_socket and PidFile::publish.  An error drops the PidFile.          *)
(***************************************************************************)
Alive(s) == s.listener # None

InspectSocket(p) ==
    /\ pc[p] = "inspect"
    /\ IF socket = None
       THEN Goto(p, "listen") /\ UNCHANGED bound
       ELSE Goto(p, "connect") /\ bound' = [bound EXCEPT ![p] = socket.ino]
    /\ UNCHANGED <<pid_file, socket, file, lock, remove_on_drop, request, crashes>>

\* Mutant: any socket at the path is taken for one in use.
RefuseSocket(p) ==
    /\ pc[p] = "connect"
    /\ Goto(p, "validate")
    /\ UNCHANGED <<pid_file, socket, file, lock, remove_on_drop, bound, request, crashes>>

\* Only a socket that refuses the connection is taken for stale.
ConnectSocket(p) ==
    /\ pc[p] = "connect"
    /\ Goto(p, IF socket = None \/ Alive(socket) THEN "validate" ELSE "compare")
    /\ UNCHANGED <<pid_file, socket, file, lock, remove_on_drop, bound, request, crashes>>

SocketIs(p) == socket # None /\ socket.ino = bound[p]

CompareSocket(p) ==
    /\ pc[p] = "compare"
    /\ Goto(p, IF SocketIs(p) THEN "unlink" ELSE "validate")
    /\ UNCHANGED <<pid_file, socket, file, lock, remove_on_drop, bound, request, crashes>>

UnlinkStale(p) ==
    /\ pc[p] = "unlink"
    /\ Goto(p, IF socket = None THEN "validate" ELSE "listen")
    /\ socket' = None
    /\ UNCHANGED <<pid_file, file, lock, remove_on_drop, bound, request, crashes>>

Listen(p) ==
    /\ pc[p] = "listen"
    /\ IF socket # None
       THEN Goto(p, "validate") /\ UNCHANGED <<socket, bound>>
       ELSE \E i \in Ino :
               /\ socket' = [ino |-> i, listener |-> p]
               /\ bound' = [bound EXCEPT ![p] = i]
               /\ Goto(p, "truncate")
    /\ UNCHANGED <<pid_file, file, lock, remove_on_drop, request, crashes>>

\* What the holder of a PID file writes reaches the path only if its file is still there.
Record(p, pid) == IF AtPath(p) THEN [pid_file EXCEPT !.record = pid] ELSE pid_file

Truncate(p) ==
    /\ pc[p] = "truncate"
    /\ pid_file' = Record(p, None)
    /\ Goto(p, "write")
    /\ UNCHANGED <<socket, file, lock, remove_on_drop, bound, request, crashes>>

\* Mutant: an inherited PID file is never removed.
PublishOnly(p) ==
    /\ pc[p] = "write"
    /\ pid_file' = Record(p, p)
    /\ Goto(p, "serve")
    /\ UNCHANGED <<socket, file, lock, remove_on_drop, bound, request, crashes>>

Publish(p) ==
    /\ pc[p] = "write"
    /\ pid_file' = Record(p, p)
    /\ remove_on_drop' = [remove_on_drop EXCEPT ![p] = TRUE]
    /\ Goto(p, "serve")
    /\ UNCHANGED <<socket, file, lock, bound, request, crashes>>

----------------------------------------------------------------------------
(***************************************************************************)
(* The end of serve.  The main thread connects to the path to wake the     *)
(* acceptor out of accept, joins it, and drops the socket and PID guards.  *)
(***************************************************************************)
\* Mutant: the connection comes while the channel is open, and the acceptor goes on accepting.
WakeEarly(p) ==
    /\ pc[p] = "wake"
    /\ socket # None /\ socket.listener = p
    /\ UNCHANGED vars

\* The connection, or a client's, reaches the acceptor, which finds the channel closed and
\* drops its listener.  If the path leads elsewhere, the join goes on waiting.
Wake(p) ==
    /\ pc[p] = "wake"
    /\ socket # None /\ socket.listener = p
    /\ socket' = [socket EXCEPT !.listener = None]
    /\ Goto(p, "match")
    /\ UNCHANGED <<pid_file, file, lock, remove_on_drop, bound, request, crashes>>

\* Accepting fails: the acceptor drops its listener, and the loop ends on the closed channel.
AcceptFails(p) ==
    /\ pc[p] = "serve"
    /\ socket # None /\ socket.listener = p
    /\ socket' = [socket EXCEPT !.listener = None]
    /\ Goto(p, "match")
    /\ UNCHANGED <<pid_file, file, lock, remove_on_drop, bound, request, crashes>>

\* SocketFile::drop: remove the socket at the path if it is this process's.
MatchSocket(p) ==
    /\ pc[p] = "match"
    /\ Goto(p, IF SocketIs(p) THEN "unbind" ELSE "validate")
    /\ UNCHANGED <<pid_file, socket, file, lock, remove_on_drop, bound, request, crashes>>

Unbind(p) ==
    /\ pc[p] = "unbind"
    /\ socket' = None
    /\ Goto(p, "validate")
    /\ UNCHANGED <<pid_file, file, lock, remove_on_drop, bound, request, crashes>>

\* PidFile::drop: remove the file while the lock is held, then close it.
ValidatePid(p) ==
    /\ pc[p] = "validate"
    /\ Goto(p, IF remove_on_drop[p] /\ AtPath(p) THEN "remove" ELSE "close")
    /\ UNCHANGED <<pid_file, socket, file, lock, remove_on_drop, bound, request, crashes>>

RemovePid(p) ==
    /\ pc[p] = "remove"
    /\ pid_file' = None
    /\ Goto(p, "close")
    /\ UNCHANGED <<socket, file, lock, remove_on_drop, bound, request, crashes>>

ClosePid(p) ==
    /\ pc[p] = "close"
    /\ GiveUp(p)
    /\ bound' = [bound EXCEPT ![p] = None]
    /\ UNCHANGED <<pid_file, socket, remove_on_drop, request, crashes>>

----------------------------------------------------------------------------
(***************************************************************************)
(* A crash closes what the process holds and leaves its files behind.      *)
(***************************************************************************)
Crash(p) ==
    /\ pc[p] # "off"
    /\ crashes < MaxCrashes
    /\ crashes' = crashes + 1
    /\ GiveUp(p)
    /\ socket' = IF socket # None /\ socket.listener = p
                 THEN [socket EXCEPT !.listener = None] ELSE socket
    /\ bound' = [bound EXCEPT ![p] = None]
    /\ UNCHANGED <<pid_file, remove_on_drop, request>>

----------------------------------------------------------------------------
(***************************************************************************)
(* stop_matching_server: read the PID, check it against a ping, ask that   *)
(* process to shut down.  Any step may fail and ends the command.          *)
(***************************************************************************)
Ask(c, step, pid) == request' = [request EXCEPT ![c] = [step |-> step, pid |-> pid]]

ReadPid(c) ==
    /\ request[c].step = "read"
    /\ pid_file # None /\ pid_file.record # None
    /\ Ask(c, "ping", pid_file.record)
    /\ UNCHANGED <<daemonVars, crashes>>

Ping(c) ==
    /\ request[c].step = "ping"
    /\ Answers(request[c].pid)
    /\ Ask(c, "shutdown", request[c].pid)
    /\ UNCHANGED <<daemonVars, crashes>>

\* handle_connection: the daemon reached now shuts down if it is the one expected.
Shutdown(c) ==
    /\ request[c].step = "shutdown"
    /\ \E q \in Proc :
          /\ Answers(q)
          /\ IF q = request[c].pid THEN Goto(q, "wake") ELSE UNCHANGED pc
    /\ Ask(c, "read", None)
    /\ UNCHANGED <<pid_file, socket, file, lock, remove_on_drop, bound, crashes>>

\* No record, no answer in time, an answer of another daemon, or an answer that is lost.
StopFails(c) ==
    /\ request[c].step # "read"
    /\ Ask(c, "read", None)
    /\ UNCHANGED <<daemonVars, crashes>>

----------------------------------------------------------------------------
\* The steps a running daemon process takes by itself.
Run(p) ==
    \/ FindRunning(p) \/ FindNone(p) \/ CreatePid(p) \/ FindPid(p) \/ OpenPid(p)
    \/ CheckPid(p) \/ LockPid(p) \/ RecheckPid(p)
    \/ InspectSocket(p) \/ ConnectSocket(p) \/ CompareSocket(p) \/ UnlinkStale(p)
    \/ Listen(p) \/ Truncate(p) \/ Publish(p)
    \/ Wake(p) \/ MatchSocket(p) \/ Unbind(p)
    \/ ValidatePid(p) \/ RemovePid(p) \/ ClosePid(p)

Stop(c) == ReadPid(c) \/ Ping(c) \/ Shutdown(c) \/ StopFails(c)

Next ==
    \/ \E p \in Proc : Start(p) \/ Run(p) \/ AcceptFails(p) \/ Crash(p)
    \/ \E c \in Client : Stop(c)

\* A started process runs until it serves, and once told to shut down until it ends.
Spec == Init /\ [][Next]_vars /\ \A p \in Proc : WF_vars(Run(p))
----------------------------------------------------------------------------
(***************************************************************************)
(* Properties.                                                             *)
(***************************************************************************)
\* The state has the shape the code's types give it; who holds a lock holds its file open.
TypeOK ==
    /\ pc \in [Proc -> Steps]
    /\ pid_file \in [ino: Ino, record: Proc \cup {None}] \cup {None}
    /\ socket \in [ino: Ino, listener: Proc \cup {None}] \cup {None}
    /\ file \in [Proc -> Ino \cup {None}]
    /\ lock \in [Ino -> Proc \cup {None}]
    /\ \A i \in Ino : lock[i] # None => file[lock[i]] = i
    /\ remove_on_drop \in [Proc -> BOOLEAN]
    /\ bound \in [Proc -> Ino \cup {None}]
    /\ request \in [Client -> [step: {"read", "ping", "shutdown"}, pid: Proc \cup {None}]]
    /\ crashes \in 0 .. MaxCrashes

\* The steps between a successful acquire and the removal of the PID file.
Owns(p) ==
    /\ pc[p] \in {"inspect", "connect", "compare", "unlink", "listen", "truncate", "write",
                  "serve", "wake", "match", "unbind", "validate", "remove"}

OwnerNow == IF \E p \in Proc : Owns(p) THEN CHOOSE p \in Proc : Owns(p) ELSE None

Owner == INSTANCE DaemonOwner WITH owner <- OwnerNow

\* However starts, stops and crashes interleave, a process becomes the owner only while there
\* is none: a lock on a file that its last owner has removed makes nobody an owner.
OwnerSpec == Owner!Spec

\* At most one process is past its acquire, so it alone touches the socket and the record.
OneOwner == \A p, q \in Proc : Owns(p) /\ Owns(q) => p = q

\* While a daemon serves, the path's record names it, the path's socket leads to it, and the
\* lock is its: what `stop` compares is about one and the same process.
ServingIsPublished ==
    \A p \in Proc : pc[p] = "serve" =>
        /\ AtPath(p) /\ pid_file.record = p /\ lock[file[p]] = p
        /\ SocketIs(p) /\ socket.listener = p

\* Without crashes nothing is left behind, although starts race for a file another created.
NoLeftovers ==
    crashes = 0 /\ (\A p \in Proc : pc[p] = "off") => pid_file = None /\ socket = None

Alone(p) == \A q \in Proc \ {p} : pc[q] = "off"

\* What crashes left behind never keeps a lone start from serving.
StartSucceeds ==
    \A p \in Proc :
        pc[p] = "create" /\ Alone(p) /\ crashes = MaxCrashes ~> pc[p] = "serve" \/ ~Alone(p)

\* A daemon told to shut down ends: its acceptor is always woken.
ShutdownEnds == \A p \in Proc : pc[p] = "wake" ~> pc[p] = "off"
=============================================================================
