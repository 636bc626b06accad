----------------------- MODULE DaemonLifecycle_proofs -----------------------
(***************************************************************************)
(* For every number of processes, clients, inodes and crashes: at most one *)
(* daemon owns the directory, a serving daemon is the one the PID file and *)
(* the socket name, the whole implements DaemonOwner, and once all of them *)
(* ended, with none crashed, neither file nor socket is left.              *)
(*                                                                         *)
(* The inductive invariant says what a process holds at each of its steps: *)
(* an owner's file is the one at the path and its lock is the owner's, so  *)
(* two owners would hold one lock.                                         *)
(***************************************************************************)
EXTENDS DaemonLifecycle, TLAPS

\* The steps at which a process may hold a lock.
LockSteps == {"recheck", "inspect", "connect", "compare", "unlink", "listen", "truncate",
              "write", "serve", "wake", "match", "unbind", "validate", "remove", "close"}

OwnSteps == LockSteps \ {"recheck", "close"}

\* The steps at which a process listens on the socket at the path.
BoundSteps == {"truncate", "write", "serve", "wake"}

LocksHeld == \A i \in Ino : lock[i] # None => pc[lock[i]] \in LockSteps

Opened == \A p \in Proc : pc[p] \in LockSteps \cup {"lock"} => file[p] \in Ino

Locked == \A p \in Proc : pc[p] \in OwnSteps \cup {"recheck"} => lock[file[p]] = p

Placed == \A p \in Proc : pc[p] \in OwnSteps => AtPath(p)

Bound == \A p \in Proc : pc[p] \in BoundSteps => SocketIs(p) /\ socket.listener = p

Named == \A p \in Proc : pc[p] = "serve" => pid_file.record = p

Inv == TypeOK /\ LocksHeld /\ Opened /\ Locked /\ Placed /\ Bound /\ Named

USE LifecycleAssumption

\* Two owners would hold the lock of the one file at the path.
LEMMA OwnersAgree ==
    ASSUME Inv, NEW p \in Proc, NEW q \in Proc, pc[p] \in OwnSteps, pc[q] \in OwnSteps
    PROVE  p = q
  BY DEF Inv, Locked, Placed, AtPath

\* Owning is being at one of the steps between acquire and the removal.
LEMMA OwnsIsStep == \A p \in Proc : Owns(p) <=> pc[p] \in OwnSteps
  BY DEF Owns, OwnSteps, LockSteps

\* The invariant holds when no daemon runs.
LEMMA InitInv == Init => Inv
  BY DEF Init, Inv, TypeOK, LocksHeld, Opened, Locked, Placed, Bound, Named, Steps, LockSteps,
         OwnSteps, BoundSteps

\* A stop command reads the files and moves at most its daemon to the end of its loop.
LEMMA StopPreserves ==
    ASSUME Inv, NEW c \in Client, Stop(c)
    PROVE  Inv'
<1>1. CASE Shutdown(c)
  BY <1>1 DEF Shutdown, Inv, TypeOK, LocksHeld, Opened, Locked, Placed, Bound, Named, Steps,
              LockSteps, OwnSteps, BoundSteps, Ask, Goto, Answers, AtPath, SocketIs
<1>2. CASE ReadPid(c) \/ Ping(c) \/ StopFails(c)
  BY <1>2 DEF ReadPid, Ping, StopFails, daemonVars, Inv, TypeOK, LocksHeld, Opened, Locked,
              Placed, Bound, Named, Steps, LockSteps, OwnSteps, BoundSteps, Ask, AtPath, SocketIs
<1> QED  BY <1>1, <1>2 DEF Stop

\* Every step of a running daemon keeps the invariant.
LEMMA RunPreserves ==
    ASSUME Inv, NEW p \in Proc, Run(p)
    PROVE  Inv'
<1> USE OwnersAgree DEF Inv, TypeOK, LocksHeld, Opened, Locked, Placed, Bound, Named, Steps,
                            LockSteps, OwnSteps, BoundSteps, Goto, AtPath, SocketIs
<1>1. CASE FindRunning(p)
  BY <1>1 DEF FindRunning, Answers
<1>2. CASE FindNone(p)
  BY <1>2 DEF FindNone
<1>3. CASE CreatePid(p)
  BY <1>3 DEF CreatePid, Free, PidInodes
<1>4. CASE FindPid(p)
  BY <1>4 DEF FindPid
<1>5. CASE OpenPid(p)
  BY <1>5 DEF OpenPid
<1>6. CASE CheckPid(p)
  BY <1>6 DEF CheckPid, GiveUp, Unlocked
<1>7. CASE LockPid(p)
  <2>1. CASE lock[file[p]] # None
    BY <1>7, <2>1 DEF LockPid, GiveUp, Unlocked
  <2>2. CASE lock[file[p]] = None
    <3>1. /\ file[p] \in Ino
          /\ lock' = [lock EXCEPT ![file[p]] = p]
          /\ pc' = [pc EXCEPT ![p] = "recheck"]
          /\ UNCHANGED <<pid_file, socket, file, remove_on_drop, bound, request, crashes>>
      BY <1>7, <2>2 DEF LockPid
    <3>2. \A q \in Proc \ {p} : pc[q] \in OwnSteps \cup {"recheck"} => file[q] # file[p]
      BY <2>2
    <3>3. TypeOK'
      BY <3>1
    <3>4. LocksHeld' /\ Opened'
      BY <3>1
    <3>5. Locked'
      BY <3>1, <3>2
    <3>6. Placed' /\ Bound' /\ Named'
      BY <3>1
    <3> QED  BY <3>3, <3>4, <3>5, <3>6
  <2> QED  BY <2>1, <2>2
<1>8. CASE RecheckPid(p)
  BY <1>8 DEF RecheckPid, GiveUp, Unlocked
<1>9. CASE InspectSocket(p)
  BY <1>9 DEF InspectSocket
<1>10. CASE ConnectSocket(p)
  BY <1>10 DEF ConnectSocket, Alive
<1>11. CASE CompareSocket(p)
  BY <1>11 DEF CompareSocket
<1>12. CASE UnlinkStale(p)
  <2>1. \A q \in Proc \ {p} : pc[q] \notin OwnSteps
    BY <1>12, OwnersAgree DEF UnlinkStale
  <2>2. TypeOK'
    BY <1>12, <2>1 DEF UnlinkStale
  <2>3. LocksHeld'
    BY <1>12, <2>1 DEF UnlinkStale
  <2>4. Opened'
    BY <1>12, <2>1 DEF UnlinkStale
  <2>5. Locked'
    BY <1>12, <2>1 DEF UnlinkStale
  <2>6. Placed'
    BY <1>12, <2>1 DEF UnlinkStale
  <2>7. Bound'
    BY <1>12, <2>1 DEF UnlinkStale
  <2>8. Named'
    BY <1>12, <2>1 DEF UnlinkStale
  <2> QED  BY <2>2, <2>3, <2>4, <2>5, <2>6, <2>7, <2>8
<1>13. CASE Listen(p)
  <2>1. \A q \in Proc \ {p} : pc[q] \notin OwnSteps
    BY <1>13, OwnersAgree DEF Listen
  <2>2. TypeOK'
    BY <1>13, <2>1 DEF Listen
  <2>3. LocksHeld'
    BY <1>13, <2>1 DEF Listen
  <2>4. Opened'
    BY <1>13, <2>1 DEF Listen
  <2>5. Locked'
    BY <1>13, <2>1 DEF Listen
  <2>6. Placed'
    BY <1>13, <2>1 DEF Listen
  <2>7. Bound'
    BY <1>13, <2>1 DEF Listen
  <2>8. Named'
    BY <1>13, <2>1 DEF Listen
  <2> QED  BY <2>2, <2>3, <2>4, <2>5, <2>6, <2>7, <2>8
<1>14. CASE Truncate(p)
  <2>1. \A q \in Proc \ {p} : pc[q] \notin OwnSteps
    BY <1>14, OwnersAgree DEF Truncate
  <2>0. pid_file' # None /\ pid_file'.ino = pid_file.ino
    BY <1>14 DEF Truncate, Record
  <2>2. TypeOK'
    BY <1>14, <2>1 DEF Truncate, Record
  <2>3. LocksHeld'
    BY <1>14, <2>1 DEF Truncate, Record
  <2>4. Opened'
    BY <1>14, <2>1 DEF Truncate, Record
  <2>5. Locked'
    BY <1>14, <2>1 DEF Truncate, Record
  <2>6. Placed'
    BY <1>14, <2>0, <2>1 DEF Truncate, Record
  <2>7. Bound'
    BY <1>14, <2>1 DEF Truncate, Record
  <2>8. Named'
    BY <1>14, <2>1 DEF Truncate, Record
  <2> QED  BY <2>2, <2>3, <2>4, <2>5, <2>6, <2>7, <2>8
<1>15. CASE Publish(p)
  <2>0. pid_file' # None /\ pid_file'.ino = pid_file.ino /\ pid_file'.record = p
    BY <1>15 DEF Publish, Record
  <2>1. \A q \in Proc \ {p} : pc[q] \notin OwnSteps
    BY <1>15, OwnersAgree DEF Publish
  <2>2. TypeOK'
    BY <1>15 DEF Publish, Record
  <2>3. LocksHeld' /\ Opened' /\ Locked' /\ Bound'
    BY <1>15, <2>1 DEF Publish
  <2>4. Placed' /\ Named'
    BY <1>15, <2>0, <2>1 DEF Publish
  <2> QED  BY <2>2, <2>3, <2>4
<1>16. CASE Wake(p)
  BY <1>16 DEF Wake
<1>17. CASE MatchSocket(p)
  BY <1>17 DEF MatchSocket
<1>18. CASE Unbind(p)
  BY <1>18 DEF Unbind
<1>19. CASE ValidatePid(p)
  BY <1>19 DEF ValidatePid
<1>20. CASE RemovePid(p)
  BY <1>20 DEF RemovePid
<1>21. CASE ClosePid(p)
  BY <1>21 DEF ClosePid, GiveUp, Unlocked
<1> QED  BY <1>1, <1>2, <1>3, <1>4, <1>5, <1>6, <1>7, <1>8, <1>9, <1>10, <1>11, <1>12, <1>13, <1>14, <1>15, <1>16, <1>17, <1>18, <1>19, <1>20, <1>21 DEF Run

\* So do a start, the end of accepting and a crash.
LEMMA StartPreserves ==
    ASSUME Inv, NEW p \in Proc, Start(p) \/ AcceptFails(p) \/ Crash(p)
    PROVE  Inv'
<1> USE OwnersAgree DEF Inv, TypeOK, LocksHeld, Opened, Locked, Placed, Bound, Named, Steps,
                            LockSteps, OwnSteps, BoundSteps, Goto, AtPath, SocketIs
<1>1. CASE Start(p)
  BY <1>1 DEF Start
<1>2. CASE Crash(p)
  BY <1>2 DEF Crash, GiveUp, Unlocked
<1>3. CASE AcceptFails(p)
  BY <1>3 DEF AcceptFails
<1> QED  BY <1>1, <1>2, <1>3

\* Hence so does every step.
LEMMA StepPreserves == Inv /\ [Next]_vars => Inv'
<1> SUFFICES ASSUME Inv, [Next]_vars PROVE Inv'
  OBVIOUS
<1>1. CASE UNCHANGED vars
  BY <1>1 DEF vars, daemonVars, Inv, TypeOK, LocksHeld, Opened, Locked, Placed, Bound, Named,
              AtPath, SocketIs
<1>2. ASSUME NEW p \in Proc, Start(p) \/ AcceptFails(p) \/ Crash(p) PROVE Inv'
  BY <1>2, StartPreserves
<1>3. ASSUME NEW p \in Proc, Run(p) PROVE Inv'
  BY <1>3, RunPreserves
<1>4. ASSUME NEW c \in Client, Stop(c) PROVE Inv'
  BY <1>4, StopPreserves
<1> QED  BY <1>1, <1>2, <1>3, <1>4 DEF Next

\* What a process holds at each of its steps, in every reachable state.
THEOREM Invariance == Spec => []Inv
  BY InitInv, StepPreserves, PTL DEF Spec

\* The variables keep their types, and the holder of a lock holds the file it locked open:
\* closing or crashing drops the flock (PidFile in daemon_paths.rs).
THEOREM TypeCorrect == Spec => []TypeOK
<1>1. Inv => TypeOK
  BY DEF Inv
<1> QED  BY Invariance, <1>1, PTL

\* At most one process at a time is past PidFile::acquire and not yet through its drop.
THEOREM Exclusion == Spec => []OneOwner
<1>1. Inv => OneOwner
  BY OwnersAgree, OwnsIsStep DEF OneOwner
<1> QED  BY Invariance, <1>1, PTL

\* While a daemon serves, the record, the lock and the socket are all its own, so what
\* `daemon stop` compares (read_pid against a ping) is about one process.
THEOREM Published == Spec => []ServingIsPublished
<1>1. Inv => ServingIsPublished
  BY DEF Inv, ServingIsPublished, Locked, Placed, Bound, Named, LockSteps, OwnSteps, BoundSteps
<1> QED  BY Invariance, <1>1, PTL

\* The owner the refinement chooses is the process that owns.
LEMMA OwnerIs == Inv => \A p \in Proc : Owns(p) => OwnerNow = p
<1> SUFFICES ASSUME Inv, NEW p \in Proc, Owns(p) PROVE OwnerNow = p
  OBVIOUS
<1>1. \A q \in Proc : Owns(q) => q = p
  BY OwnersAgree, OwnsIsStep
<1> QED  BY <1>1 DEF OwnerNow

\* If no process owns, the refinement reads nobody.
LEMMA NoOwnerIs == (\A p \in Proc : ~Owns(p)) => OwnerNow = None
  BY DEF OwnerNow

\* A step moves one process at most.
LEMMA OneMoves ==
    ASSUME TypeOK, [Next]_vars
    PROVE  UNCHANGED pc \/ \E p \in Proc : \A q \in Proc \ {p} : pc'[q] = pc[q]
<1>1. CASE UNCHANGED vars
  BY <1>1 DEF vars, daemonVars
<1>2. ASSUME NEW p \in Proc, Start(p) \/ Run(p) \/ AcceptFails(p) \/ Crash(p)
      PROVE  \A q \in Proc \ {p} : pc'[q] = pc[q]
  <2> USE DEF TypeOK, Goto, GiveUp
  <2>1. CASE Start(p) \/ AcceptFails(p) \/ Crash(p)
    BY <2>1 DEF Start, AcceptFails, Crash
  <2>2. CASE FindRunning(p) \/ FindNone(p) \/ CreatePid(p) \/ FindPid(p) \/ OpenPid(p)
    BY <2>2 DEF FindRunning, FindNone, CreatePid, FindPid, OpenPid
  <2>3. CASE CheckPid(p) \/ LockPid(p) \/ RecheckPid(p)
    BY <2>3 DEF CheckPid, LockPid, RecheckPid
  <2>4. CASE InspectSocket(p) \/ ConnectSocket(p) \/ CompareSocket(p) \/ UnlinkStale(p)
    BY <2>4 DEF InspectSocket, ConnectSocket, CompareSocket, UnlinkStale
  <2>5. CASE Listen(p) \/ Truncate(p) \/ Publish(p)
    BY <2>5 DEF Listen, Truncate, Publish
  <2>6. CASE Wake(p) \/ MatchSocket(p) \/ Unbind(p)
    BY <2>6 DEF Wake, MatchSocket, Unbind
  <2>7. CASE ValidatePid(p) \/ RemovePid(p) \/ ClosePid(p)
    BY <2>7 DEF ValidatePid, RemovePid, ClosePid
  <2> QED  BY <1>2, <2>1, <2>2, <2>3, <2>4, <2>5, <2>6, <2>7 DEF Run
<1>3. ASSUME NEW c \in Client, Stop(c)
      PROVE  UNCHANGED pc \/ \E p \in Proc : \A q \in Proc \ {p} : pc'[q] = pc[q]
  <2>1. CASE Shutdown(c)
    BY <2>1 DEF Shutdown, Goto, TypeOK
  <2>2. CASE ReadPid(c) \/ Ping(c) \/ StopFails(c)
    BY <2>2 DEF ReadPid, Ping, StopFails, daemonVars
  <2> QED  BY <1>3, <2>1, <2>2 DEF Stop
<1> QED  BY <1>1, <1>2, <1>3 DEF Next

\* Every step is an acquire of a free directory, a release by its owner, or neither.
LEMMA StepRefines == Inv /\ Inv' /\ [Next]_vars => [Owner!Next]_OwnerNow
<1> SUFFICES ASSUME Inv, Inv', [Next]_vars PROVE [Owner!Next]_OwnerNow
  OBVIOUS
<1>1. (\A p \in Proc : Owns(p) => OwnerNow = p)'
  BY OwnerIs, PTL
<1>2. ((\A p \in Proc : ~Owns(p)) => OwnerNow = None)'
  BY NoOwnerIs, PTL
<1>3. \A p \in Proc : pc'[p] = pc[p] => Owns(p)' = Owns(p)
  BY DEF Owns
<1>4. CASE UNCHANGED pc
  BY <1>4 DEF OwnerNow, Owns
<1>5. ASSUME NEW p \in Proc, \A q \in Proc \ {p} : pc'[q] = pc[q]
      PROVE  [Owner!Next]_OwnerNow
  <2>1. \A q \in Proc \ {p} : Owns(q)' = Owns(q)
    BY <1>3, <1>5
  <2>2. CASE Owns(p)' /\ ~Owns(p)
    <3>1. \A q \in Proc : ~Owns(q)
      BY <1>1, <2>1, <2>2
    <3> QED  BY <1>1, <2>2, <3>1, NoOwnerIs DEF Owner!Next, Owner!Acquire
  <2>3. CASE ~Owns(p)' /\ Owns(p)
    <3>1. \A q \in Proc : ~Owns(q)'
      BY OwnerIs, <2>1, <2>3
    <3> QED  BY <1>2, <2>3, <3>1, OwnerIs DEF Owner!Next, Owner!Release
  <2>4. CASE Owns(p)' = Owns(p)
    <3>1. \A q \in Proc : Owns(q)' = Owns(q)
      BY <2>1, <2>4
    <3> QED  BY <1>1, <1>2, <3>1, OwnerIs, NoOwnerIs
  <2> QED  BY <2>2, <2>3, <2>4 DEF Owns
<1> QED  BY <1>4, <1>5, OneMoves DEF Inv

\* The directory's owner, read off the processes' steps, behaves as DaemonOwner says: every
\* step acquires a free directory, releases the owner's, or leaves ownership alone.
THEOREM Refinement == Spec => OwnerSpec
<1>1. Init => Owner!Init
  BY DEF Init, Owner!Init, OwnerNow, Owns
<1> QED  BY Invariance, StepRefines, <1>1, PTL DEF Spec, OwnerSpec, Owner!Spec

----------------------------------------------------------------------------
(***************************************************************************)
(* Without crashes, what is at the two paths is in the hands of a process  *)
(* that will remove it.  The file's creator and an opener of it race for   *)
(* its lock: the loser leaves it to the winner, who publishes and then     *)
(* removes what it did not create.                                         *)
(***************************************************************************)
\* The steps of a process that has bound the socket and not yet removed it.
SocketSteps == {"truncate", "write", "serve", "wake", "match", "unbind"}

\* Whoever bound the socket at the path is on its way to remove it.
SocketKept == socket # None => \E p \in Proc : pc[p] \in SocketSteps /\ bound[p] = socket.ino

\* No socket is ever found stale.
NoneStale == \A p \in Proc : pc[p] \notin {"connect", "compare", "unlink"}

\* Whoever has published is to remove the PID file.
Removers == \A p \in Proc :
    pc[p] \in {"serve", "wake", "match", "unbind", "validate", "remove"} => remove_on_drop[p]

\* The PID file at the path has its creator still before the lock, or a holder of its lock.
PidKept == pid_file # None =>
    \/ \E p \in Proc : pc[p] \in {"check", "lock"} /\ remove_on_drop[p] /\ file[p] = pid_file.ino
    \/ \E p \in Proc : pc[p] \in OwnSteps \cup {"recheck"} /\ file[p] = pid_file.ino

\* Who has nothing left to do but close has not left its file at the path.
ClosedGone == \A p \in Proc : pc[p] = "close" => ~AtPath(p)

Kept == SocketKept /\ NoneStale /\ Removers /\ PidKept /\ ClosedGone

CleanInv == Inv /\ (crashes = 0 => Kept)

\* A stop command leaves the files alone and moves its daemon from serving to the end of its loop.
LEMMA StopKeeps ==
    ASSUME Inv, Kept, NEW c \in Client, Stop(c)
    PROVE  Kept'
<1> USE DEF Inv, TypeOK, Kept, SocketKept, NoneStale, Removers, PidKept, ClosedGone, AtPath,
            SocketSteps, OwnSteps, LockSteps
<1>1. CASE Shutdown(c)
  <2>1. /\ UNCHANGED <<pid_file, socket, file, lock, remove_on_drop, bound>>
        /\ \/ UNCHANGED pc
           \/ \E q \in Proc : pc[q] = "serve" /\ pc' = [pc EXCEPT ![q] = "wake"]
    BY <1>1 DEF Shutdown, Goto, Answers
  <2>2. \A p \in Proc : pc'[p] = pc[p] \/ (pc[p] = "serve" /\ pc'[p] = "wake")
    BY <2>1
  <2>3. SocketKept' /\ NoneStale' /\ Removers'
    BY <2>1, <2>2
  <2>4. PidKept' /\ ClosedGone'
    BY <2>1, <2>2
  <2> QED  BY <2>3, <2>4
<1>2. CASE ReadPid(c) \/ Ping(c) \/ StopFails(c)
  BY <1>2 DEF ReadPid, Ping, StopFails, daemonVars
<1> QED  BY <1>1, <1>2 DEF Stop

\* So do the steps of a running daemon: each passes what it holds on to its next step.
LEMMA RunKeeps ==
    ASSUME Inv, Kept, NEW p \in Proc, Run(p) \/ Start(p) \/ AcceptFails(p)
    PROVE  Kept'
<1> USE OwnersAgree
        DEF Inv, TypeOK, Locked, Placed, LocksHeld, Kept, SocketKept, NoneStale, Removers, PidKept,
            ClosedGone, AtPath, SocketSteps, OwnSteps, LockSteps, Goto
<1>1. CASE Start(p) \/ FindRunning(p) \/ FindNone(p)
  BY <1>1 DEF Start, FindRunning, FindNone
<1>2. CASE CreatePid(p)
  BY <1>2 DEF CreatePid, Free, PidInodes
<1>3. CASE FindPid(p)
  BY <1>3 DEF FindPid
<1>4. CASE OpenPid(p)
  BY <1>4 DEF OpenPid
<1>5. CASE CheckPid(p)
  BY <1>5 DEF CheckPid, GiveUp
<1>6. CASE LockPid(p)
  BY <1>6 DEF LockPid, GiveUp
<1>7. CASE RecheckPid(p)
  BY <1>7 DEF RecheckPid, GiveUp
<1>8. CASE InspectSocket(p)
  BY <1>8 DEF InspectSocket
<1>9. CASE ConnectSocket(p) \/ CompareSocket(p) \/ UnlinkStale(p)
  BY <1>9 DEF ConnectSocket, CompareSocket, UnlinkStale
<1>10. CASE Listen(p)
  BY <1>10 DEF Listen
<1>11. CASE Truncate(p)
  BY <1>11 DEF Truncate, Record
<1>12. CASE Publish(p)
  BY <1>12 DEF Publish, Record
<1>13. CASE Wake(p)
  BY <1>13 DEF Wake
<1>14. CASE AcceptFails(p)
  BY <1>14 DEF AcceptFails
<1>15. CASE MatchSocket(p)
  BY <1>15 DEF MatchSocket, SocketIs
<1>16. CASE Unbind(p)
  BY <1>16 DEF Unbind
<1>17. CASE ValidatePid(p)
  BY <1>17 DEF ValidatePid
<1>18. CASE RemovePid(p)
  BY <1>18 DEF RemovePid
<1>19. CASE ClosePid(p)
  BY <1>19 DEF ClosePid, GiveUp
<1> QED  BY <1>1, <1>2, <1>3, <1>4, <1>5, <1>6, <1>7, <1>8, <1>9, <1>10, <1>11, <1>12, <1>13,
            <1>14, <1>15, <1>16, <1>17, <1>18, <1>19 DEF Run

\* Nobody starts with files left behind, and what a crash leaves is not claimed of.
LEMMA CleanInvariant == Spec => []CleanInv
<1>1. Init => CleanInv
  BY InitInv DEF Init, CleanInv, Kept, SocketKept, NoneStale, Removers, PidKept, ClosedGone
<1>2. CleanInv /\ [Next]_vars => CleanInv'
  <2> SUFFICES ASSUME CleanInv, [Next]_vars, crashes' = 0 PROVE Kept'
    BY StepPreserves DEF CleanInv
  <2> USE DEF CleanInv
  <2>1. CASE UNCHANGED vars
    BY <2>1 DEF vars, daemonVars, Kept, SocketKept, NoneStale, Removers, PidKept, ClosedGone, AtPath
  <2>2. ASSUME NEW p \in Proc, Run(p) \/ Start(p) \/ AcceptFails(p) PROVE Kept'
    <3>1. UNCHANGED crashes
      BY <2>2 DEF Run, Start, AcceptFails, FindRunning, FindNone, CreatePid, FindPid, OpenPid,
           CheckPid, LockPid, RecheckPid, InspectSocket, ConnectSocket, CompareSocket, UnlinkStale,
           Listen, Truncate, Publish, Wake, MatchSocket, Unbind, ValidatePid, RemovePid, ClosePid
    <3> QED  BY <2>2, <3>1, RunKeeps
  <2>3. ASSUME NEW p \in Proc, Crash(p) PROVE FALSE
    BY <2>3 DEF Crash, Inv, TypeOK
  <2>4. ASSUME NEW c \in Client, Stop(c) PROVE Kept'
    <3>1. UNCHANGED crashes
      BY <2>4 DEF Stop, ReadPid, Ping, Shutdown, StopFails
    <3> QED  BY <2>4, <3>1, StopKeeps
  <2> QED  BY <2>1, <2>2, <2>3, <2>4 DEF Next
<1> QED  BY <1>1, <1>2, PTL DEF Spec

\* Without crashes, daemons that race for a PID file and lose, that are stopped or whose accepting
\* fails, leave neither the PID file nor the socket behind (PidFile::drop, SocketFile::drop).
THEOREM NothingLeft == Spec => []NoLeftovers
<1>1. CleanInv => NoLeftovers
  BY DEF CleanInv, Kept, SocketKept, PidKept, NoLeftovers, SocketSteps, OwnSteps, LockSteps
<1> QED  BY CleanInvariant, <1>1, PTL

=============================================================================
