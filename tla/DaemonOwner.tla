----------------------------- MODULE DaemonOwner -----------------------------
(***************************************************************************)
(* What the daemon's PID file and its lock promise: at any time at most    *)
(* one process owns the daemon directory, and a process becomes its owner  *)
(* only while nobody is.                                                   *)
(***************************************************************************)
CONSTANTS Proc, None

VARIABLE owner

Init == owner = None

Acquire(p) == owner = None /\ owner' = p

Release(p) == owner = p /\ owner' = None

Next == \E p \in Proc : Acquire(p) \/ Release(p)

Spec == Init /\ [][Next]_owner
=============================================================================
