----------------------------- MODULE FreshLoad -----------------------------
(***************************************************************************)
(* What a load of the Claude daily report promises, whatever caches it     *)
(* goes through: its answer is for the arguments it was asked with, and    *)
(* for each log it is what the log held at some moment of the load.        *)
(*                                                                         *)
(* A log's versions are numbered as they are made: the number of its       *)
(* current version is Len(versions[l]).                                    *)
(***************************************************************************)
EXTENDS Naturals, Sequences

CONSTANTS
    Log,        \* paths of logs
    Proc,       \* process ids of running reports
    Args,       \* what a report can be asked for
    Record,     \* usage records
    Content,    \* what a log can hold: [lines, tail], or Gone
    None,       \* nothing
    Gone        \* the content of a log that is not there

VARIABLES
    versions,   \* per log: all it has held, in order
    begun,      \* per process: the number of each log's version when its load began
    asked,      \* per process: the arguments of its load
    answers     \* the answers given by the last step: [by, args, rows]

freshVars == <<versions, begun, asked, answers>>

\* The records of complete lines, and those with the last line that has no newline yet.
Lines(c) == IF c = Gone THEN <<>> ELSE c.lines

Whole(c) == IF c = Gone \/ c.tail = None THEN Lines(c) ELSE Append(c.lines, c.tail)

Current(l) == versions[l][Len(versions[l])]

\* Of the versions vs, these rows are of one at least as late as the one numbered n.  A line that
\* was still being written may be missing if the log has changed since.
FreshRows(vs, found, n) ==
    \E j \in n .. Len(vs) :
        \/ found = Whole(vs[j])
        \/ j > n /\ found = Lines(vs[j])

FreshSince(rows, since) == \A l \in Log : FreshRows(versions[l], rows[l], since[l])

----------------------------------------------------------------------------
FreshInit ==
    /\ versions \in [Log -> {<<c>> : c \in Content}]
    /\ begun = [p \in Proc |-> None]
    /\ asked = [p \in Proc |-> None]
    /\ answers = {}

Change(l) ==
    /\ \E c \in Content : versions' = [versions EXCEPT ![l] = Append(@, c)]
    /\ answers' = {}
    /\ UNCHANGED <<begun, asked>>

Begin(p) ==
    /\ begun[p] = None
    /\ \E a \in Args : asked' = [asked EXCEPT ![p] = a]
    /\ begun' = [begun EXCEPT ![p] = [l \in Log |-> Len(versions[l])]]
    /\ answers' = {}
    /\ UNCHANGED versions

\* Any rows that are fresh will do.
Answer(p) ==
    /\ begun[p] # None
    /\ \E a \in answers' :
        /\ answers' = {a}
        /\ a.by = p /\ a.args = asked[p]
        /\ FreshSince(a.rows, begun[p])
    /\ begun' = [begun EXCEPT ![p] = None]
    /\ asked' = [asked EXCEPT ![p] = None]
    /\ UNCHANGED versions

Abandon ==
    /\ \E dead \in SUBSET Proc :
        /\ begun' = [p \in Proc |-> IF p \in dead THEN None ELSE begun[p]]
        /\ asked' = [p \in Proc |-> IF p \in dead THEN None ELSE asked[p]]
    /\ answers' = {}
    /\ UNCHANGED versions

FreshNext ==
    \/ \E l \in Log : Change(l)
    \/ \E p \in Proc : Begin(p) \/ Answer(p)
    \/ Abandon

FreshSpec == FreshInit /\ [][FreshNext]_freshVars
=============================================================================
