----------------------------- MODULE ParseCache -----------------------------
(***************************************************************************)
(* The on-disk caches of the Claude adapter                                *)
(* (rust/adapters/claude/src/cache.rs) and the load that goes through them *)
(* (load_daily_summaries in daily.rs): processes that share one cache      *)
(* directory, over logs that change under them.                            *)
(*                                                                         *)
(* A step is a system call.  A file's stamp is the number of its version:  *)
(* every change gives a log a change time or an inode it never had.  A     *)
(* read returns one version.  Hashes stand for what they are taken of.     *)
(***************************************************************************)
EXTENDS FreshLoad

CONSTANTS
    Online,         \* the arguments that ask for fetched prices
    Report,         \* the path of the one report slot: all keys collide in it
    Torn,           \* a cache file that lost its data with the machine
    MaxVersions,    \* bound: versions of a log
    MaxFaults       \* bound: deaths of processes, losses of power, failed writes

VARIABLES
    cached,     \* per cache path: the blob, Torn or None
    tmp,        \* per cache path: the processes whose temporary file is there
    pc,         \* per process: its next call
    files,      \* per process: the logs it has listed
    todo,       \* per process: listed logs still to be looked at
    key,        \* per process: stamps of the listed logs, or None for no report caching
    at,         \* per process: the log it is at
    stat,       \* per process: that log's stamp, taken before it is read
    rows,       \* per process: records found so far
    job,        \* per process: the cache file being written
    faults

ASSUME CacheAssumption ==
    /\ Report \notin Log
    /\ None \notin Record \cup Log \cup Args \cup [Log -> Nat]
    /\ Gone \notin [lines: Seq(Record), tail: Record \cup {None}]
    /\ Content \subseteq [lines: Seq(Record), tail: Record \cup {None}] \cup {Gone}
    /\ Online \subseteq Args
    /\ MaxVersions \in Nat
    /\ MaxFaults \in Nat

loadVars == <<files, todo, key, at, stat, rows, job>>
cacheVars == <<versions, begun, asked, answers, cached, tmp, pc, loadVars, faults>>

Path == Log \cup {Report}
Stamp(l) == Len(versions[l])
NoRows == [l \in Log |-> <<>>]
NoJob == [path |-> None, blob |-> None]

Size(c) == Len(Whole(c))

\* A process that has ended leaves nothing of its load.
Forget(dead) ==
    /\ begun' = [p \in Proc |-> IF p \in dead THEN None ELSE begun[p]]
    /\ asked' = [p \in Proc |-> IF p \in dead THEN None ELSE asked[p]]
    /\ pc' = [p \in Proc |-> IF p \in dead THEN "idle" ELSE pc[p]]
    /\ files' = [p \in Proc |-> IF p \in dead THEN {} ELSE files[p]]
    /\ todo' = [p \in Proc |-> IF p \in dead THEN {} ELSE todo[p]]
    /\ key' = [p \in Proc |-> IF p \in dead THEN None ELSE key[p]]
    /\ at' = [p \in Proc |-> IF p \in dead THEN None ELSE at[p]]
    /\ stat' = [p \in Proc |-> IF p \in dead THEN 0 ELSE stat[p]]
    /\ rows' = [p \in Proc |-> IF p \in dead THEN NoRows ELSE rows[p]]
    /\ job' = [p \in Proc |-> IF p \in dead THEN NoJob ELSE job[p]]

Goto(p, label) == pc' = [pc EXCEPT ![p] = label]

----------------------------------------------------------------------------
(***************************************************************************)
(* The agents, and what can go wrong from outside.                         *)
(***************************************************************************)
ChangeLog(l) ==
    /\ Len(versions[l]) < MaxVersions
    /\ \E c \in Content : versions' = [versions EXCEPT ![l] = Append(@, c)]
    /\ answers' = {}
    /\ UNCHANGED <<begun, asked, cached, tmp, pc, loadVars, faults>>

Fault == faults < MaxFaults /\ faults' = faults + 1

\* A process dies; what it wrote stays.
Die(p) ==
    /\ pc[p] # "idle"
    /\ Fault
    /\ Forget({p})
    /\ answers' = {}
    /\ UNCHANGED <<versions, cached, tmp>>

\* The machine loses power: a renamed file may have lost its data.
PowerLoss ==
    /\ Fault
    /\ \E path \in Path :
        /\ cached[path] # None
        /\ cached' = [cached EXCEPT ![path] = Torn]
    /\ Forget(Proc)
    /\ answers' = {}
    /\ UNCHANGED <<versions, tmp>>

----------------------------------------------------------------------------
(***************************************************************************)
(* load_daily_summaries up to its answer from the report slot.             *)
(***************************************************************************)
Begins(p, a) ==
    /\ pc[p] = "idle"
    /\ begun' = [begun EXCEPT ![p] = [l \in Log |-> Stamp(l)]]
    /\ asked' = [asked EXCEPT ![p] = a]
    /\ rows' = [rows EXCEPT ![p] = NoRows]
    /\ LET listed == {l \in Log : Current(l) # Gone} IN
        /\ files' = [files EXCEPT ![p] = listed]
        /\ todo' = [todo EXCEPT ![p] = listed]
        /\ IF listed = {} THEN Goto(p, "answer")
           ELSE IF a \in Online THEN Goto(p, "scan") ELSE Goto(p, "stamp")
    /\ key' = [key EXCEPT ![p] = IF a \in Online THEN None ELSE [l \in Log |-> 0]]
    /\ answers' = {}
    /\ UNCHANGED <<versions, cached, tmp, at, stat, job, faults>>

Start(p) == \E a \in Args : Begins(p, a)

\* daily_report_key: the stamps of all listed logs, or no key when one has gone.
StampForKey(p) ==
    /\ pc[p] = "stamp"
    /\ \E l \in todo[p] :
        IF Current(l) = Gone
        THEN /\ key' = [key EXCEPT ![p] = None]
             /\ todo' = [todo EXCEPT ![p] = files[p]]
             /\ Goto(p, "scan")
        ELSE /\ key' = [key EXCEPT ![p][l] = Stamp(l)]
             /\ todo' = [todo EXCEPT ![p] = IF @ = {l} THEN files[p] ELSE @ \ {l}]
             /\ IF todo[p] = {l} THEN Goto(p, "lookup") ELSE UNCHANGED pc
    /\ answers' = {}
    /\ UNCHANGED <<versions, begun, asked, cached, tmp, files, at, stat, rows, job, faults>>

ReportBlob(p) == [args |-> asked[p], key |-> key[p], rows |-> rows[p]]

\* Mutant: the slot's rows are taken without comparing the key.
AnyReport(p) == cached[Report] \notin {None, Torn}

\* decode_report_blob: the slot holds a report under the very key.
ReportHit(p) ==
    /\ cached[Report] \notin {None, Torn}
    /\ cached[Report].args = asked[p]
    /\ cached[Report].key = key[p]

ReadReport(p) ==
    /\ pc[p] = "lookup"
    /\ IF ReportHit(p)
       THEN rows' = [rows EXCEPT ![p] = cached[Report].rows] /\ Goto(p, "answer")
       ELSE UNCHANGED rows /\ Goto(p, "scan")
    /\ answers' = {}
    /\ UNCHANGED <<versions, begun, asked, cached, tmp, files, todo, key, at, stat, job,
                   faults>>

----------------------------------------------------------------------------
(***************************************************************************)
(* cached_scan, for the listed logs in any order: the workers take them by *)
(* size.                                                                   *)
(***************************************************************************)
\* The log the process is at is done with.
Found(p, found) ==
    /\ rows' = [rows EXCEPT ![p][at[p]] = found]
    /\ todo' = [todo EXCEPT ![p] = @ \ {at[p]}]
    /\ at' = [at EXCEPT ![p] = None]
    /\ stat' = [stat EXCEPT ![p] = 0]

StatLog(p) ==
    /\ pc[p] = "scan"
    /\ \E l \in todo[p] :
        /\ at' = [at EXCEPT ![p] = l]
        /\ stat' = [stat EXCEPT ![p] = Stamp(l)]
        /\ Goto(p, IF Current(l) = Gone THEN "uncached" ELSE "check")
    /\ answers' = {}
    /\ UNCHANGED <<versions, begun, asked, cached, tmp, files, todo, key, rows, job, faults>>

\* scan_uncached: no stamp, no cache, whatever a second look finds.
ReadUncached(p) ==
    /\ pc[p] = "uncached"
    /\ Found(p, Whole(Current(at[p])))
    /\ Goto(p, "scan")
    /\ answers' = {}
    /\ UNCHANGED <<versions, begun, asked, cached, tmp, files, key, job, faults>>

\* Mutant: a log that ends in a partial line is served from its complete ones.
StampHit(p) ==
    /\ cached[at[p]] \notin {None, Torn}
    /\ cached[at[p]].stamp = stat[p]

\* The cache file is whole, of this stamp, and covers the log's whole size.
ParseHit(p) ==
    /\ cached[at[p]] \notin {None, Torn}
    /\ cached[at[p]].stamp = stat[p]
    /\ cached[at[p]].parsed_len = Size(versions[at[p]][stat[p]])

CheckCache(p) ==
    /\ pc[p] = "check"
    /\ IF ParseHit(p)
       THEN Found(p, cached[at[p]].entries) /\ Goto(p, "scan")
       ELSE UNCHANGED <<rows, todo, at, stat>> /\ Goto(p, "read")
    /\ answers' = {}
    /\ UNCHANGED <<versions, begun, asked, cached, tmp, files, key, job, faults>>

ParseBlob(n, c) == [stamp |-> n, parsed_len |-> Len(Lines(c)), entries |-> Lines(c)]

\* The log is scanned; complete lines are for the cache, the last line too is for the report.
ReadLog(p) ==
    /\ pc[p] = "read"
    /\ LET l == at[p] c == Current(l) IN
        /\ Found(p, Whole(c))
        /\ IF c = Gone
           THEN UNCHANGED job /\ Goto(p, "scan")
           ELSE /\ job' = [job EXCEPT ![p] = [path |-> l, blob |-> ParseBlob(stat[p], c)]]
                /\ Goto(p, "create")
    /\ answers' = {}
    /\ UNCHANGED <<versions, begun, asked, cached, tmp, files, key, faults>>

----------------------------------------------------------------------------
(***************************************************************************)
(* write_cache_file.  Whatever goes wrong, the load goes on.               *)
(***************************************************************************)
GoOn(p) ==
    /\ Goto(p, IF job[p].path = Report THEN "answer" ELSE "scan")
    /\ job' = [job EXCEPT ![p] = NoJob]

CreateTmp(p) ==
    /\ pc[p] = "create"
    /\ IF p \in tmp[job[p].path]
       THEN UNCHANGED tmp /\ GoOn(p)
       ELSE /\ tmp' = [tmp EXCEPT ![job[p].path] = @ \cup {p}]
            /\ Goto(p, "rename")
            /\ UNCHANGED job
    /\ answers' = {}
    /\ UNCHANGED <<versions, begun, asked, cached, files, todo, key, at, stat, rows, faults>>

RemoveTmp(p) == tmp' = [tmp EXCEPT ![job[p].path] = @ \ {p}]

\* Writing or renaming fails.
WriteFails(p) ==
    /\ pc[p] = "rename"
    /\ Fault
    /\ RemoveTmp(p)
    /\ GoOn(p)
    /\ answers' = {}
    /\ UNCHANGED <<versions, begun, asked, cached, files, todo, key, at, stat, rows>>

\* Mutant: the temporary file does not replace a cache file that is there.
LinkTmp(p) ==
    /\ pc[p] = "rename"
    /\ cached' = [cached EXCEPT ![job[p].path] = IF @ = None THEN job[p].blob ELSE @]
    /\ RemoveTmp(p)
    /\ GoOn(p)
    /\ answers' = {}
    /\ UNCHANGED <<versions, begun, asked, files, todo, key, at, stat, rows, faults>>

RenameTmp(p) ==
    /\ pc[p] = "rename"
    /\ cached' = [cached EXCEPT ![job[p].path] = job[p].blob]
    /\ RemoveTmp(p)
    /\ GoOn(p)
    /\ answers' = {}
    /\ UNCHANGED <<versions, begun, asked, files, todo, key, at, stat, rows, faults>>

\* All logs are done: the rows are stored under the key taken before.
EndScan(p) ==
    /\ pc[p] = "scan"
    /\ todo[p] = {}
    /\ IF key[p] = None
       THEN UNCHANGED job /\ Goto(p, "answer")
       ELSE /\ job' = [job EXCEPT ![p] = [path |-> Report, blob |-> ReportBlob(p)]]
            /\ Goto(p, "create")
    /\ answers' = {}
    /\ UNCHANGED <<versions, begun, asked, cached, tmp, files, todo, key, at, stat, rows,
                   faults>>

Return(p) ==
    /\ pc[p] = "answer"
    /\ answers' = {[by |-> p, args |-> asked[p], rows |-> rows[p]]}
    /\ Forget({p})
    /\ UNCHANGED <<versions, cached, tmp, faults>>

----------------------------------------------------------------------------
Init ==
    /\ versions \in [Log -> {<<c>> : c \in Content}]
    /\ begun = [p \in Proc |-> None]
    /\ asked = [p \in Proc |-> None]
    /\ answers = {}
    /\ cached = [path \in Path |-> None]
    /\ tmp = [path \in Path |-> {}]
    /\ pc = [p \in Proc |-> "idle"]
    /\ files = [p \in Proc |-> {}]
    /\ todo = [p \in Proc |-> {}]
    /\ key = [p \in Proc |-> None]
    /\ at = [p \in Proc |-> None]
    /\ stat = [p \in Proc |-> 0]
    /\ rows = [p \in Proc |-> NoRows]
    /\ job = [p \in Proc |-> NoJob]
    /\ faults = 0

\* A load after its start.
Load(p) ==
    \/ StampForKey(p) \/ ReadReport(p)
    \/ StatLog(p) \/ ReadUncached(p) \/ CheckCache(p) \/ ReadLog(p)
    \/ CreateTmp(p) \/ WriteFails(p) \/ RenameTmp(p)
    \/ EndScan(p) \/ Return(p)

Next ==
    \/ \E l \in Log : ChangeLog(l)
    \/ \E p \in Proc : Start(p) \/ Load(p) \/ Die(p)
    \/ PowerLoss

Spec == Init /\ [][Next]_cacheVars

\* Reports are run again and again, with fetched prices too.
FairSpec ==
    /\ Spec
    /\ \A p \in Proc : WF_cacheVars(Load(p))
    /\ \A p \in Proc : \A a \in Online : SF_cacheVars(Begins(p, a))
----------------------------------------------------------------------------
TypeOK ==
    /\ versions \in [Log -> Seq(Content)]
    /\ \A l \in Log : versions[l] # <<>>
    /\ pc \in [Proc -> {"idle", "stamp", "lookup", "scan", "uncached", "check", "read", "create",
                        "rename", "answer"}]
    /\ begun \in [Proc -> [Log -> Nat] \cup {None}]
    /\ asked \in [Proc -> Args \cup {None}]
    /\ rows \in [Proc -> [Log -> Seq(Record)]]
    /\ \A l \in Log : cached[l] \notin {None, Torn} =>
            cached[l].entries \in Seq(Record) /\ cached[l].parsed_len = Len(cached[l].entries)
    /\ key \in [Proc -> [Log -> Nat] \cup {None}]
    /\ stat \in [Proc -> Nat]
    /\ at \in [Proc -> Log \cup {None}]
    /\ files \in [Proc -> SUBSET Log]
    /\ \A p \in Proc : todo[p] \subseteq files[p] /\ (at[p] # None => at[p] \in todo[p])
    /\ tmp \in [Path -> SUBSET Proc]
    /\ faults \in Nat

\* Every answer is for the arguments asked for and of versions the logs had during the load,
\* whichever of the caches it came through and whoever wrote them.
Fresh == FreshSpec

Rests(l) == Current(l) # Gone /\ Current(l).tail = None

\* Once the logs rest on complete lines, what deaths, lost power, failed writes and late writers
\* have left in the cache gives way: in the end a log is no longer scanned, as long as some process
\* id has no temporary file left behind by a process that died (that id would never write again).
CacheHeals ==
    \A l \in Log :
        <>[](Rests(l) /\ tmp[l] # Proc =>
                 \A p \in Proc : pc[p] = "check" /\ at[p] = l => ParseHit(p))
=============================================================================
