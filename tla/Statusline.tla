----------------------------- MODULE Statusline -----------------------------
(***************************************************************************)
(* The status line (run_statusline in commands/mod.rs).  The agent starts  *)
(* it on every prompt; runs of one session share a cache file, which they  *)
(* read, mark, overwrite and release without a lock.                       *)
(*                                                                         *)
(* Time is how old things are, in ticks up to Refresh, which is old.       *)
(***************************************************************************)
EXTENDS Integers, FiniteSets

CONSTANTS
    Run,            \* runs that can be under way at a time
    Refresh,        \* refresh_interval, in ticks
    MaxVersion,     \* bound on the changes of the transcript
    MaxFaults,      \* bound on failed renderings and on deaths
    NoRun,          \* the process id of nobody
    NoCache,        \* no cache file, or half of one
    NoOutput        \* an empty line

\* The numbers are natural, and nobody, no cache and no output are told from a run, a cache and
\* an output.
ASSUME SLAssumption ==
    /\ Refresh \in Nat /\ MaxVersion \in Nat /\ MaxFaults \in Nat
    /\ NoRun \notin Run
    /\ NoOutput \notin [version: 0..MaxVersion, age: 0..Refresh]
    /\ NoCache \notin [last_output: [version: 0..MaxVersion, age: 0..Refresh] \cup {NoOutput},
                       since_update: 0..Refresh, transcript_mtime: 0..MaxVersion,
                       pid: Run \cup {NoRun}]

VARIABLES
    transcript,     \* the transcript's version, which its modification time tells
    cache,          \* the cache file
    line,           \* per run: where it is
    mtime,          \* per run: the version whose time it took at its start
    initial,        \* per run: the cache it read
    output,         \* per run: the line it printed
    faults

slvars == <<transcript, cache, line, mtime, initial, output, faults>>

\* An output knows the version it tells of and how long ago it was completed.
Output == [version: 0..MaxVersion, age: 0..Refresh] \cup {NoOutput}

Old(age) == IF age < Refresh THEN age + 1 ELSE age

Older(out) == IF out = NoOutput THEN out ELSE [out EXCEPT !.age = Old(@)]

OlderCache(c) ==
    IF c = NoCache THEN c
    ELSE [c EXCEPT !.last_output = Older(@), !.since_update = Old(@)]

\* A process id that is free again is not given to another run while a mark names it.
Forgotten(c, r) == IF c # NoCache /\ c.pid = r THEN [c EXCEPT !.pid = NoRun] ELSE c

Alive(pid) == pid # NoRun

----------------------------------------------------------------------------
\* StatuslineCache::completed; the time is taken when the line is there.
Completed(version, at) ==
    [last_output |-> [version |-> version, age |-> 0], since_update |-> 0,
     transcript_mtime |-> at, pid |-> NoRun]

\* Mutant: what was there counts as updated now.
UpdatingNow(r, at, previous) ==
    [last_output |-> IF previous = NoCache THEN NoOutput ELSE previous.last_output,
     since_update |-> 0, transcript_mtime |-> at, pid |-> r]

\* StatuslineCache::updating keeps the output there was, and when that was made.
Updating(r, at, previous) ==
    [last_output |-> IF previous = NoCache THEN NoOutput ELSE previous.last_output,
     since_update |-> IF previous = NoCache THEN Refresh ELSE previous.since_update,
     transcript_mtime |-> at, pid |-> r]

\* Mutant: what was not modified is shown however old it is.
CachedForever(c, at) ==
    /\ c # NoCache
    /\ c.last_output # NoOutput
    /\ c.transcript_mtime = at \/ Alive(c.pid)

\* Whether cached_statusline_output serves the cache.
Cached(c, at) ==
    /\ c # NoCache
    /\ c.last_output # NoOutput
    /\ \/ c.since_update < Refresh /\ c.transcript_mtime = at
       \/ Alive(c.pid)

----------------------------------------------------------------------------
Goto(r, l) == line' = [line EXCEPT ![r] = l]

BeginRun(r) ==
    /\ line[r] = "ended"
    /\ Goto(r, "read")
    /\ mtime' = [mtime EXCEPT ![r] = transcript]
    /\ output' = [output EXCEPT ![r] = NoOutput]
    /\ UNCHANGED <<transcript, cache, initial, faults>>

\* A run that ends leaves its process id.
End(r) ==
    /\ Goto(r, "ended")
    /\ initial' = [q \in Run |-> IF q = r THEN NoCache ELSE Forgotten(initial[q], r)]

ReadCache(r) ==
    /\ line[r] = "read"
    /\ IF Cached(cache, mtime[r])
       THEN /\ End(r)
            /\ output' = [output EXCEPT ![r] = cache.last_output]
            /\ cache' = Forgotten(cache, r)
       ELSE /\ Goto(r, "mark")
            /\ initial' = [initial EXCEPT ![r] = cache]
            /\ UNCHANGED <<output, cache>>
    /\ UNCHANGED <<transcript, mtime, faults>>

\* fs::write empties the file before it fills it.
Empty(r, before, after) ==
    /\ line[r] = before
    /\ Goto(r, after)
    /\ cache' = NoCache
    /\ UNCHANGED <<transcript, mtime, initial, output, faults>>

EmptyToMark(r) == Empty(r, "mark", "marking")

Mark(r) ==
    /\ line[r] = "marking"
    /\ Goto(r, "render")
    /\ cache' = Updating(r, mtime[r], initial[r])
    /\ UNCHANGED <<transcript, mtime, initial, output, faults>>

\* render_statusline reads the logs and the transcript; the line is printed.
Render(r) ==
    /\ line[r] = "render"
    /\ Goto(r, "complete")
    /\ output' = [output EXCEPT ![r] = [version |-> transcript, age |-> 0]]
    /\ UNCHANGED <<transcript, cache, mtime, initial, faults>>

EmptyToComplete(r) == Empty(r, "complete", "completing")

Complete(r) ==
    /\ line[r] = "completing"
    /\ End(r)
    /\ cache' = Completed(output[r].version, mtime[r])
    /\ output' = [output EXCEPT ![r].age = 0]
    /\ UNCHANGED <<transcript, mtime, faults>>

\* A failed rendering prints the line there was and releases the cache.
Fail(r) ==
    /\ line[r] = "render"
    /\ faults < MaxFaults
    /\ faults' = faults + 1
    /\ output' = [output EXCEPT ![r] =
                     IF initial[r] = NoCache THEN NoOutput ELSE initial[r].last_output]
    /\ Goto(r, "release")
    /\ UNCHANGED <<transcript, cache, mtime, initial>>

\* release_statusline_cache reads the cache there is now ...
ReadToRelease(r) ==
    /\ line[r] = "release"
    /\ IF cache = NoCache
       THEN End(r) /\ UNCHANGED cache
       ELSE /\ Goto(r, "releasing")
            /\ initial' = [initial EXCEPT ![r] = [cache EXCEPT !.pid = NoRun]]
            /\ cache' = NoCache
    /\ UNCHANGED <<transcript, mtime, output, faults>>

\* ... and writes it back without the mark.
Release(r) ==
    /\ line[r] = "releasing"
    /\ End(r)
    /\ cache' = initial[r]
    /\ UNCHANGED <<transcript, mtime, output, faults>>

Die(r) ==
    /\ line[r] # "ended"
    /\ faults < MaxFaults
    /\ faults' = faults + 1
    /\ End(r)
    /\ cache' = Forgotten(cache, r)
    /\ output' = [output EXCEPT ![r] = NoOutput]
    /\ UNCHANGED <<transcript, mtime>>

----------------------------------------------------------------------------
ChangeTranscript ==
    /\ transcript < MaxVersion
    /\ transcript' = transcript + 1
    /\ UNCHANGED <<cache, line, mtime, initial, output, faults>>

Tick ==
    /\ cache' = OlderCache(cache)
    /\ initial' = [r \in Run |-> OlderCache(initial[r])]
    /\ output' = [r \in Run |-> Older(output[r])]
    /\ UNCHANGED <<transcript, line, mtime, faults>>
    /\ slvars' # slvars

\* What a run does; it begins, fails and dies at will.
RunStep(r) ==
    \/ ReadCache(r) \/ EmptyToMark(r) \/ Mark(r) \/ Render(r)
    \/ EmptyToComplete(r) \/ Complete(r) \/ ReadToRelease(r) \/ Release(r)

SLInit ==
    /\ transcript = 0
    /\ cache = NoCache
    /\ line = [r \in Run |-> "ended"]
    /\ mtime = [r \in Run |-> 0]
    /\ initial = [r \in Run |-> NoCache]
    /\ output = [r \in Run |-> NoOutput]
    /\ faults = 0

SLNext ==
    \/ \E r \in Run : BeginRun(r) \/ RunStep(r) \/ Fail(r) \/ Die(r)
    \/ ChangeTranscript
    \/ Tick

\* A run under way goes on and time passes; the agent asks for a line again and again.
SLFair == /\ \A r \in Run : WF_slvars(RunStep(r)) /\ WF_slvars(BeginRun(r))
          /\ WF_slvars(Tick)

SLSpec == SLInit /\ [][SLNext]_slvars /\ SLFair

----------------------------------------------------------------------------
\* A run that does not render prints a line completed less than the refresh interval ago, or one
\* that a run which is still there is about to replace: failures, deaths and overwritten marks
\* never make an old line look new.
StaleIsBounded ==
    [][\A r \in Run : line[r] = "read" /\ line'[r] = "ended" /\ output'[r] # NoOutput =>
          \/ output'[r].age < Refresh
          \/ \E q \in Run : line[q] \notin {"read", "ended"} /\ cache.pid = q]_slvars

\* Once the transcript rests, the lines printed come to tell of it, whatever failed before.
ShowsTheLast ==
    <>[](\A r \in Run : line[r] = "ended" /\ output[r] # NoOutput => output[r].version = transcript)
=============================================================================
