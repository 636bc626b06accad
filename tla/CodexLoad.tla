------------------------------ MODULE CodexLoad -----------------------------
(***************************************************************************)
(* A report of Codex sessions (load_groups in rust/adapters/codex/src/     *)
(* aggregate.rs, with replay.rs and the filter of parser.rs): what forks   *)
(* took over is told from the sessions' first lines and their parents'     *)
(* usage, then workers go through the logs, drop what forks replayed and   *)
(* what another log has as well, and their sums are merged.  The sessions  *)
(* go on meanwhile.                                                        *)
(*                                                                         *)
(* A log is the usage events its lines come to (CodexLive has the parser). *)
(* Of an event's token fields one number is kept.                          *)
(***************************************************************************)
EXTENDS Integers, SequencesExt, FiniteSetsExt, TLC

CONSTANTS
    Worlds,         \* the logs there may be: sequences of session files
    Worker,         \* threads, by number
    Kinds,          \* kinds of report
    DayOf(_),       \* the day of a timestamp
    InRange(_),     \* whether a day is in the report's range
    Pause,          \* CODEX_REWRITTEN_BURST_PAUSE_MS
    LongContext,    \* long_context_split_threshold
    BadTime,        \* a timestamp that does not parse
    None            \* nothing

VARIABLES
    world,          \* the session files, in the order they are listed
    kind,           \* the kind of report
    chunk,          \* the worker of each file
    grown,          \* how many of a file's later events are written
    stage,          \* where load_groups is
    metadata,       \* CodexSessionMetadata per file
    parent_usage,   \* per parent: its events as they were read
    batch,          \* the source directory being read
    worker,         \* per worker: the file and event it is at, the files it opened, its filter, its sums
    seen,           \* the shards: what is kept of an event by its key
    groups          \* merged sums

cxvars == <<world, kind, chunk, grown, stage, metadata, parent_usage, batch, worker, seen, groups>>

----------------------------------------------------------------------------
(***************************************************************************)
(* Sums: per period and model.                                             *)
(***************************************************************************)
NoUsage == [tokens |-> 0, long |-> 0, standard |-> 0, fast |-> 0]

Plus(u, v) == [k \in DOMAIN u |-> u[k] + v[k]]

At(sums, key) == IF key \in DOMAIN sums THEN sums[key] ELSE NoUsage

AddTo(sums, key, usage) == (key :> Plus(At(sums, key), usage)) @@ sums

\* merge_groups.
Merge(sums, more) == [key \in DOMAIN sums \cup DOMAIN more |-> Plus(At(sums, key), At(more, key))]

\* codex_period_for of an event in range; sessions are known by their file.
Period(at, session) == IF kind = "session" THEN session ELSE DayOf(at)

Usage(event) ==
    [NoUsage EXCEPT !.tokens = event.tokens,
                    !.long = IF event.tokens > LongContext THEN event.tokens ELSE 0]

Recorded(tier, tokens) ==
    CASE tier = "standard" -> [NoUsage EXCEPT !.standard = tokens]
      [] tier = "fast"     -> [NoUsage EXCEPT !.fast = tokens]
      [] OTHER             -> NoUsage

\* merge_codex_service_tiers.
MergeTiers(current, incoming) ==
    IF "standard" \in {current, incoming} THEN "standard"
    ELSE IF "fast" \in {current, incoming} THEN "fast" ELSE None

----------------------------------------------------------------------------
(***************************************************************************)
(* What a fork replayed.                                                   *)
(***************************************************************************)
File == DOMAIN world

Log(f) == world[f].events \o SubSeq(world[f].later, 1, grown[f])

\* The first file listed for a session.
FilesOf(id) == {f \in File : metadata[f].id = id}

IsFork(f) == metadata[f].parent # None

\* Mutant: a file that names itself is its own parent.
ParentOfAny(f) ==
    LET files == FilesOf(metadata[f].parent)
    IN  IF IsFork(f) /\ files # {} THEN CHOOSE p \in files : \A q \in files : p <= q ELSE None

Parent(f) ==
    LET files == FilesOf(metadata[f].parent)
        first == CHOOSE p \in files : \A q \in files : p <= q
    IN  IF IsFork(f) /\ files # {} /\ first # f THEN first ELSE None

Parents == {Parent(f) : f \in File} \ {None}

\* Mutant: the parent's whole history is taken for the fork's.
WholePrefix(f) == IF Parent(f) = None THEN <<>> ELSE parent_usage[Parent(f)]

\* replay_prefix of a fork: the parent's events up to the first after the fork.
Prefix(f) ==
    LET usage == IF Parent(f) = None THEN <<>> ELSE parent_usage[Parent(f)]
        after == {i \in DOMAIN usage : usage[i].at # BadTime /\ usage[i].at > metadata[f].timestamp}
    IN  IF metadata[f].timestamp = None \/ after = {} THEN usage
        ELSE SubSeq(usage, 1, (CHOOSE i \in after : \A j \in after : i <= j) - 1)

\* CodexReplayState.
Matching(index) == [mode |-> "match", index |-> index, previous |-> None]
Skipping(previous) == [mode |-> "burst", index |-> 0, previous |-> previous]
Done == [mode |-> "done", index |-> 0, previous |-> None]

ReplayOf(f) == IF IsFork(f) THEN Matching(0) ELSE Done

Follows(at, previous) == at # BadTime /\ at - previous \in 0..Pause

\* detect_rewritten_burst: the first event, if the second follows it at once.
Burst(f) ==
    LET timed == SelectSeq(Log(f), LAMBDA event : event.at # BadTime)
    IN  IF Len(timed) > 1 /\ Follows(timed[2].at, timed[1].at) THEN Skipping(timed[1].at) ELSE Done

\* The state an event is put to: a match that fails at its start looks for a burst.
Facing(f, replay, event) ==
    IF replay.mode # "match" THEN replay
    ELSE IF replay.index < Len(Prefix(f)) /\ Prefix(f)[replay.index + 1].tokens = event.tokens
         THEN replay
    ELSE IF replay.index = 0 THEN Burst(f) ELSE Done

\* visit_filtered: the state after the event; a state that is done lets the event through.
AfterEvent(f, replay, event) ==
    LET facing == Facing(f, replay, event)
    IN  CASE facing.mode = "match" -> Matching(facing.index + 1)
          [] facing.mode = "burst" /\ Follows(event.at, facing.previous) -> Skipping(event.at)
          [] OTHER -> Done

----------------------------------------------------------------------------
(***************************************************************************)
(* load_groups.                                                            *)
(***************************************************************************)
\* codex_event_key.
Key(f, event) ==
    <<IF kind = "session" THEN world[f].path ELSE "", event.at, event.model, event.tokens>>

\* A session goes on.
Grow(f) ==
    /\ stage \notin {"done", "failed"}
    /\ grown[f] < Len(world[f].later)
    /\ grown' = [grown EXCEPT ![f] = @ + 1]
    /\ UNCHANGED <<world, kind, chunk, stage, metadata, parent_usage, batch, worker, seen, groups>>

ReadMetadata ==
    /\ stage = "metadata"
    /\ stage' = "parents"
    /\ metadata' = [f \in File |-> [id |-> world[f].id, parent |-> world[f].parent,
                                    timestamp |-> world[f].forked_at]]
    /\ UNCHANGED <<world, kind, chunk, grown, parent_usage, batch, worker, seen, groups>>

\* read_parent_usage: a log that is somebody's parent, read unfiltered.
ReadParent(f) ==
    /\ stage = "parents"
    /\ f \in Parents \ DOMAIN parent_usage
    /\ parent_usage' = (f :> Log(f)) @@ parent_usage
    /\ UNCHANGED <<world, kind, chunk, grown, stage, metadata, batch, worker, seen, groups>>

Idle == [file |-> None, opened |-> {}, event |-> 0, replay |-> Done, groups |-> <<>>, failed |-> FALSE]

\* The workers of a source directory start.
StartWorkers ==
    /\ stage = "parents"
    /\ Parents \subseteq DOMAIN parent_usage
    /\ stage' = "work"
    /\ UNCHANGED <<world, kind, chunk, grown, metadata, parent_usage, batch, worker, seen, groups>>

FilesLeft(w) == {f \in File : chunk[f] = w /\ world[f].dir = batch} \ worker[w].opened

ReadOn(w) == worker[w].file # None /\ worker[w].event < Len(Log(worker[w].file))

\* visit_codex_session_file begins with the next file of the worker's chunk; chunks are in the
\* order of the files' sizes.
OpenFile(w) ==
    /\ stage = "work" /\ ~worker[w].failed /\ ~ReadOn(w)
    /\ \E f \in FilesLeft(w) :
          worker' = [worker EXCEPT ![w].file = f, ![w].opened = @ \cup {f}, ![w].event = 0,
                                   ![w].replay = ReplayOf(f)]
    /\ UNCHANGED <<world, kind, chunk, grown, stage, metadata, parent_usage, batch, seen, groups>>

\* add_event_to_groups of an event that is let through: a timestamp that does not parse ends the
\* worker; insert_event_key under the shard's lock; sums only for the first with its key.
AddEvent(w, f, event) ==
    LET key == Key(f, event)
        period == Period(event.at, world[f].path)
    IN  IF event.at = BadTime
        THEN /\ worker' = [worker EXCEPT ![w].failed = TRUE]
             /\ UNCHANGED seen
        ELSE IF key \in DOMAIN seen
        THEN /\ seen' = [seen EXCEPT ![key].tier = MergeTiers(@, event.tier)]
             /\ worker' = [worker EXCEPT ![w].event = @ + 1, ![w].replay = Done]
        ELSE /\ seen' = (key :> [tier |-> event.tier, path |-> world[f].path]) @@ seen
             /\ worker' = [worker EXCEPT
                    ![w].event = @ + 1, ![w].replay = Done,
                    ![w].groups = IF InRange(DayOf(event.at))
                                  THEN AddTo(@, <<period, event.model>>, Usage(event)) ELSE @]

Visit(w) ==
    /\ stage = "work" /\ ~worker[w].failed /\ ReadOn(w)
    /\ LET f == worker[w].file
           event == Log(f)[worker[w].event + 1]
           after == AfterEvent(f, worker[w].replay, event)
       IN  IF after = Done THEN AddEvent(w, f, event)
           ELSE /\ worker' = [worker EXCEPT ![w].event = @ + 1, ![w].replay = after]
                /\ UNCHANGED seen
    /\ UNCHANGED <<world, kind, chunk, grown, stage, metadata, parent_usage, batch, groups>>

Over(w) == worker[w].failed \/ (~ReadOn(w) /\ FilesLeft(w) = {})

MergedGroups ==
    FoldLeft(LAMBDA sums, w : Merge(sums, worker[w].groups), groups, [w \in Worker |-> w])

Dirs == {world[f].dir : f \in File}

AnyFailed == \E w \in Worker : worker[w].failed

\* The scope ends with its workers: their sums are merged, or the first error is returned.
JoinWorkers ==
    /\ stage = "work"
    /\ \A w \in Worker : Over(w)
    /\ IF AnyFailed
       THEN stage' = "failed" /\ UNCHANGED <<groups, batch>>
       ELSE /\ groups' = MergedGroups
            /\ stage' = IF \E d \in Dirs : d > batch THEN "work" ELSE "tiers"
            /\ batch' = IF \E d \in Dirs : d > batch THEN batch + 1 ELSE batch
    /\ worker' = [w \in Worker |-> Idle]
    /\ UNCHANGED <<world, kind, chunk, grown, metadata, parent_usage, seen>>

\* apply_recorded_usage_entries of one record.
Apply(key, sums) ==
    LET group == <<Period(key[2], seen[key].path), key[3]>>
    IN  IF InRange(DayOf(key[2])) /\ group \in DOMAIN sums
        THEN AddTo(sums, group, Recorded(seen[key].tier, key[4]))
        ELSE sums

ApplyTiers ==
    /\ stage = "tiers"
    /\ stage' = "done"
    /\ groups' = FoldSet(Apply, groups, DOMAIN seen)
    /\ UNCHANGED <<world, kind, chunk, grown, metadata, parent_usage, batch, worker, seen>>

----------------------------------------------------------------------------
CXInit ==
    /\ world \in Worlds
    /\ kind \in Kinds
    /\ chunk \in [DOMAIN world -> Worker]
    /\ grown = [f \in DOMAIN world |-> 0]
    /\ stage = "metadata"
    /\ metadata = <<>>
    /\ parent_usage = <<>>
    /\ batch = 1
    /\ worker = [w \in Worker |-> Idle]
    /\ seen = <<>>
    /\ groups = <<>>

Load ==
    \/ ReadMetadata \/ StartWorkers \/ JoinWorkers \/ ApplyTiers
    \/ \E f \in File : stage = "parents" /\ ReadParent(f)
    \/ \E w \in Worker : stage = "work" /\ (OpenFile(w) \/ Visit(w))

CXNext == Load \/ \E f \in File : Grow(f)

CXSpec == CXInit /\ [][CXNext]_cxvars

----------------------------------------------------------------------------
(***************************************************************************)
(* The route of a report with a range (load_codex_events in loader.rs):    *)
(* all events in the order of the files, the first of each key kept,       *)
(* filtered and summed up.                                                 *)
(***************************************************************************)
FilteredEvents(f) ==
    FoldLeft(LAMBDA acc, event :
                LET after == AfterEvent(f, acc.replay, event)
                IN  [replay |-> after,
                     kept |-> IF after = Done THEN Append(acc.kept, event) ELSE acc.kept],
             [replay |-> ReplayOf(f), kept |-> <<>>], Log(f)).kept

\* dedupe_codex_events.
Deduped(events) ==
    LET same(a, b) == a.at = b.at /\ a.model = b.model /\ a.tokens = b.tokens
        copies(e) == SelectSeq(events, LAMBDA other : same(e, other))
        firsts == {i \in DOMAIN events : \A j \in 1..(i - 1) : ~same(events[i], events[j])}
    IN  {[events[i] EXCEPT !.tier =
            FoldLeft(LAMBDA tier, e : MergeTiers(tier, e.tier), None, copies(events[i]))] : i \in firsts}

\* aggregate_events of the deduplicated events in range.
EventGroups ==
    LET events == Deduped(FlattenSeq([f \in File |-> FilteredEvents(f)]))
        kept == {e \in events : InRange(DayOf(e.at))}
    IN  FoldSet(LAMBDA e, sums : AddTo(sums, <<DayOf(e.at), e.model>>,
                                       Plus(Usage(e), Recorded(e.tier, e.tokens))),
                <<>>, kept)

----------------------------------------------------------------------------
\* What the sessions owe for the events written so far: each request once, in the session or on
\* the day it was made, with the tier any copy of it records.
Requests(logs) == {e.request : e \in {x \in UNION {ToSet(logs[f]) : f \in File} : x.own}}

Copies(logs, r, p) ==
    {e \in UNION {ToSet(logs[f]) : f \in {g \in File : Period(0, world[g].path) = p \/ kind # "session"}} :
        e.own /\ e.request = r /\ InRange(DayOf(e.at)) /\ (kind = "session" \/ DayOf(e.at) = p)}

Owed(logs, p, m) ==
    LET due(r) == LET copies == {e \in Copies(logs, r, p) : e.model = m}
                      tiers == {e.tier : e \in copies}
                      e == CHOOSE x \in copies : TRUE
                  IN  IF copies = {} THEN NoUsage
                      ELSE Plus(Usage(e), Recorded(IF "standard" \in tiers THEN "standard"
                                                   ELSE IF "fast" \in tiers THEN "fast" ELSE None,
                                                   e.tokens))
    IN  FoldSet(LAMBDA r, sum : Plus(sum, due(r)), NoUsage, Requests(logs))

AtMost(u, v) == \A k \in DOMAIN u : u[k] <= v[k]

WrittenBefore == [f \in File |-> world[f].events]
WrittenByNow == [f \in File |-> Log(f)]

PeriodsAndModels ==
    DOMAIN groups \cup
    UNION {{<<Period(e.at, world[f].path), e.model>> : e \in ToSet(WrittenBefore[f])} : f \in File}

\* However the workers interleave with each other and with sessions that go on, a request is counted
\* once with its tier: what forks replayed, what another log has as well and what its parent
\* spent after a fork notwithstanding.
CountedOnce ==
    stage = "done" => \A key \in PeriodsAndModels :
        /\ AtMost(Owed(WrittenBefore, key[1], key[2]), At(groups, key))
        /\ AtMost(At(groups, key), Owed(WrittenByNow, key[1], key[2]))

\* Over logs at rest, a report by days comes to the same by both routes.
RoutesAgree ==
    stage = "done" /\ kind = "daily" /\ (\A f \in File : grown[f] = 0) => groups = EventGroups

=============================================================================
