----------------------------- MODULE AgentLoaders ----------------------------
(***************************************************************************)
(* The loaders of the other agents' logs and databases (load_entries of    *)
(* rust/adapters/<agent>): sources are read by threads while the agent     *)
(* goes on, what they hold is put together in the order of the sources,    *)
(* records of the same usage are told apart each agent's way, and the      *)
(* report keeps what is in range.                                          *)
(*                                                                         *)
(* A record is what its line or row comes to.  It knows the requests whose *)
(* usage it tells of, by which the loaders cannot tell it.                 *)
(***************************************************************************)
EXTENDS CopilotWays, Integers, SequencesExt, FiniteSetsExt, TLC

CONSTANTS
    Installs,       \* what there may be: an agent and its sources in the order they are listed
    Day,            \* MILLIS_PER_DAY
    MinMillis,      \* MIN_MILLIS_SCALE
    Sampled,        \* rows time_created_looks_like_millis samples
    Since, Until,   \* the days of the range
    MaxFaults       \* bound on sources that cannot be read

VARIABLES
    install,        \* the agent and its sources
    version,        \* per source: how far it is written
    reading,        \* the batch of sources being read
    got,          \* per source read: the version that was read, 0 if none could be
    content,        \* per source read: its records
    entries,        \* what is loaded, with what the deduplication remembers
    ended           \* "no", or how the load ended

agvars == <<install, version, reading, got, content, entries, ended>>

Agent == install.agent
Source == DOMAIN install.sources
Written(i) == install.sources[i].versions[version[i]]

DayOf(at) == at \div Day

InRange(record) == DayOf(record.at) \in Since..Until

----------------------------------------------------------------------------
(***************************************************************************)
(* OpenCode reads a range only (DateWindow in opencode/src/loader.rs).     *)
(***************************************************************************)
\* DateWindow::from_shared.
Window == [start |-> Since * Day, end |-> (Until + 1) * Day]

\* widened_for_pushdown.
Widened(window) == [start |-> window.start - Day, end |-> window.end + Day]

Within(window, at) == window.start <= at /\ at < window.end

\* time_created_looks_like_millis.
LooksLikeMillis(rows) ==
    \E i \in 1..(IF Len(rows) < Sampled THEN Len(rows) ELSE Sampled) : rows[i].column >= MinMillis

\* What extract_message_timestamp finds in the text may be nothing; the row is parsed then.
MayBeInWindow(record) == record.shown = None \/ Within(Window, record.shown)

\* load_entries_from_database.
OpenCodeRows(rows) ==
    SelectSeq(rows, LAMBDA row :
        /\ LooksLikeMillis(rows) => Within(Widened(Window), row.column)
        /\ MayBeInWindow(row))

----------------------------------------------------------------------------
\* Copilot's records that are not told of in a better way (parse_otel_file).
CopilotEntries(records) == SelectSeq(records, LAMBDA record : Emitted(record, records))

----------------------------------------------------------------------------
\* What a source's records come to when it is read.
Parsed(i, records) ==
    CASE Agent = "opencode" /\ install.sources[i].db -> OpenCodeRows(records)
      [] Agent = "opencode" /\ ~install.sources[i].db -> SelectSeq(records, MayBeInWindow)
      [] Agent = "copilot" -> CopilotEntries(records)
      [] OTHER -> records

----------------------------------------------------------------------------
(***************************************************************************)
(* Records of the same usage.                                              *)
(***************************************************************************)
\* entry_id, kimi_entry_key, dedup_key, or the id of a message or session; of the token fields
\* and the cost one number is kept.
Key(i, record) ==
    CASE Agent \in {"opencode", "kilo", "zcode"} -> <<record.id>>
      [] Agent = "pi" -> <<record.project, record.session, record.at, record.tokens>>
      [] Agent \in {"openclaw", "qwen"} -> <<record.session, record.at, record.tokens>>
      [] Agent = "kimi" -> <<record.session, record.id, record.at, record.tokens>>
      [] Agent \in {"hermes", "droid"} -> <<record.session>>
      [] Agent = "goose" -> <<i, record.session>>
      [] Agent = "codebuff" -> <<record.session, record.id>>
      [] OTHER -> <<None>>

\* The loaders of OpenCode and Copilot keep every record without an id.
Keyed(record) == Agent # "copilot" /\ (Agent = "opencode" => record.id # None)

Keys(loaded) == {loaded[n].key : n \in {m \in DOMAIN loaded : loaded[m].keyed}}

\* The first record with a key is kept.
FirstWins(loaded, entry) ==
    IF entry.keyed /\ entry.key \in Keys(loaded) THEN loaded ELSE Append(loaded, entry)

\* Codebuff: the last record with a key is kept.
LastWins(loaded, entry) ==
    Append(SelectSeq(loaded, LAMBDA other : other.key # entry.key), entry)

\* Droid: of a session's snapshots the latest is kept, the last one of equals.
LatestWins(loaded, entry) ==
    IF \E n \in DOMAIN loaded : loaded[n].key = entry.key /\ loaded[n].record.at > entry.record.at
    THEN loaded ELSE LastWins(loaded, entry)

----------------------------------------------------------------------------
(***************************************************************************)
(* Antigravity: records that share an identity are merged, and so are      *)
(* those another record connects (deduplicate_events).                     *)
(***************************************************************************)
\* merge_usage_event.
MergedRecord(target, duplicate) ==
    [target EXCEPT
        !.tokens = IF duplicate.tokens > @ THEN duplicate.tokens ELSE @,
        !.at = IF duplicate.rank > target.rank \/ (duplicate.rank = target.rank /\ duplicate.at < @)
               THEN duplicate.at ELSE @,
        !.rank = IF duplicate.rank > @ THEN duplicate.rank ELSE @,
        !.identities = @ \cup duplicate.identities,
        !.tells = @ \cup duplicate.tells]

NoSlots == [slots |-> <<>>, index |-> <<>>]

\* Mutant: the identities a merge brings along keep pointing to the slot it emptied.
OwnIdentities(target, event) == event.identities

\* The identities that point to the target when an event is merged into it.
Repointed(target, event) == target.identities

\* One event: a slot of its own, or the first slot that knows one of its identities, into which
\* the other slots that know one are emptied.  A target that is empty is a panic.
AddEvent(known, event) ==
    LET matching == {known.index[k] : k \in event.identities \cap DOMAIN known.index}
        target == Min(matching)
        others == {n \in matching \ {target} : known.slots[n] # None}
        merged == MergedRecord(FoldSet(LAMBDA n, record : MergedRecord(record, known.slots[n][1]),
                                       known.slots[target][1], others), event)
    IN  IF known = None \/ (matching # {} /\ known.slots[Min(matching)] = None) THEN None
        ELSE IF matching = {}
        THEN [slots |-> Append(known.slots, <<event>>),
              index |-> [k \in event.identities |-> Len(known.slots) + 1] @@ known.index]
        ELSE [slots |-> [n \in DOMAIN known.slots |->
                            IF n = target THEN <<merged>>
                            ELSE IF n \in others THEN None ELSE known.slots[n]],
              index |-> [k \in Repointed(merged, event) |-> target] @@ known.index]

DeduplicatedEvents(events) == FoldLeft(AddEvent, NoSlots, events)

----------------------------------------------------------------------------
\* Batches: a directory's database and its files after it (OpenCode), or all sources.
BatchOf(i) ==
    IF Agent = "opencode"
    THEN 2 * install.sources[i].root - (IF install.sources[i].db THEN 1 ELSE 0)
    ELSE 1

Batches == {BatchOf(i) : i \in Source}

\* A message's file is passed over if the directory's database has the message.
Covered(i) ==
    /\ Agent = "opencode" /\ ~install.sources[i].db
    /\ \E d \in DOMAIN content :
          /\ install.sources[d].db /\ install.sources[d].root = install.sources[i].root
          /\ \E n \in DOMAIN content[d] : content[d][n].id = install.sources[i].name

ToRead == {i \in Source : BatchOf(i) = reading /\ ~Covered(i)}

\* The agent goes on.
Write(i) ==
    /\ ended = "no"
    /\ version[i] < Len(install.sources[i].versions)
    /\ version' = [version EXCEPT ![i] = @ + 1]
    /\ UNCHANGED <<install, reading, got, content, entries, ended>>

\* A thread of read_files_parallel reads a source.
Read(i) ==
    /\ ended = "no"
    /\ i \in ToRead \ DOMAIN got
    /\ got' = (i :> version[i]) @@ got
    /\ content' = (i :> Parsed(i, Written(i))) @@ content
    /\ UNCHANGED <<install, version, reading, entries, ended>>

Faults == Cardinality({i \in DOMAIN got : got[i] = 0})

\* A file that cannot be read has no records, and a database has those before the row that
\* cannot be read; Antigravity's load fails.
CannotRead(i) ==
    /\ ended = "no"
    /\ i \in ToRead \ DOMAIN got
    /\ Faults < MaxFaults
    /\ got' = (i :> 0) @@ got
    /\ \E n \in 0..(IF install.sources[i].db THEN Len(Parsed(i, Written(i))) ELSE 0) :
          content' = (i :> SubSeq(Parsed(i, Written(i)), 1, n)) @@ content
    /\ ended' = IF Agent = "antigravity" THEN "failed" ELSE ended
    /\ UNCHANGED <<install, version, reading, entries>>

\* The records of a batch in the order of its sources.
BatchEntries ==
    LET of(i) == [n \in DOMAIN content[i] |->
                    [record |-> content[i][n], key |-> Key(i, content[i][n]),
                     keyed |-> Keyed(content[i][n])]]
    IN  FlattenSeq([i \in Source |-> IF i \in ToRead THEN of(i) ELSE <<>>])

Combine(loaded, more) ==
    CASE Agent = "droid" -> FoldLeft(LatestWins, loaded, more)
      [] Agent = "codebuff" -> FoldLeft(LastWins, loaded, more)
      [] OTHER -> FoldLeft(FirstWins, loaded, more)

\* All of a batch is read.
Merge ==
    /\ ended = "no"
    /\ ToRead \subseteq DOMAIN got
    /\ LET more == BatchEntries
           merged == DeduplicatedEvents([n \in DOMAIN more |-> more[n].record])
           rest == IF merged = None THEN <<>> ELSE SelectSeq(merged.slots, LAMBDA slot : slot # None)
       IN  IF Agent = "antigravity"
           THEN /\ entries' = [n \in DOMAIN rest |->
                                [record |-> rest[n][1], key |-> <<None>>, keyed |-> FALSE]]
                /\ ended' = IF merged = None THEN "panicked" ELSE "loaded"
                /\ UNCHANGED reading
           ELSE /\ entries' = Combine(entries, more)
                /\ ended' = IF reading = Max(Batches) THEN "loaded" ELSE "no"
                /\ reading' = IF reading = Max(Batches) THEN reading
                            ELSE Min({b \in Batches : b > reading})
    /\ UNCHANGED <<install, version, got, content>>

----------------------------------------------------------------------------
AGInit ==
    /\ install \in Installs
    /\ version = [i \in DOMAIN install.sources |-> 1]
    /\ reading = Min(Batches)
    /\ got = <<>>
    /\ content = <<>>
    /\ entries = <<>>
    /\ ended = "no"

AGNext == Merge \/ \E i \in Source : Write(i) \/ Read(i) \/ CannotRead(i)

----------------------------------------------------------------------------
\* filter_loaded_entries_by_date.
Reported == {n \in DOMAIN entries : InRange(entries[n].record)}

RecordsOf(i, v) == ToSet(install.sources[i].versions[v])

\* What the sources told before the load began, of sources it could read.
Before == UNION {RecordsOf(i, 1) : i \in {j \in Source : j \in DOMAIN got => got[j] # 0}}

\* A trace is wholly exported in every way it is exported at all.
Complete(trace, records) ==
    LET of(way) == UNION {r.tells : r \in {x \in records : x.trace = trace /\ x.way = way}}
    IN  \A a, b \in {r.way : r \in {x \in records : x.trace = trace}} : of(a) = of(b)

\* A request is owed that was told of before, within the range whoever tells of it.  Copilot owes
\* those of a trace that is wholly exported.
Owed ==
    {q \in UNION {r.tells : r \in Before} :
        \A i \in Source : \A v \in 1..version[i] : \A r \in RecordsOf(i, v) :
            q \in r.tells =>
                /\ InRange(r)
                /\ Agent = "copilot" /\ i \in DOMAIN got /\ got[i] > 0
                        => Complete(r.trace, RecordsOf(i, got[i]))}

\* However the threads interleave with each other and with the agent, a report counts the usage it
\* owes, and no request twice: not one told of in a database and a file, by two sources or in two
\* ways, and not one that a range read from the index alone might miss.  A source that cannot be
\* read costs no more than itself.
EachOnce ==
    /\ ended # "panicked"
    /\ ended = "loaded" =>
        /\ \A m, n \in Reported : m # n => entries[m].record.tells \cap entries[n].record.tells = {}
        /\ Owed \subseteq UNION {entries[n].record.tells : n \in Reported}

=============================================================================
