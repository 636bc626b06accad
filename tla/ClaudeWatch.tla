---------------------------- MODULE ClaudeWatch ----------------------------
(***************************************************************************)
(* The incremental index over Claude's JSONL logs                          *)
(* (rust/adapters/claude/src/watch.rs), with the agents that write those   *)
(* logs.  The live view and the resident daemon both own one.              *)
(*                                                                         *)
(* A poll lists the logs, and reads the changed ones while the agents go   *)
(* on appending, rewriting, renaming over and deleting them.  An append    *)
(* feeds the new bytes; anything else rebuilds the whole index.            *)
(***************************************************************************)
EXTENDS ClaudeDedup, FiniteSets

CONSTANTS
    NumFiles,       \* log paths, numbered by their place in a sorted listing
    ProjectOf,      \* project named by each path
    SessionOf,      \* session named by each path
    Session,        \* session ids
    Line,           \* log lines
    RecordsOf,      \* usage records of each line: none, one, or one per advisor call
    NL,             \* the newline byte
    Rewrites,       \* contents a log may be rewritten to
    InitialDisks,   \* the logs when the index is seeded
    MaxClock,       \* bound on the changes agents make to the logs
    Gone            \* no such file, no cursor, no snapshot

File == 1 .. NumFiles

\* What a line says; the project comes from the path it is read from.
Record == [id: Message \cup {None}, req: Request \cup {None}, side: BOOLEAN,
           tokens: Nat, cost: Nat, speed: BOOLEAN, date: Date, model: Model \cup {None}]

Bytes == Seq(Line \cup {NL})

ImageOf(bytes) == [ino: 0 .. MaxClock, changed: 0 .. MaxClock, bytes: bytes]

Stamps == [size: Nat, changed: 0 .. MaxClock, ino: 0 .. MaxClock]

Cursors == [offset: Nat, tail: Bytes, stamp: Stamps, prefix: Bytes]

ASSUME WatchAssumption ==
    /\ NumFiles \in Nat \ {0}
    /\ ProjectOf \in [File -> Project]
    /\ SessionOf \in [File -> Session]
    /\ RecordsOf \in [Line -> Seq(Record)]
    /\ NL \notin Line
    /\ Rewrites \subseteq Bytes
    /\ InitialDisks \subseteq [File -> ImageOf(Bytes) \cup {Gone}]
    /\ \A logs \in InitialDisks, f \in File : logs[f] # Gone => logs[f].changed = 0
    /\ Gone \notin Cursors \cup Bytes
    /\ MaxClock \in Nat

VARIABLES
    disk,           \* the logs: what the agents have written
    clock,          \* the file system's time of the last change
    cursors,        \* per file: what the index has read of it
    known_paths,    \* files a cursor was ever made for
    dd,             \* deduped and deduped_indexes
    deduped_sessions, \* the session each kept entry is credited to
    known_occurrences,   \* per identity: the most copies ever kept at a time
    current_occurrences, \* per identity: copies seen since the last rebuild
    pc,             \* where the polling thread is
    task,           \* what it reads for: "seed", "scan" or "rebuild"
    files,          \* the poll's listing
    todo,           \* files of the listing still to be read
    opened,         \* per file: its stamp when its read began
    snapshots,      \* per file: what the parallel read returned
    pending,        \* entries scanned and not yet offered to the index
    outcomes        \* what the poll will tell its consumer

diskVars == <<disk, clock>>
indexVars == <<dd, deduped_sessions, known_occurrences, current_occurrences>>
cursorVars == <<cursors, known_paths>>
readVars == <<files, todo, opened, snapshots>>
vars == <<diskVars, cursorVars, indexVars, readVars, pc, task, pending, outcomes>>

----------------------------------------------------------------------------
(***************************************************************************)
(* Files.  A log alternates line and newline bytes; the last line may not  *)
(* have its newline yet.  A stamp carries the size, the times and the      *)
(* inode; every change of a file gives it a later change time.             *)
(***************************************************************************)
Image(ino, changed, bytes) == [ino |-> ino, changed |-> changed, bytes |-> bytes]

\* Mutant: the times are left out.
UntimedStamp(image) == [size |-> Len(image.bytes), changed |-> 0, ino |-> image.ino]

Stamp(image) == [size |-> Len(image.bytes), changed |-> image.changed, ino |-> image.ino]

Present == {f \in File : disk[f] # Gone}

\* How many of these bytes the newlines close.
Terminated(bytes) == Len(bytes) - (IF bytes # <<>> /\ Last(bytes) # NL THEN 1 ELSE 0)

Drop(s, n) == SubSeq(s, n + 1, Len(s))

\* An entry of a record read from the file f, and the session it is credited to.
EntryOf(r, f) ==
    [id |-> r.id, req |-> r.req, side |-> r.side, tokens |-> r.tokens, cost |-> r.cost,
     speed |-> r.speed, date |-> r.date, model |-> r.model, project |-> ProjectOf[f]]

Scanned == [entry: Entry, session: Session]

\* The entries of the terminated lines among these bytes of the file f.
ScanLines(f, bytes) ==
    LET records == FlattenSeq([i \in 1 .. Terminated(bytes) |->
                                  IF bytes[i] = NL THEN <<>> ELSE RecordsOf[bytes[i]]])
    IN  [i \in DOMAIN records |-> [entry |-> EntryOf(records[i], f), session |-> SessionOf[f]]]

\* usage_identity: one response of the API, or, without its id, one line's content.
Identity(entry, session) ==
    IF entry.id # None THEN <<"message", entry.id, entry.req>>
    ELSE <<"content", entry, session>>

Identities ==
    {Identity(EntryOf(r, f), SessionOf[f]) :
        r \in UNION {ToSet(RecordsOf[l]) : l \in Line}, f \in File}

----------------------------------------------------------------------------
(***************************************************************************)
(* Agents.  Each change advances the clock; MaxClock bounds them.          *)
(***************************************************************************)
Change(f, image) ==
    /\ clock < MaxClock
    /\ clock' = clock + 1
    /\ disk' = [disk EXCEPT ![f] = image]
    /\ UNCHANGED <<cursorVars, indexVars, readVars, pc, task, pending, outcomes>>

\* An agent appends a whole line, or only its bytes before the newline.
AppendLine(f) ==
    /\ f \in Present
    /\ Terminated(disk[f].bytes) = Len(disk[f].bytes)
    /\ \E l \in Line, end \in {<<NL>>, <<>>} :
          Change(f, Image(disk[f].ino, clock + 1, Append(disk[f].bytes, l) \o end))

\* It appends the newline it owed.
EndLine(f) ==
    /\ f \in Present
    /\ Terminated(disk[f].bytes) < Len(disk[f].bytes)
    /\ Change(f, Image(disk[f].ino, clock + 1, Append(disk[f].bytes, NL)))

\* A log is truncated or rewritten in place.
Rewrite(f) ==
    /\ f \in Present
    /\ \E bytes \in Rewrites \ {disk[f].bytes} :
          Change(f, Image(disk[f].ino, clock + 1, bytes))

\* A new file is created, or renamed over the log.
Replace(f) ==
    \E bytes \in Rewrites : Change(f, Image(clock + 1, clock + 1, bytes))

Delete(f) ==
    /\ f \in Present
    /\ Change(f, Gone)

Agent == \E f \in File : AppendLine(f) \/ EndLine(f) \/ Rewrite(f) \/ Replace(f) \/ Delete(f)

----------------------------------------------------------------------------
(***************************************************************************)
(* Listing.  `seed` runs once; every later poll starts at PollPaths.       *)
(***************************************************************************)
StartReads(kind, listing) ==
    /\ pc' = "read"
    /\ task' = kind
    /\ files' = listing
    /\ todo' = listing
    /\ opened' = [f \in File |-> Gone]
    /\ snapshots' = [f \in File |-> Gone]

Seed ==
    /\ pc = "boot"
    /\ StartReads("seed", Present)
    /\ UNCHANGED <<diskVars, cursorVars, indexVars, pending, outcomes>>

\* Mutant: a file that left the listing goes unnoticed.
ReturnNeedsReset == \E f \in Present : f \in known_paths /\ cursors[f] = Gone

\* A cursor whose file left the listing, or a file that came back to it.
ListingNeedsReset ==
    \/ \E f \in File : cursors[f] # Gone /\ f \notin Present
    \/ \E f \in Present : f \in known_paths /\ cursors[f] = Gone

PollPaths ==
    /\ pc = "idle"
    /\ StartReads(IF ListingNeedsReset THEN "rebuild" ELSE "scan", Present)
    /\ UNCHANGED <<diskVars, cursorVars, indexVars, pending, outcomes>>

----------------------------------------------------------------------------
(***************************************************************************)
(* Reading.  A scan takes the listing's files one at a time in order; a    *)
(* seed or a rebuild reads them all at once on worker threads.  A read     *)
(* counts only if the file's stamp is the same before and after it.        *)
(***************************************************************************)
IsNext(f) == pc = "read" /\ f \in todo /\ (task = "scan" => f = Min(todo))

\* poll_file's early returns: the file is gone, or its stamp is the cursor's.
Unchanged(f) ==
    f \in Present => cursors[f] # Gone /\ cursors[f].stamp = Stamp(disk[f])

SkipFile(f) ==
    /\ IsNext(f)
    /\ task = "scan" /\ opened[f] = Gone
    /\ Unchanged(f)
    /\ todo' = todo \ {f}
    /\ UNCHANGED <<diskVars, cursorVars, indexVars, files, opened, snapshots, pc, task,
                   pending, outcomes>>

OpenFile(f) ==
    /\ IsNext(f)
    /\ opened[f] = Gone
    /\ f \in Present
    /\ task = "scan" => ~Unchanged(f)
    /\ opened' = [opened EXCEPT ![f] = Stamp(disk[f])]
    /\ UNCHANGED <<diskVars, cursorVars, indexVars, files, todo, snapshots, pc, task,
                   pending, outcomes>>

\* read_snapshot's answer for an opened file: its image, or none if it changed meanwhile.
\* Renaming over the open file or removing it changes its change time too.
Coherent(f) == f \in Present /\ opened[f] = Stamp(disk[f])

\* The read comes back with nothing: the file was missing, or changed while it was read.
ReadNothing(f) ==
    /\ IsNext(f)
    /\ IF opened[f] = Gone THEN f \notin Present /\ task # "scan" ELSE ~Coherent(f)
    /\ todo' = todo \ {f}
    /\ UNCHANGED <<diskVars, cursorVars, indexVars, files, opened, snapshots, pc, task,
                   pending, outcomes>>

\* A parallel reader returns its snapshot.
ReadSnapshot(f) ==
    /\ IsNext(f) /\ task # "scan"
    /\ opened[f] # Gone /\ Coherent(f)
    /\ snapshots' = [snapshots EXCEPT ![f] = disk[f]]
    /\ todo' = todo \ {f}
    /\ UNCHANGED <<diskVars, cursorVars, indexVars, files, opened, pc, task, pending, outcomes>>

----------------------------------------------------------------------------
(***************************************************************************)
(* Feeding.  A cursor's tail keeps the bytes after the last newline; the   *)
(* hash of the prefix it has consumed is modelled by the prefix.           *)
(***************************************************************************)
NewCursor == [offset |-> 0, tail |-> <<>>, stamp |-> Gone, prefix |-> <<>>]

Position(cursor) == cursor.offset + Len(cursor.tail)

CursorAt(f) == IF cursors[f] = Gone THEN NewCursor ELSE cursors[f]

\* feed_snapshot: the cursor once the image's bytes after `position` are fed to it ...
Advance(cursor, image, position) ==
    LET bytes == cursor.tail \o Drop(image.bytes, position)
    IN  [offset |-> cursor.offset + Terminated(bytes),
         tail |-> Drop(bytes, Terminated(bytes)),
         stamp |-> Stamp(image),
         prefix |-> image.bytes]

\* ... and the entries of the lines those bytes complete.
Fed(f, cursor, image, position) ==
    ScanLines(f, cursor.tail \o Drop(image.bytes, position))

\* Mutant: the file is recognised by its size and inode alone.
PrefixTrusted(f) ==
    /\ Len(disk[f].bytes) >= Position(cursors[f])
    /\ cursors[f].stamp.ino = disk[f].ino

\* The consumed prefix is still there, in the same file.
PrefixIntact(f) ==
    LET position == Position(cursors[f]) IN
    /\ Len(disk[f].bytes) >= position
    /\ cursors[f].stamp # Gone
    /\ cursors[f].stamp.ino = disk[f].ino
    /\ cursors[f].prefix = SubSeq(disk[f].bytes, 1, position)

\* poll_file reads a grown or a new file and feeds what is new in it.
FeedFile(f) ==
    /\ IsNext(f) /\ task = "scan"
    /\ opened[f] # Gone /\ Coherent(f)
    /\ cursors[f] # Gone => PrefixIntact(f)
    /\ LET position == Position(CursorAt(f)) IN
       /\ cursors' = [cursors EXCEPT ![f] = Advance(CursorAt(f), disk[f], position)]
       /\ pending' = Fed(f, CursorAt(f), disk[f], position)
    /\ known_paths' = known_paths \cup {f}
    /\ todo' = todo \ {f}
    /\ pc' = "feed"
    /\ UNCHANGED <<diskVars, indexVars, files, opened, snapshots, task, outcomes>>

\* poll_file finds history changed: the scan stops and the whole listing is read again.
FindRewritten(f) ==
    /\ IsNext(f) /\ task = "scan"
    /\ opened[f] # Gone /\ Coherent(f)
    /\ cursors[f] # Gone /\ ~PrefixIntact(f)
    /\ StartReads("rebuild", files)
    /\ UNCHANGED <<diskVars, cursorVars, indexVars, pending, outcomes>>

\* The snapshots a seed or a rebuild feeds, in listing order.
FedSnapshots ==
    FlattenSeq([f \in File |->
        IF snapshots[f] = Gone THEN <<>> ELSE Fed(f, NewCursor, snapshots[f], 0)])

CursorsOfSnapshots ==
    [f \in File |-> IF snapshots[f] = Gone THEN Gone ELSE Advance(NewCursor, snapshots[f], 0)]

\* seed_files: whatever could be read is fed.
FeedSeed ==
    /\ pc = "read" /\ task = "seed" /\ todo = {}
    /\ cursors' = CursorsOfSnapshots
    /\ known_paths' = known_paths \cup {f \in File : snapshots[f] # Gone}
    /\ pending' = FedSnapshots
    /\ pc' = "feed"
    /\ UNCHANGED <<diskVars, indexVars, readVars, task, outcomes>>

AllRead == \A f \in files : snapshots[f] # Gone

\* rebuild: with every listed file read, the index starts again from nothing.
Rebuild ==
    /\ pc = "read" /\ task = "rebuild" /\ todo = {}
    /\ AllRead
    /\ cursors' = CursorsOfSnapshots
    /\ known_paths' = known_paths \cup files
    /\ dd' = EmptyIndex
    /\ deduped_sessions' = <<>>
    /\ current_occurrences' = [k \in Identities |-> 0]
    /\ pending' = FedSnapshots
    /\ pc' = "feed"
    /\ UNCHANGED <<diskVars, known_occurrences, readVars, task, outcomes>>

\* rebuild: a file could not be read, so everything stays and the next poll tries again.
RetryLater ==
    /\ pc = "read" /\ task = "rebuild" /\ todo = {}
    /\ ~AllRead
    /\ pc' = "deliver"
    /\ UNCHANGED <<diskVars, cursorVars, indexVars, readVars, task, pending, outcomes>>

EndScan ==
    /\ pc = "read" /\ task = "scan" /\ todo = {}
    /\ pc' = "deliver"
    /\ UNCHANGED <<diskVars, cursorVars, indexVars, readVars, task, pending, outcomes>>

----------------------------------------------------------------------------
(***************************************************************************)
(* feed_bytes' loop: one scanned entry goes through the deduplication.  A  *)
(* rebuild's sink drops what the entries come to.                          *)
(***************************************************************************)
\* Mutant: what comes back is taken for new.
AddedAsNew(e, s, historical) ==
    [kind |-> "Added", index |-> Place(dd, e), entry |-> e, session |-> s, historical |-> FALSE]

\* Mutant: what is new is taken for history.
AddedAsHistory(e, s, historical) ==
    [kind |-> "Added", index |-> Place(dd, e), entry |-> e, session |-> s, historical |-> TRUE]

AddedOutcome(e, s, historical) ==
    [kind |-> "Added", index |-> Place(dd, e), entry |-> e, session |-> s,
     historical |-> historical]

ReplacedOutcome(e, s) ==
    LET at == Place(dd, e) IN
    [kind |-> "Replaced", index |-> at, previous |-> dd.entries[at], entry |-> e,
     session |-> s, previous_session |-> deduped_sessions[at]]

Sink(outcome) == outcomes' = IF task = "rebuild" THEN outcomes ELSE Append(outcomes, outcome)

AtLeastOne(n) == IF n = 0 THEN 1 ELSE n

FeedEntry ==
    /\ pc = "feed" /\ pending # <<>>
    /\ LET e == Head(pending).entry
           s == Head(pending).session
           k == Identity(e, s)
           seen == current_occurrences[k] + 1
       IN
       /\ dd' = PushDeduped(dd, e)
       /\ \/ /\ Outcome(dd, e) = "Added"
             /\ current_occurrences' = [current_occurrences EXCEPT ![k] = seen]
             /\ known_occurrences' = [known_occurrences EXCEPT ![k] = Max({@, seen})]
             /\ deduped_sessions' = Append(deduped_sessions, s)
             /\ Sink(AddedOutcome(e, s, seen <= known_occurrences[k]))
          \/ /\ Outcome(dd, e) # "Added"
             /\ current_occurrences' = [current_occurrences EXCEPT ![k] = AtLeastOne(@)]
             /\ known_occurrences' = [known_occurrences EXCEPT ![k] = AtLeastOne(@)]
             /\ IF Outcome(dd, e) = "Replaced"
                THEN /\ deduped_sessions' = [deduped_sessions EXCEPT ![Place(dd, e)] = s]
                     /\ Sink(ReplacedOutcome(e, s))
                ELSE UNCHANGED <<deduped_sessions, outcomes>>
    /\ pending' = Tail(pending)
    /\ UNCHANGED <<diskVars, cursorVars, readVars, pc, task>>

\* All fed: a scan goes on to its next file, a seed or a rebuild tells its consumer.
EndFeed ==
    /\ pc = "feed" /\ pending = <<>>
    /\ pc' = IF task = "scan" THEN "read" ELSE "deliver"
    /\ outcomes' = IF task = "rebuild" THEN <<[kind |-> "Reset"]>> ELSE outcomes
    /\ UNCHANGED <<diskVars, cursorVars, indexVars, readVars, task, pending>>

----------------------------------------------------------------------------
\* The consumer takes the outcomes one by one once the poll is over; then it sleeps.
Deliver ==
    /\ pc = "deliver" /\ outcomes # <<>>
    /\ outcomes' = Tail(outcomes)
    /\ UNCHANGED <<diskVars, cursorVars, indexVars, readVars, pc, task, pending>>

Sleep ==
    /\ pc = "deliver" /\ outcomes = <<>>
    /\ pc' = "idle"
    /\ files' = {} /\ todo' = {}
    /\ opened' = [f \in File |-> Gone]
    /\ snapshots' = [f \in File |-> Gone]
    /\ UNCHANGED <<diskVars, cursorVars, indexVars, task, pending, outcomes>>

\* What the polling thread does between the start of a poll and the end of its feeds.
Reading ==
    \/ \E f \in File : \/ SkipFile(f) \/ OpenFile(f) \/ ReadNothing(f) \/ ReadSnapshot(f)
                       \/ FeedFile(f) \/ FindRewritten(f)
    \/ FeedSeed \/ Rebuild \/ RetryLater \/ EndScan
    \/ FeedEntry \/ EndFeed

Index == Seed \/ PollPaths \/ Reading \/ Deliver \/ Sleep

Init ==
    /\ disk \in InitialDisks
    /\ clock = 0
    /\ cursors = [f \in File |-> Gone]
    /\ known_paths = {}
    /\ dd = EmptyIndex
    /\ deduped_sessions = <<>>
    /\ known_occurrences = [k \in Identities |-> 0]
    /\ current_occurrences = [k \in Identities |-> 0]
    /\ pc = "boot"
    /\ task = "seed"
    /\ files = {} /\ todo = {}
    /\ opened = [f \in File |-> Gone]
    /\ snapshots = [f \in File |-> Gone]
    /\ pending = <<>>
    /\ outcomes = <<>>

Next == Agent \/ Index

\* The polling loop never stops; the agents may.
Spec == Init /\ [][Next]_vars /\ WF_vars(Index)
----------------------------------------------------------------------------
(***************************************************************************)
(* Properties.                                                             *)
(***************************************************************************)
\* The index's state has the shape the code's types give it.
TypeOK ==
    /\ disk \in [File -> ImageOf(Bytes) \cup {Gone}]
    /\ clock \in 0 .. MaxClock
    /\ cursors \in [File -> Cursors \cup {Gone}]
    /\ known_paths \subseteq File
    /\ dd.entries \in Seq(Entry)
    /\ dd.indexes \in [Key -> Seq(1 .. Len(dd.entries))]
    /\ deduped_sessions \in Seq(Session)
    /\ Len(deduped_sessions) = Len(dd.entries)
    /\ known_occurrences \in [Identities -> Nat]
    /\ current_occurrences \in [Identities -> Nat]
    /\ pc \in {"boot", "idle", "read", "feed", "deliver"}
    /\ task \in {"seed", "scan", "rebuild"}
    /\ files \subseteq File /\ todo \subseteq files
    /\ opened \in [File -> Stamps \cup {Gone}]
    /\ snapshots \in [File -> ImageOf(Bytes) \cup {Gone}]
    /\ pending \in Seq(Scanned)

\* An API response is counted once: no two kept entries share a message and request id, and a
\* sidechain's copy is kept only while it is the only entry of its message.
OneEntryPerResponse == OneEach(dd)

EntriesIn(bytesOf) ==
    LET scanned == FlattenSeq([f \in File |->
                       IF bytesOf[f] = Gone THEN <<>> ELSE ScanLines(f, bytesOf[f])])
    IN  [i \in DOMAIN scanned |-> scanned[i].entry]

\* Whatever the logs become, an index not in the middle of a feed keeps exactly what a scan of
\* the prefixes its cursors claim keeps: a poll that had to give up, on an append or on a
\* rebuild, lost nothing and counted nothing twice.
IndexMatchesCursors ==
    pc # "feed" =>
        Winners(dd.entries) =
        Winners(ScanFresh(EntriesIn([f \in File |->
            IF cursors[f] = Gone THEN Gone ELSE cursors[f].prefix])).entries)

\* Every file is read up to its present stamp, and no other file is.
InSync ==
    \A f \in File :
        IF f \in Present THEN cursors[f] # Gone /\ cursors[f].stamp = Stamp(disk[f])
                         ELSE cursors[f] = Gone

\* An index with nothing left to read keeps what a fresh scan of the logs would.
IndexMatchesDisk ==
    pc # "feed" /\ InSync =>
        Winners(dd.entries) =
        Winners(ScanFresh(EntriesIn([f \in File |->
            IF f \in Present THEN disk[f].bytes ELSE Gone])).entries)

\* Once the agents rest, polling brings the index up to date and it stays so.
CatchesUp == <>[]InSync
=============================================================================
