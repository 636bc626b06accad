---------------------------- MODULE ClaudeReports ----------------------------
(***************************************************************************)
(* The reports of Claude logs: by days (load_daily_summaries_inner in      *)
(* rust/adapters/claude/src/daily.rs) and by weeks and sessions            *)
(* (load_entries_inner in lib.rs, run_weekly and run_session in            *)
(* crates/turbotokens/src/commands/mod.rs).  Either loader deals the logs  *)
(* to threads by size, reads them, and deduplicates what they come to in   *)
(* the order of the listing; each has a deduplication of its own.  Agents  *)
(* go on writing meanwhile.                                                *)
(*                                                                         *)
(* A log is the usage records its lines come to.  A read through the parse *)
(* cache is one of the file (ParseCache).  Of token fields one number is   *)
(* kept.  A message id is the id of a response and 0, or the number of an  *)
(* advisor's answer within it.                                             *)
(***************************************************************************)
EXTENDS ClaudeDedup, FiniteSetsExt, TLC

CONSTANTS
    Listings,       \* the logs there may be, in the order they are listed
    Threads,        \* available_parallelism
    Reports,        \* kinds of report: "daily", "instances", "weekly", "session"
    WeekOf(_),      \* week_start of a day
    Since, Until    \* --since and --until

VARIABLES
    logs,           \* the logs: project, session and records
    report,         \* the kind of report
    filter,         \* --project, or None
    written,        \* how many of a log's records are written
    chunks,         \* per thread: the files it is still to read
    read,           \* per file: its entries, once read
    rows            \* the report's rows, None before there are any

crvars == <<logs, report, filter, written, chunks, read, rows>>

----------------------------------------------------------------------------
(***************************************************************************)
(* chunk_file_indexes_by_size: the largest file first, each to the thread  *)
(* that has least so far.                                                  *)
(***************************************************************************)
Load(sizes, files) == FoldLeft(LAMBDA sum, f : sum + sizes[f], 0, files)

Deal(sizes, hands, f) ==
    LET least == CHOOSE t \in DOMAIN hands : \A u \in DOMAIN hands :
            \/ Load(sizes, hands[t]) < Load(sizes, hands[u])
            \/ Load(sizes, hands[t]) = Load(sizes, hands[u]) /\ t <= u
    IN  [hands EXCEPT ![least] = Append(@, f)]

BySize(sizes) ==
    SetToSortSeq(DOMAIN sizes, LAMBDA f, g : sizes[f] > sizes[g] \/ (sizes[f] = sizes[g] /\ f < g))

Chunks(sizes, count) ==
    SelectSeq(FoldLeft(LAMBDA hands, f : Deal(sizes, hands, f), [t \in 1..count |-> <<>>], BySize(sizes)),
              LAMBDA files : files # <<>>)

----------------------------------------------------------------------------
(***************************************************************************)
(* What the records of a log come to.                                      *)
(***************************************************************************)
File == DOMAIN logs

\* The records of a file's first n lines.
Lines(f, n) == SubSeq(logs[f].records, 1, n)

IsDaily == report \in {"daily", "instances"}

\* Only parse_daily_usage_line takes the messages that agents' progress is wrapped in.
Accepted(record) == IsDaily \/ ~record.nested

\* The entry of a record, and of its advisors' answers.
EntryOf(f, record, number) ==
    LET advisor == number > 0
        id == IF record.id = None THEN None ELSE <<record.id, number>>
    IN  [id |-> id, req |-> record.req, side |-> record.side,
         tokens |-> IF advisor THEN record.advisors[number] ELSE record.tokens,
         cost |-> IF advisor THEN 0 ELSE record.cost,
         speed |-> record.speed, date |-> record.date, utc |-> record.utc,
         project |-> logs[f].project, model |-> None, session |-> logs[f].session]

\* finish_raw_usage_entry, finish_daily_raw_entry_owned.
Finished(f, record) == [i \in 1..(Len(record.advisors) + 1) |-> EntryOf(f, record, i - 1)]

Scanned(f, n) ==
    LET records == SelectSeq(Lines(f, n), Accepted)
    IN  FlattenSeq([i \in DOMAIN records |-> Finished(f, records[i])])

----------------------------------------------------------------------------
(***************************************************************************)
(* The deduplication of lib.rs: it does not look at costs.                 *)
(***************************************************************************)
\* Mutant: the last copy is kept, which may be a sidechain's.
LastWins(candidate, existing) == candidate.tokens >= existing.tokens

ShouldReplaceLoaded(candidate, existing) ==
    IF candidate.side # existing.side
    THEN existing.side
    ELSE \/ candidate.tokens > existing.tokens
         \/ /\ candidate.tokens = existing.tokens
            /\ candidate.speed /\ ~existing.speed

PushLoaded(dd, e) ==
    LET at == ExistingIndex(dd, e) IN
    IF at = 0
    THEN [entries |-> Append(dd.entries, e),
          indexes |-> FileUnder(dd.indexes, e, Len(dd.entries) + 1)]
    ELSE IF ShouldReplaceLoaded(e, dd.entries[at])
    THEN [entries |-> [dd.entries EXCEPT ![at] = e], indexes |-> FileUnder(dd.indexes, e, at)]
    ELSE dd

\* The entries kept of all files', in their order.
Kept(files) ==
    LET wanted == SelectSeq(FlattenSeq(files), LAMBDA e : filter \in {None, e.project})
    IN  FoldLeft(LAMBDA dd, e : IF IsDaily THEN PushDeduped(dd, e) ELSE PushLoaded(dd, e),
                 EmptyIndex, wanted).entries

----------------------------------------------------------------------------
(***************************************************************************)
(* Rows.                                                                   *)
(***************************************************************************)
Total(entries) ==
    [tokens |-> FoldLeft(LAMBDA sum, e : sum + e.tokens, 0, entries),
     cost |-> FoldLeft(LAMBDA sum, e : sum + e.cost, 0, entries)]

Sum(u, v) == [tokens |-> u.tokens + v.tokens, cost |-> u.cost + v.cost]

\* summarize_by_key, and the daily accumulators.
Grouped(entries, KeyOf(_)) ==
    [k \in {KeyOf(e) : e \in ToSet(entries)} |-> Total(SelectSeq(entries, LAMBDA e : KeyOf(e) = k))]

\* date_within_range.
InRange(day) == Since <= day /\ day <= Until

\* filter_and_sort_summaries of rows by days.
Days(entries) ==
    LET days == Grouped(entries, LAMBDA e : e.date)
    IN  [d \in {d \in DOMAIN days : InRange(d)} |-> days[d]]

Instances(entries) ==
    LET days == Grouped(entries, LAMBDA e : <<e.date, e.project>>)
    IN  [k \in {k \in DOMAIN days : InRange(k[1])} |-> days[k]]

\* summarize_summaries_by_bucket.
Weeks(days) ==
    [w \in {WeekOf(d) : d \in DOMAIN days} |->
        FoldSet(LAMBDA d, sum : Sum(sum, days[d]), [tokens |-> 0, cost |-> 0],
                {d \in DOMAIN days : WeekOf(d) = w})]

\* last_activity: a day of UTC, not of the report's timezone.
LastDay(entries, session) == Max({e.utc : e \in {x \in ToSet(entries) : <<x.project, x.session>> = session}})

\* The text of a time on a day comes after the text of that day.
TimeInRange(day) == Since <= day /\ day < Until

\* run_session: sessions last active in the range, unless they used no tokens.
Sessions(entries) ==
    LET all == Grouped(entries, LAMBDA e : <<e.project, e.session>>)
    IN  [k \in {k \in DOMAIN all : TimeInRange(LastDay(entries, k)) /\ all[k].tokens > 0} |-> all[k]]

Rows(entries) ==
    CASE report = "daily" -> Days(entries)
      [] report = "instances" -> Instances(entries)
      [] report = "weekly" -> Weeks(Days(entries))
      [] report = "session" -> Sessions(entries)

----------------------------------------------------------------------------
\* An agent goes on writing.
Write(f) ==
    /\ rows = None
    /\ written[f] < Len(logs[f].records)
    /\ written' = [written EXCEPT ![f] = @ + 1]
    /\ UNCHANGED <<logs, report, filter, chunks, read, rows>>

\* The files are measured and dealt.
StartReaders ==
    /\ chunks = None
    /\ chunks' = Chunks(written, Min({Threads, Len(logs)}))
    /\ UNCHANGED <<logs, report, filter, written, read, rows>>

ReadNext(t) ==
    /\ chunks # None /\ rows = None
    /\ chunks[t] # <<>>
    /\ LET f == Head(chunks[t])
       IN  read' = (f :> Scanned(f, written[f])) @@ read
    /\ chunks' = [chunks EXCEPT ![t] = Tail(@)]
    /\ UNCHANGED <<logs, report, filter, written, rows>>

\* The results are put in the order of the files, deduplicated and summed up.
JoinReaders ==
    /\ chunks # None /\ rows = None
    /\ \A t \in DOMAIN chunks : chunks[t] = <<>>
    /\ rows' = Rows(Kept([f \in File |-> read[f]]))
    /\ UNCHANGED <<logs, report, filter, written, chunks, read>>

CRInit ==
    /\ logs \in Listings
    /\ report \in Reports
    /\ filter \in IF report = "instances" THEN {None} \cup Project ELSE {None}
    /\ written = [f \in DOMAIN logs |-> logs[f].before]
    /\ chunks = None
    /\ read = <<>>
    /\ rows = None

CRNext ==
    \/ StartReaders \/ JoinReaders
    \/ \E f \in File : Write(f)
    \/ \E t \in 1..Threads : chunks # None /\ t \in DOMAIN chunks /\ ReadNext(t)

CRSpec == CRInit /\ [][CRNext]_crvars

----------------------------------------------------------------------------
(***************************************************************************)
(* What is owed: every answer once, whatever the order of its copies.      *)
(***************************************************************************)
\* The entries of all logs when n[f] lines of the log f are written, and where they stand.
Written(n) ==
    LET wanted(f) == SelectSeq(Scanned(f, n[f]), LAMBDA e : filter \in {None, e.project})
    IN  UNION {{[entry |-> wanted(f)[i], at |-> <<f, i>>] : i \in DOMAIN wanted(f)} : f \in File}

\* What decides between copies, and between equal ones their place.
Rank(a) ==
    <<a.entry.tokens, IF IsDaily THEN a.entry.cost ELSE 0, IF a.entry.speed THEN 1 ELSE 0,
      -a.at[1], -a.at[2]>>

Beats(a, b) ==
    \E i \in DOMAIN Rank(a) :
        Rank(a)[i] > Rank(b)[i] /\ \A j \in 1..(i - 1) : Rank(a)[j] = Rank(b)[j]

\* One copy counts for every request of a message, or one sidechain's if it is nobody else's.
Counts(a, all) ==
    \/ a.entry.id = None
    \/ LET copies == {b \in all \ {a} : b.entry.id = a.entry.id}
           others == IF a.entry.side THEN copies ELSE {b \in copies : b.entry.req = a.entry.req}
       IN  \A b \in others : IF a.entry.side = b.entry.side THEN Beats(a, b) ELSE b.entry.side

RowOf(e) ==
    CASE report = "daily" -> e.date
      [] report = "instances" -> <<e.date, e.project>>
      [] report = "weekly" -> WeekOf(e.date)
      [] report = "session" -> <<e.project, e.session>>

\* Sessions are in the range as a whole, days one by one.
Due(counted, row) ==
    LET of == {a \in counted : RowOf(a.entry) = row /\ (report = "session" \/ InRange(a.entry.date))}
        sum(Number(_)) == FoldSet(LAMBDA a, total : total + Number(a.entry), 0, of)
    IN  [tokens |-> sum(LAMBDA e : e.tokens), cost |-> sum(LAMBDA e : e.cost)]

LastShown(counted, session, in(_)) ==
    /\ Due(counted, session).tokens > 0
    /\ in(Max({a.entry.utc : a \in {a \in counted : RowOf(a.entry) = session}}))

Shown(counted, in(_)) ==
    IF report = "session"
    THEN {k \in {RowOf(a.entry) : a \in counted} : LastShown(counted, k, in)}
    ELSE {RowOf(a.entry) : a \in {a \in counted : InRange(a.entry.date)}}

Moments == {n \in [File -> 0..Max({Len(logs[f].records) : f \in File})] :
                \A f \in File : logs[f].before <= n[f] /\ n[f] <= written[f]}

Counted(n) == LET all == Written(n) IN {a \in all : Counts(a, all)}

\* Every report counts every answer once, the best copy of it, as of some moment of each log:
\* whatever the logs are dealt to, and in whatever order copies, sidechains and advisors come.
AnswersOnce ==
    rows # None => \E n \in Moments :
        /\ DOMAIN rows = Shown(Counted(n), TimeInRange)
        /\ \A row \in DOMAIN rows : rows[row] = Due(Counted(n), row)

\* A report includes the day it is to end with.
UntilIsInclusive ==
    rows # None => \E n \in Moments : Shown(Counted(n), InRange) \subseteq DOMAIN rows
=============================================================================
