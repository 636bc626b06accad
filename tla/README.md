# turbotokens in TLA+

turbotokens reads the logs that coding agents write on a machine and reports how many tokens they
used and what that cost.  The logs are other programs' files: they grow, are rewritten and disappear
while turbotokens reads them.  The reports have to come out right all the same: once from nothing (a
batch load), through caches that other processes share, and again and again from an index that is
kept up to date (the live views, the daemon).

This directory models that program in TLA+, checks it with TLC on small instances, and proves part
of it for every size with TLAPS.  Paths below are relative to `src/rust/` unless they start with
`docs/`.

## 1. Inventory

### The parts, their state and what they do

| part | code | state | operations | modelled by |
|---|---|---|---|---|
| daily deduplication | `adapters/claude/src/daily.rs` | `deduped` (kept entries in order), `deduped_indexes` (hash of a key → places) | `push_deduped_daily_entry` adds, replaces or drops a copy | `ClaudeDedup` |
| watch index | `adapters/claude/src/watch.rs` | a cursor per file (offset, tail, stamp, prefix hash), `known_paths`, the deduplication's state, two occurrence counts | `seed`, `poll_paths` (`poll_file`, `rebuild`), `feed_bytes` | `ClaudeWatch` |
| Claude live view | `adapters/claude/src/live.rs` | a watch index, a `LiveBook`, a `Burn`, an `AlertState`, `live` | `run_live`'s loop: `refresh_today`, `poll_paths`, `accept_outcome`, `check_alerts`, emit | `ClaudeLive` |
| shared live accounting | `adapters/common/src/live.rs` | totals of today, per model and per session; burn window; fired alerts; byte cursor; metrics body | `add_contribution`, `subtract_contribution`, `Burn::push`, `AlertState::check`, `ByteCursor::feed` | `ClaudeLive`, `ByteCursor` |
| Codex live view | `adapters/codex/src/live.rs`, `parser.rs` | per file a cursor, a parser, checkpoints and headless keys; accepted events | poll (`feed_file`, rewind, replay), accept, refresh | `CodexLive` |
| Grok live view | `adapters/grok/src/live.rs`, `parser.rs` | cursors, model timelines, a seen set | poll timelines, then usage, accept | `GrokLive` |
| resident index | `adapters/claude/src/resident.rs` | a watch index, rows per date and per (date, project), places per date | `seed`, `poll`, `apply`, `daily_rows` | `ClaudeResident` |
| daemon's life | `crates/turbotokens/src/commands/daemon.rs`, `daemon_paths.rs` | PID file and its lock, socket | `run_server`, `PidFile::acquire`, `bind_socket`, `publish`, drops, `stop` | `DaemonOwner`, `DaemonLifecycle` |
| daemon's service | `daemon.rs`, `daemon_client.rs` | channel of connections, `next_poll`, the shutdown flag | `serve`, `handle_connection`, the acceptor, clients | `DaemonServe` |
| parse and report caches | `adapters/claude/src/cache.rs` | one file per log and kind, 256 slots of reports, temporary files | `cached_scan`, `read_report_blob`, `write_report_blob` | `FreshLoad`, `ParseCache` |
| Claude reports | `adapters/claude/src/daily.rs`, `lib.rs`, `commands/mod.rs` | none between calls | `load_daily_summaries`, `load_entries`, `run_weekly`, `run_session` | `ClaudeReports` |
| Codex reports | `adapters/codex/src/aggregate.rs`, `replay.rs`, `loader.rs`, `parser.rs`, `report.rs` | a replay plan, the workers' groups, the parser's model, tier and counters | `load_groups`, `load_codex_events`, `visit_codex_session_file`, the cost of a group | `CodexLoad`, `CodexReadings`, `CodexCosts` |
| other agents' loaders | `adapters/*/src/loader.rs` | a dedup map while loading | `load_entries` | `AgentLoaders` |
| other agents' parsers | `adapters/*/src/parser.rs` | the session, the model and the events so far | `read_*`, `parse_*`, `calculate_*_cost`, `missing_*_pricing` | `UsageReadings`, `AgentCosts` |
| report of all agents | `crates/turbotokens-adapter-all/src/loader.rs`, `turbotokens-core/src/progress.rs` | loader threads, a channel, spinner sessions, a base of rows per kind of section | `load_agent_rows_parallel`, `UsageLoadProgress`, `load_sections`, `resolve_named_pi_store_paths` | `AllReport`, `AllSections` |
| prices | `turbotokens-core/src/pricing.rs`, `cost.rs` | find cache, the fetched table and its last failure, shared by threads | `find`, `models_dev_pricing`, `cost_and_missing_model_for_usage` | `Prices` |
| blocks | `crates/turbotokens/src/blocks.rs` | none | `identify_session_blocks` | `SessionBlocks` |
| status line | `crates/turbotokens/src/commands/mod.rs` | a cache file per session, shared by processes | read, mark updating, complete, release | `Statusline` |
| configuration and command line | `turbotokens-config/src/config.rs`, `turbotokens-cli-parser/src/parser.rs` | the merged config | `ConfigContext`, `parse_from_with_config` | `Invocation` |
| tables, limits, import, doctor, HTTP | `crates/*` | none that outlives a call | parse, print, fetch | not modelled, see 7 |

### How they interact

Agents write JSONL files and databases; nobody locks them.  A `WatchIndex` polls Claude's on one
thread, with worker threads only inside a seed or a rebuild, and hands its consumer a list of
*outcomes* (`Added`, `Replaced`, `Reset`) after each poll.  The live view turns them into running
totals and a feed of events; the resident index turns them into rows.  The daemon owns a resident
index and answers queries through a Unix socket; which process is the daemon is settled by a PID
file and its lock.  A client that gets no compatible answer loads the logs itself, through caches
that any number of processes write.  Codex and Grok have live views of their own over a byte cursor.
A batch report deals its files to threads, merges what they bring and prints; the report of all
agents runs one loader thread per agent beside the spinner's threads, and loaders share the table of
prices and the list that is fetched for it.  The command line and the config files decide which
report is made and with which options.

### What is hard here

* A log changes under the reader: between listing and opening, between the metadata and the read,
  between opening and the end of the read, between two files of a poll.
* A line is seen before its newline; a log is cut, restored, copied over, or taken over by another
  session.
* Copies of a response come in any order, from several files, threads and formats, with other
  request ids, other times and other completeness.
* A rebuild has to be all or nothing, and follows appends that were already fed.
* Outcomes are applied after the poll, when the index has moved on.
* Totals are unsigned and are taken down again: by replacements, by resets, at midnight.
* Daemons start, stop and crash at each other's critical points; each system call on the two files
  is a point where another may get in.  Clients time out while they are answered.
* Cache files are written by many processes without a lock, by processes that die and on machines
  that lose power.
* Threads of a report fail and panic; the one who waits for them must be told.

### What makes each part correct

| part | has to hold |
|---|---|
| deduplication | one entry per response; which one does not depend on the order, up to ties |
| watch index | the index is that of the prefixes its cursors claim; once it caught up it is that of the logs; it catches up |
| live views | totals are those of what was accepted; every record is streamed as often as it was spent, whatever is read again; alerts fire; history is not burn |
| resident index | rows are those of the index, and of a full load |
| daemon | one owner; a stop is about the daemon it means and ends it; crashes do not block a start; nobody hangs; rows are for the client's own arguments; nothing is left behind |
| caches | an answer is one an uncached load could have given; faults heal |
| batch reports | every request once, in the right period, with the right tier, and the same by both routes |
| all agents | all rows or the first error; the report ends; the terminal is tidy; the sections agree on each agent, and stores that share files are refused |
| parsers | every request is shown once with the tokens it used, whichever way the agent tells of them |
| prices | what costs nothing for want of a price is told of |
| blocks | every entry is in one block, within its window; gaps are the silences; one block is active |
| status line | what it shows is younger than the interval or about to be replaced; it comes to show the last transcript |
| command line | it wins over the config, the narrower section over the wider, and the sections are the command's |

## 2. Plan

What was planned first is written: the Claude index with its two consumers, the daemon (as a
refinement of its owner, and its service), the caches (as a refinement of a load without them), the
Codex and Grok live views, and the commands that run once.  The order was by how many steps of how
many actors it takes to go wrong, and how far a wrong state would spread.

What the plan has left, most valuable first:

1. the metrics thread and the dashboard of `common/live.rs`;
2. `--last` and the calendar (`last_window`, `week_start`) as operators;
3. `limits`, `import` and `wrapped`.

Theorem worth proving next: `SpentOnce`, for the sessions of which it holds.

## 3. Modules

| module | what it is |
|---|---|
| `ClaudeDedup` | the index as a record, `PushDeduped` and what it is made of |
| `ClaudeWatch` | the agents, `seed`, `poll_paths`, `rebuild` |
| `ClaudeLive`, `ClaudeResident` | `run_live` and `ResidentIndex`, each over `ClaudeWatch` |
| `ByteCursor` | the cursor the Codex and Grok views share |
| `CodexLive`, `GrokLive` | those views, over it |
| `DaemonOwner`, `DaemonLifecycle` | what the PID file promises, and the system calls that keep it |
| `DaemonServe` | the daemon's threads and its clients |
| `FreshLoad`, `ParseCache` | what a load promises, and the processes and caches that keep it |
| `SessionBlocks`, `Statusline`, `AllReport`, `AllSections`, `CodexLoad`, `ClaudeReports`, `AgentLoaders`, `Prices`, `Invocation` | the commands that run once |
| `UsageReadings`, `AgentCosts` | what the other agents' parsers make of a file, and what it costs |
| `CodexReadings`, `CodexCosts` | what Codex's parser makes of a session, and what its sums cost |
| `CopilotWays`, `GrokTurns` | small parts of two parsers that two modules use |
| `MCClaudeWatch`, `MCClaudeLive`, `MCClaudeResident`, `MCCodexLive`, `MCLiveViews`, `MCParseCache`, `MCReports`, `MCInstalls`, `MCReadings`, `MCSections`, `MCInvocations` | logs, lines, installations, sections and command lines for TLC |
| `SequenceFacts` | lemmas about sequences, `FlattenSeq` and queues |
| `ClaudeWatch_proofs` | theorems of `ClaudeDedup` and `ClaudeWatch` |
| `ClaudeViews_proofs` | theorems of the two consumers, `ClaudeLive` and `ClaudeResident` |
| `LiveViews_proofs` | theorems of `CodexLive` and `GrokLive` |
| `DaemonLifecycle_proofs`, `DaemonServe_proofs`, `ParseCache_proofs` | theorems of the module each is named for |
| `Reports_proofs` | theorems of `AllReport`, `Statusline` and `SessionBlocks` |

### ClaudeDedup

`dd.entries` is `deduped`; `dd.indexes` is `deduped_indexes` with the key `<<message, request>>` in
place of its 64-bit hash (the code compares the ids again after the lookup, so a hash collision only
lengthens a list).  `ExistingIndex` is the lookup under the exact key, then under the message alone
when a sidechain is involved.  `Outcome`, `Place` and `PushDeduped` together are
`push_deduped_daily_entry`.  An entry is reduced to what decides between copies (kind, tokens, cost,
speed) and what the reports group by (date, project, model).

The hash of a key without a request id is also the hash a message is filed under.  The model keeps
that: `<<m, None>>` is both.

### ClaudeWatch

| variable | code |
|---|---|
| `disk`, `clock` | the agents' files; every change gives a file a later change time |
| `cursors` | `cursors`: offset, tail, stamp, and the consumed prefix for `prefix_hash` |
| `known_paths`, `dd`, `deduped_sessions`, `known_occurrences`, `current_occurrences` | the fields of `WatchIndex` of those names |
| `pc`, `task` | where the polling thread is, and whether it reads for a seed, a scan or a rebuild |
| `files`, `todo`, `opened`, `snapshots` | the listing, what is left of it, stamps taken before reading, snapshots |
| `pending` | entries scanned and not yet offered |
| `outcomes` | the poll's outcomes |

| action | code |
|---|---|
| `AppendLine`, `EndLine`, `Rewrite`, `Replace`, `Delete` | the agents |
| `Seed`, `FeedSeed` | `seed`, `seed_files` |
| `PollPaths` | `poll_paths` up to the scan: the listing and its test for a reset |
| `SkipFile`, `OpenFile`, `ReadNothing`, `FeedFile`, `FindRewritten` | `poll_file` |
| `OpenFile`, `ReadNothing`, `ReadSnapshot` | `read_snapshot` on the worker threads, in any order |
| `Rebuild`, `RetryLater` | `rebuild` with all snapshots, or without |
| `FeedEntry`, `EndFeed` | `feed_bytes`' loop over the scanned entries |
| `EndScan`, `Deliver`, `Sleep` | the end of the poll and its consumer |

An agent can act between any two steps, so between listing and opening and between opening and the
end of a read.  A log is a sequence of line and newline "bytes": a line that has no newline yet is
where the tail, the offset and the position can go wrong.  A line carries no, one or several usage
records (an advisor's usage beside the message's own).  The session and project come from the path.

`FeedEntry` takes one entry at a time although the code holds the thread: this changes nothing an
agent can see and keeps each step small.  Invariants that would only hold between feeds say so.
`FindRewritten` goes on with the listing of the same poll, as the code does: a rebuild reads the
files listed before the scan.

### ClaudeLive and ClaudeResident

`StartTick` is `refresh_today` and the start of the poll; `Accept` is one outcome through
`accept_outcome` (three disjuncts, one per outcome); `EndTick` is alerts, emission and metrics; the
first `EndTick` is the startup.  The four token classes are one number.  `burn` holds what was
pushed since the last tick: when it expires from the five-minute window is not modelled.
`streamed`, `spent`, `held`, `reindexed` and `seeded` only record history for the properties.  A
cost is a natural number here and a float in the code, so rounding is not modelled.

`Apply` is `ResidentIndex::apply`, with `AddEntry` and `RebuildDate`.  Outcomes are looked at when
they are applied, against the index as it is by then, which is what the code's comments in `apply`
are about.  `FullLoad` is `load_daily_summaries` without a project filter: every log in full, an
unterminated last line too, in the order of the paths.

### ByteCursor, CodexLive, GrokLive

A byte stands for a run of bytes without a newline, so a line of one byte is a line as it was
written and one of several is glued together from pieces of different lines: a position that is not
the log's own shows as a glued line.

`CodexLive` has a log that holds a prefix of its session's history (`Careers`): `Write` appends a
piece, `Truncate` cuts and restores, `Replace` puts a copy or the next session's log under the path,
`Delete` removes it.  `StatFile` and `ReadNew`/`FeedNew`/`ReadKnown` are the two system calls of
`feed_file`, in that order, with anything in between.  `FeedLine` is the parser and what the view
does with its event: `FeedMeta`, `FeedEntry` with its `Checkpoint` (the cumulative counters a record
is known by when it is read again) and `FeedHeadless` with the counts of equal results; `MustRewind`,
`Rewound` and `EndReplay` are the rewinding.  `RefreshToday` rebuilds the day's totals from
`accepted` when the day has turned.

`GrokLive`'s sessions write turns into files of their own and requests into a log they share
(`WriteLine`, `WriteNewline`); a file may be seen shorter than it is and whole again (`CutShort`,
`Restore`).  `GrokStartPoll` reads the turns' files and `StartUsage` goes over to the log, `GrokStatFile` and
`PollFile` are `poll_file`, `AcceptUsage` is the key with the model in it, the seen set and the
event, for one request after another.  `noted` is a history variable: the turns that were on disk
when the pass began and have been since.  What is assumed of the sessions is that a line is ended
before the next one is written to the same file, and that nothing is written to a file that is seen
short.

### DaemonLifecycle and DaemonOwner

A step per system call on the PID file or the socket; a local computation goes with the call before
it.  `pc[p]` names the next call.

| steps | code |
|---|---|
| `probe` | `run_server`'s ping, and reading the logs |
| `create`, `open`, `check`, `lock`, `recheck` | `PidFile::acquire` |
| `inspect`, `connect`, `compare`, `unlink`, `listen` | `bind_socket` |
| `truncate`, `write` | `PidFile::publish` |
| `serve`, `wake` | the loop of `serve`, then waking and joining the acceptor |
| `match`, `unbind` | `SocketFile::drop` |
| `validate`, `remove`, `close` | `PidFile::drop` |

`lock[i]` is the lock on inode `i`; it goes with the process, also in a crash.  A removed file that
is still open keeps its inode and its lock, and a new file at the path gets another: that is what
the second `validate_pid_file` is for.  An inode nobody holds can be used again.  Process ids are
used again after an exit.  A `stop` command is its three connections (`ReadPid`, `Ping`,
`Shutdown`), each of which may fail.  `AcceptFails` is the acceptor thread giving up on an error.
The checks for links, modes and owners guard the directory against other users; here only daemons
touch it.

### DaemonServe

The loop of `serve` by its parts: `RecvForever`/`Recv` with the time left to the tick, `Handle` for a
connection (parse, answer, and `WrittenAnyway` when the client has gone), `Drain` for the inner
`try_recv`, `Tick` for the poll, then `DropIncoming`, `WakeAcceptor` and `Join`.  The acceptor is
`Accept` and `HandOver`, or `AcceptFails`.  A client connects, sends, gives up when its time is over,
or receives; `Compatible` is its test of the answer's arguments, and a zone without a name
(`Opaque`) is compatible with nothing.  A client's place is taken by another once both ends are
closed, so the number of clients over time is not bounded.

### FreshLoad and ParseCache

`FreshLoad` knows logs by their versions, and processes that begin a load and answer it: `Answer(p)`
may use, per log, any version the log has had since the load began.  `ParseCache` implements it.
A step is a system call: listing and stamping (`Start`, `StampForKey`), the report slot
(`ReadReport`), a log's stamp (`StatLog`), the cache entry (`CheckCache`), the log (`ReadLog`,
`ReadUncached`), the temporary file and its rename (`CreateTmp`, `WriteFails`, `RenameTmp`).
Processes die (`Die`) and leave the temporary file; the machine loses power (`PowerLoss`) and a
renamed file may be `Torn`.  A temporary file is known by the process id, which is used again.
Stamps are versions, hashes stand for what they are taken of, and every report uses the one slot: the
worst case for collisions, which the key in the file settles.

### The commands that run once

* `SessionBlocks`: entries are taken one by one; `First`, `Extend`, `Break` and `Close` are the
  branches of `identify_session_blocks`.
* `Statusline`: the runs of a session share `cache`.  Time is how old things are.  `Empty…` are the
  moments in which the file has been truncated and not written.
* `AllReport`: `LoaderStep` is a loader's thread with the spinner it may start, `Receive` and
  `ReceiverEnds` the receiving loop, `Join` the joins in order, `Check`/`Draw`/`Restore` a spinner's
  thread, `Finish` and `Return` the outcome and what is aggregated.
* `AllSections`: `ResolveStores` is `resolve_named_pi_store_paths` (paths that are one directory, or
  one inside another); `LoadAgent` is one agent's part of a base, by days or by sessions, while
  agents write on (`WriteEntry`), each with the rows and the range of dates its loader makes
  (`CodexRows`, `QwenRows`, ...); `Finish` makes the sections of the bases.
* `CodexReadings`, `CodexCosts`: a session is written line by line (`TurnContext`,
  `ThreadSettingsApplied`, `Answer`, `Repeat`, `Exec`) and read at a moment (`ReadLog`), where `Visit`
  is what the parser does with a line.  `GroupOf` sums the events by model, as one worker does;
  `GroupOfWorker`, `MergeGroups` and `ApplyRecorded` as several do; `GroupCost` applies the prices to
  the sums.
* `CodexLoad`: `ReadMetadata` and `ReadParent` make the replay plan, `Visit` is a worker's event
  through `should_skip` and the deduplication by `Key`, `JoinWorkers` merges groups and recorded
  tiers.  Sessions go on (`Grow`) all along.
* `ClaudeReports`: `BySize`/`Deal` are `chunk_file_indexes_by_size`; `PushLoaded` is the second
  deduplication, in `lib.rs`; `Rows` aggregates for the kind of report.
* `AgentLoaders`: an installation is an agent with its sources in the order they are listed.
  `Keyed`, `FirstWins`, `LastWins`, `LatestWins`, `AddEvent` and `CopilotEntries` are the agents' ways to tell
  copies apart; `OpenCodeRows` is the narrowing of the query, and `Merge` the order in which threads'
  results are put together.
* `UsageReadings`: a file of one of sixteen formats is read at some moment while its agent writes on,
  and its records are parsed one by one (`ParseLine`) with what the parser holds: the session, the
  model, the events so far.  A `…Usage` operator per agent is its arithmetic on the fields; a `…Line`
  operator is what its parser does with a record.  The fields are numbers and the names model values;
  timestamps are only those Antigravity merges by and Kimi's and Grok's models depend on.
* `AgentCosts`: the names a model's price is looked for under, agent by agent, when a written cost is
  taken instead, and when a model is told of as one without a price.
* `Prices`: a table is the set of models it prices.  `LookUpPrimary`, `GetModelsDev`, `Fetch`,
  `LookUpModelsDev`, `LookUpSnapshot`, `Store`, `Answer` are one lookup; the locks are held only
  within a step.
* `Invocation`: `Load` is `ConfigContext` with the command it guesses (`DetectCommand`); `RootArg`
  and `CommandArg` are the parser's two loops; a value is known by where it comes from.

`MCReports` composes them: one process runs one command, chosen in the initial state, and leaves the
others' variables alone.

## 4. Runs

| run | module, cfg | distinct states | time | properties |
|---|---|---|---|---|
| `watch` | `MCClaudeWatch` | 133,863 | 1 min | `OneEntryPerResponse`, `IndexMatchesCursors`, `IndexMatchesDisk`, `CatchesUp` |
| `live` | `MCClaudeLive` | 153,608 | 2 min | `BookMatchesIndex`, `StreamedAtMostHeld`, `GrowthIsStreamed`, `AlertsFire` |
| `live_growth` | `MCClaudeLive`, `MCClaudeLiveGrowth.cfg` | violated | | finding 1 |
| `resident` | `MCClaudeResident` | 115,615 | 1 min | `RowsMatchIndex`, `RowsCatchUp` |
| `daemon` | `DaemonLifecycle`, `MCDaemon.cfg` | 298,764 | 2 min | `OwnerSpec`, `ServingIsPublished`, `NoLeftovers`, `StartSucceeds`, `ShutdownEnds` |
| `serve` | `DaemonServe`, `MCDaemonServe.cfg` | 305,112 | 3 min | `TakesOwnRows`, `FailedStopsNothing`, `StopIsKept`, `NobodyHangs`, `PollsWhenQuiet` |
| `cache` | `MCParseCache` | 981,527 | 3 min | `Fresh`, `CacheHeals` |
| `views` | `MCLiveViews` | 610,915 | 1–2 min | `SpentOnce`, `TotalMatchesStream`, `ModelInTime`, `StreamedAgainOnNews`, `ViewsCatchUp` |
| `codex_fork` | `MCCodexLive`, `MCCodexLiveFork.cfg` | violated | | finding 2 |
| `reports` | `MCReports` | 321,985 | 3 min | `InWindow`, `GapsAreSilences`, `StaleIsBounded`, `ShowsTheLast`, `AllOrFirstError`, `TidyEnd`, `AllReportEnds`, `CountedOnce`, `AnswersOnce`, `EachOnce`, `ReadAsSpent`, `PricedOrTold`, `CommandLineWins` |
| `reports_until` | `MCReports`, `MCReportsUntil.cfg` | violated | | finding 3 |
| `invocation` | `MCReports`, `MCReportsConfig.cfg` | violated | | finding 4 |

Times are on two cores.  What the less obvious properties say:

* `IndexMatchesCursors`: outside a feed, the index holds what a scan of the prefixes recorded in the
  cursors would, in any order of arrival.  Two indexes are compared by their `Winners`: how many
  entries they keep and the measures of each.  A tie leaves open which copy is kept, so projects and
  dates are not compared here.
* `StreamedAtMostHeld`: per identity, events emitted never outnumber the copies the logs have held.
  `GrowthIsStreamed` is the other side: until a rebuild, every message in the totals was announced.
* `AlertsFire`: once a fresh scan of the logs would say for good that today's spending has reached a
  threshold, the alert fires.  It starts from the logs, not from the book.
* `RowsCatchUp`: once the logs rest on complete lines, the rows come to add up to what a full load
  finds, over all days: per row, ties make them differ.
* `StartSucceeds`: a lone start with no crashes left gets to serve, whatever files earlier crashes
  left.  `NoLeftovers`: without crashes, when all have exited, both files are gone.
* `FailedStopsNothing`: the daemon ends over no client that was not told so.  `StopIsKept` and
  `PollsWhenQuiet` carry the exception the code has, as a disjunct: clients that keep coming hold up
  both (see the notes in 5).
* `Fresh` is `FreshSpec`: the caches are invisible.  `CacheHeals`: whatever deaths, lost power,
  failed and late writes leave, a log that rests comes to be served from the cache, as long as some
  process id has no temporary file left behind.
* `SpentOnce` compares the stream with a report of the whole history of the sessions: how often each
  event was streamed against how often it was spent.  `ViewsCatchUp` is the other side, in the end.
* `ModelInTime`, `StreamedAgainOnNews`: a Grok request is streamed with a model that a report begun
  with the pass could give, and a second time only when a turn came that changed it.
* `AllOrFirstError`: the report of all agents has every agent's rows, added up by period, or the
  first agent's error.
* `EachOnce` is two things.  Each loader of the other agents counts each request it owes once.  And
  there is a moment of the report of all agents such that all of its sections by days, weeks and
  months have what each agent had written by then, each request once, in its dates, and a later or
  equal one for the section by sessions (`SectionsAgree`).  Rows are the sums of what they are
  divided into, models without a price are told of in every section, and exactly those stores are
  refused that share files.
* `CountedOnce` goes by the requests, which the loader does not see: every request of the logs is in
  the sums once, with its tier, forks and copies notwithstanding, and where
  nothing fails the two routes to a daily report agree.
* `AnswersOnce`: rows are those of a count by answers at some moment of the load.
* `ReadAsSpent` starts from what a request used (`spent`), which no parser sees; the files of
  `MCReadings` tell of it in every way the formats allow: caching within the input or beside it,
  reasoning within the output, beside it or in the total only, a total or none, a request told of again
  while it grows.  For Codex (`ReadOnce`) it is the session that is told of by the last request, by
  the sum of all or by both, and told of again when nothing was used: each request is read once, with
  its model, its tier, and whether the model is a guess.
* `PricedOrTold`: of a model whose records cost nothing for want of a price, some record tells; per
  record of the other agents (`CostedOrTold`), with the exceptions their code has, as disjuncts.
  Codex's sums cost what the requests cost one by one (`BilledEach`), each at the rates of
  its own context and tier, however the events are divided among workers.

### Bounds, and why they are enough

* `watch`, `live`, `resident`: two logs and `MaxClock = 2` changes (append, finish a line, rewrite,
  rename over, delete) on top of the initial logs.  Two changes reach every path of a poll: a change
  while a file is read and one between polls; a rewrite to nothing and an append that restores; a log
  that goes and comes back; an append to one log in the poll that finds the other rewritten.  Polls
  are unbounded in number.  `watch` has lines of the kinds the code treats differently: two sizes of
  a message, its sidechain replay under another request, one without an id, one without usage, one
  with an advisor.  `live` has two days, entries of both, an entry without a model, a threshold two
  records reach, and a midnight at any moment.  `resident` has two days, projects and models, and
  a message that leaves its day and returns to it in one poll.
* `daemon`: two processes are enough for a race between a start and an end; a third start is the
  first process again.  Three inodes let each process hold a removed PID file beside the one at the
  path.  Two crashes: one that leaves the files, one while they are taken over.
* `serve`: two places for clients, so that one can be answered while the other waits in the channel
  or at the acceptor; three zones, two of them without a name, so that equal and different opaque
  zones meet; one failure of accept.
* `cache`: two processes, a log, two versions, one fault.  A stale write needs a reader, a writer and
  one change; a blocked id needs one death.
* `views`: one log per agent, since a poll takes files one by one and keeps nothing across them but
  the stream; `MaxChanges = 3` allows a cut, its restoration and a copy over it; the careers are a
  session whose counters are reset, one that counts only its last request, headless results that look
  alike, and the session that takes the path over.  Grok has two sessions over one log, one that
  changes its model and one that names none, and one file seen short.  `ReusedAt` is where the view
  may be when another session takes a path: not between the metadata and the read, see 5.
* `reports`: up to four entries in eight quarters for blocks, on both sides of every boundary; two
  status lines at a time, one change, one fault; three agents, one of which fetches; four sets of
  Codex sessions (forks of forks, orphans, archived copies, a damaged log) on two workers; two
  listings of Claude logs on two threads; thirteen agents' installations with two or more sources; some
  four thousand files of one to three requests, each kind of token present and absent, each field that
  may be missing missing, three price tables and modes; Codex sessions of up to four lines and two
  requests, one at the threshold of a long context and one beyond it, five ways of telling, models that
  lack some rates or all; eight questions for the sections, on logs of six agents of which two are
  written to meanwhile, with stores that are links, inside one another, missing or named twice;
  three threads that price; command lines of every command, with an option of each kind before and
  after it.

### Fairness

* `ClaudeWatch`, `ClaudeLive`, `ClaudeResident`: weak fairness of the polling thread's steps
  together.  The thread is a loop without blocking calls other than file reads; at each point some
  step of it is enabled.  Agents and midnight are not fair: they may stop.  `RowsCatchUp` is about a
  daemon whose polls come; that clients can hold them up is `PollsWhenQuiet`'s.
* `CodexLive`, `GrokLive`, `MCLiveViews`: the same for the view's thread.  It is written
  `[]<><<pc' # pc>>_pc`: some step of the view is always enabled and nothing else moves `pc`, so this
  says what weak fairness of the view would, in a form TLC checks fast.
* `DaemonLifecycle`: weak fairness of each process's own steps up to `serve` and from `wake` on.
  Nothing makes a process start, leave `serve`, crash, or a client ask.
* `DaemonServe`: weak fairness of the acceptor, the main thread and the passing of the poll's time,
  and of a client's request and its reading of the answer: each is a thread or a process of its own.
  Nobody has to connect or give up.
* `ParseCache`: weak fairness of a load's steps, and strong fairness of beginning a report with
  fetched prices, for `CacheHeals` is about later reports: someone has to ask for them, and of two
  kinds of report that alternate neither is enabled all the time.
* `MCReports`: `SLFair` and `ARFair` for the command that is run (of the others nothing is asked to happen): status lines go on being asked for
  and time passes; the main thread, the loaders and the spinners are threads.

## 5. Findings

1. `live_growth`: records first read by a poll that rebuilds are counted and never streamed
   (`adapters/claude/src/watch.rs:217-223`), while `docs/usage.md:52-55` says the feed has the
   history, "followed by records read as the files grow".  TLC's trace: one log is deleted and
   another grows in the same interval; the poll resets, the growth goes into the totals only.
2. `codex_fork`: `adapters/codex/src/live.rs:600` forgets every checkpoint when a `session_meta` line
   names another id than the one before.  A fork's log names two; when it is read again from its
   start (replaced by a copy, or cut), everything in it is streamed a second time, while `:252` says
   "Accounting survives rewinding the physical file."
3. `reports_until`: `claude session --until D` compares the text of a time with the text of a day
   (`crates/turbotokens/src/commands/mod.rs:228`) and leaves out the sessions last active on D;
   `docs/usage.md:27` says `--until` is inclusive.  The report of all agents does it right.
4. `invocation`: to find the config sections that apply, `turbotokens-config/src/config.rs:334`
   guesses the command with a table of options of its own, which lacks `--last` and `--sections`.
   `--last 7 weekly` is read as the command "7" and `--sections daily weekly` as daily: the sections
   of `weekly` are not applied, and those of another command may be.

Seen while reading, and not checked by a run:

* Live views.  Restored history can count as burn when it replaces a smaller copy
  (`claude/src/live.rs:330-336` against `:225-226`).  Codex: results without counters are counted
  twice when a log is cut and other results are appended; a session that takes a path over between the
  metadata and the read is told from the one before only at the next poll (the models leave this
  moment out, `ReusedAt`).  Grok: a request met before its turn, and read again after it, has another
  key and is streamed twice (`StreamedAgainOnNews` bounds this); a log rewritten to a longer one
  between polls is read on from the old position.
* Daemon.  `serve` says the index is rebuilt every interval (`daemon.rs:82-83`), and clients that keep
  connecting prevent it and the shutdown (`:130-133`).  Equal copies of a response under two projects
  or dates: the daemon keeps the one it met first, a full load that of the first path
  (`resident.rs:16-18`).  A full load counts an unterminated last line (`daily.rs:624-632`), the
  daemon does not.
* Reports.  The daily report counts answers that a parent's log wraps (`daily.rs:430-437`), the
  weekly, monthly, session and blocks reports do not.  The copy of the deduplication in `lib.rs:133-147`
  does not compare costs.  OpenCode narrows to a range before it tells copies apart; goose's keys are
  per database; copilot does not look across files; the keys of pi and openclaw hold computed costs.
* Prices.  `cost.rs` promises at most one lookup per record; one that was not found is looked up twice, so
  between a failed and a successful fetch a single record can cost nothing without a mark; what was not
  found is not looked for again.
* Blocks.  With a length under an hour two blocks can have one id; entries from the future can make
  several blocks active (the theorem `OnlyLastActive` assumes none).
* Parsers.  Antigravity takes the larger of two tellings field by field, so a telling by the total only
  and one by parts can add up to more than was used (the model's tellings keep one split).  Amp counts a
  message's cached tokens once per ledger event that names it (`amp/src/parser.rs:121-221`).  Pi, OpenClaw
  and Kimi leave tokens known by the total only out of the cost, the others bill them as output.
  Codebuff fills fields a message lacks from earlier messages of its run state (the model's histories
  have one message).  Gemini shows the total less the parts, whatever was said of reasoning.  A record of
  Pi without a model costs nothing and is not told of; nor is Kilo's with a written cost and an unpriced
  model when costs are calculated.  OpenCode, Hermes, Droid, Goose and Codebuff ignore the cost mode.
* Status line.  A run that fails or dies leaves the new modification time with the old line; a process
  id used again keeps a stale mark alive.  `StaleIsBounded` says how far this goes.
* Config.  `no_offline` is read by the status line only; flags take and ignore a value
  (`--offline=false` sets it); options before `statusline` are dropped; `since` in the config makes
  `--last` an error.

## 6. Proofs

`tlapm` checks eight modules; no constant is bounded in them.

**Assumptions.**  `NoneAssumption` (an absent id is no id), `WatchAssumption` (the constants have
their types; initial logs are made of lines and newlines and were last changed at time 0, when the
clock starts; `Gone` is neither a cursor nor bytes), `LiveAssumption` (there is a day;
thresholds are numbers or absent; `Gone`, which marks a row that is not there, is no amount),
`ResidentAssumption` (nor is it a row), `CodexAssumption` (lines have their types and a newline is
none of them; a career has a session in it; there is a day), `GrokAssumption` (the same of Grok's
lines: each is a session's turn or request, and a session's script is made of its own; the log is no
session's file), `LifecycleAssumption` (`None` is no process, inode or file),
`ServeAssumption` (the daemon's own connection is no client's), `CacheAssumption` (the report slot is
no log's path; `None` and `Gone` are no data), `ARAssumption` (the main thread is no loader's),
`RowsAssumption` (rows are of periods and numbers),
`SLAssumption` (bounds are numbers; no run and no output are told from those there are),
`BlocksAssumption` (lengths are positive, timelines ascend).  TLC evaluates them in the runs.  All
but the bounds and the types say that a marker differs from what it marks the absence of; in the code
these are `Option`s, missing map entries or a variant of an enum.

**One entry per response** (`ClaudeWatch_proofs`).  `OneEntryPerResponse` is
not inductive: a copy is looked up only in the lists of its two keys, so an entry missing from a list
would let a second copy in.  The invariant is `Inv == TypeOK /\ GoodIndex(dd)`, where `GoodIndex`
adds `Filed`: every entry with an id is in the lists of both its keys.  `ExistingIs` shows that
a new entry then meets no kept entry with its ids and that a copy is found if there is one;
`PushKeepsGood` shows that adding and replacing keep all three parts.  A replacement may change the
request id of a place only when a sidechain gives way, and then that sidechain was the only entry of
its message, which is why the second half of `OneEach` is needed for the first.
The rest lifts it to the specification: the type part needs that `FlattenSeq` of
sequences over a set is one (`FlattenType`).  `FlattenSeq` is a recursive function; the proof shows
that the function exists by induction over `0 .. N` with a set for the predicate (`SetInduction`).

**The index is what a scan would keep** (`ClaudeWatch_proofs`).  `IndexMatchesCursors` compares an
index that grew from pieces, read in the order the polls came upon them, with one made by a single
scan.  The argument has two halves.
*Order*: `Keeps(x, O)` says what an index should keep of entries that were offered to it `O[e]` times
each, in no order: every entry without an id, and of the copies of a message one that none of them
should replace.  Offering one more entry keeps this (`PushKeepsBest`; it rests on `ShouldReplace`
going by a rank, `Ranks`, so that what replaces the best of the copies is the best of them), and two
indexes that keep what they should of the same offers have the same `Winners` (`SameWinners`).
*Pieces*: a cursor's offset and tail cover its prefix (`Consumed`), so the lines of the part read
next, after the tail, are those that a scan of the whole adds (`FoundInParts`, `AdvanceConsumes`), and
the entries waiting in `pending` are no more than the cursors claim.  `ReadInv` says that the
index keeps what it should of all that lies under the cursors less what is still pending.  It needs the
seed and the rebuild to begin from nothing (`SeedsFromNothing`) and, for what the live view streams, that no identity was
seen more often than the cursors claim it (`OccurrencesClaimed`).
`IndexMatchesDisk` adds that a log whose stamp is its cursor's still has the cursor's bytes.  That is
`DatedInv`: whoever changes a log gives it a later time, so what was read at a time is what the log
holds as long as it shows that time.

**The stream tells no more than the logs held** (`ClaudeViews_proofs`).  `StreamedAtMostHeld` follows a
count along its way: what was emitted, noted for this tick and is still to be delivered as new never
exceeds `known_occurrences`, which rises by one for each (`ToldInv`); that never exceeds what the
cursors claimed at some time; and what a cursor claims was in its file when it was read (`HeldInv`,
about the logs, the snapshots of a rebuild and the cursors).  A rebuild starts the present counts
again and leaves the known ones, so what it feeds again is told of as history.

**The live book** (`ClaudeViews_proofs`).  `LiveSpec`'s index is one of `ClaudeWatch`, so what is
proved of that holds (`LiveIndexIsGood`).  `BookMatchesIndex` speaks of moments at which every outcome
is accepted.  In between the book agrees with an index that is no longer there.  The invariant,
`BookInv`, therefore says that there is a sequence of indexes that begins with one the book agrees
with, ends with the one at hand, and whose each step is what one of the poll's outcomes tells: an
entry more, an entry in another's place, or nothing at all after a reset.  Accepting an outcome drops
the first of them, feeding an entry adds one at the end.  What remains are lemmas on sums over the
places of an index: what an addition and a replacement make of them, that an entry's part is never
more than the whole (so a subtraction in unsigned numbers is exact), and that a model's row goes
away exactly when no entry is left that names it.

**Growth is told of** (`ClaudeViews_proofs`).  `GrowthIsStreamed` follows each kept entry from its
outcome through the events of the tick to the stream.  While no log was rewritten, the copies ever
seen of an identity are those seen since the start, so no record is taken for history.

**The daemon's rows** (`ClaudeViews_proofs`).  `apply` goes from each outcome back to the index, which
has moved on: an added entry is filed by what its place holds by now, and a replaced one makes its
days be rebuilt from the index.  The rows are not those of any one index in between, so no sequence
leads through them.  `RowsInv` says instead what each outcome on its way leaves open: the rows are
those of the places that were announced, except for the days and projects that an outcome is still to
rebuild; every announced place is filed under its day, except those an outcome is still to move.
When no outcome is left nothing is open, which is `RowsMatchIndex`.  Sums are over sets of places, for
the code adds them in the order they were filed in (`CountedEitherWay`: any order gives the same).

**Codex's total** (`LiveViews_proofs`).  The day's total is a sum over the stream, kept by addition and
computed anew at midnight from what was accepted.  That a total of two sequences is the sum of both
is an induction; the work is in what the stream is made of: a file's bytes are cut into lines by
the cursor and lines are made events by the parser, across rewinds and replays.  `CodexInv` has
those types and that a log holds at most its session's history.

**Grok's models** (`LiveViews_proofs`).  `ModelInTime` and `StreamedAgainOnNews` compare the model a
request was streamed with to what any reader could have given it who knew the turns on disk when the
pass began.  `GrokInv` gets there from the bytes.  `Clear`: no line runs into another.  `Fits`: a
cursor stands behind a newline and its tail is what follows in the file, so what is fed next are
whole lines (`FedFits`), also after a file was seen short, for its bytes come back the same.  `Knows`:
every turn whose newline the cursor has passed is in the session's timeline, by time and once
(`RecordKeeps`).  `NotedKnown`: while the turns are read, what is noted is on disk, and known for each
file that is done; so when the requests are read, all of it is.  The model a sorted timeline gives to
a time (`ModelAtIs`) is then one of those the noted turns leave open (`Models`).  A request that
is accepted again has another key and so another model; that model too was open when it was first
streamed, because timelines only grow (`StreamedRight`), so the first was not the only one.

**One owner** (`DaemonLifecycle_proofs`).  `OneOwner` speaks of steps and follows from what a process
holds at them: `Locked` (past `lock`, the lock of the file it has open is its own), `Placed` (past
`recheck`, that file is the one at the path), `LocksHeld` (nobody holds a lock after closing),
`Opened`, `Bound` (past `listen`, the socket at the path is its own) and `Named` (while it serves, so
is the record).  Two owners would hold the lock of the one file at the path.  `Placed` survives
another's `remove` because only an owner removes, and `Locked` survives a new file because its inode
is none that is open.  `ServingIsPublished` follows, and with it the refinement: a step changes the
owner only from nobody to somebody or back (`OneMoves`, `StepRefines`).

**Nothing left** (`DaemonLifecycle_proofs`).  `NoLeftovers` needs who answers for what is there.  While none crashed:
the socket at the path was bound by a process that is still on its way to remove it, no socket is
found stale, the PID file at the path belongs to its creator before the lock or to a holder of its
lock, and who has published is to remove it (`Kept`).  Ending, failed starts included, passes each of
these on or removes the file.

**Own rows, kept stops** (`DaemonServe_proofs`).  `OnePlace` (a connection is in one queue or with
one thread, once) makes an answer its client's.  `Promises` says what an answer carries on its way: rows
for the daemon's arguments, or the acknowledgement of a stop; `StoppersWait` that who made the loop
end has such an answer and is waiting or stopped.  A client that gives up has none, so `Handle` could
not write to it, and did not end.

**The caches are invisible** (`ParseCache_proofs`).  The invariant is what a cache file may be
trusted with (`BlobOK`): a stamp no later than what its records were read from.  It holds for complete
files and for what a process is about to write, whoever dies in between, because the stamp is taken
first.  A hit compares that stamp with one taken after the load began, so the records are of a version
the log has had since (`FreshRows`).  `ProcOK` says so for each call of a load, `Stays` lemmas say
that a change of a log or another process's step takes nothing of it away, and `Refinement` turns the
last step of a load into `FreshLoad`'s `Answer`.

**The report of all agents** (`Reports_proofs`).  The invariant follows each agent's message: its thread
has not sent it, or it is in the channel, or in one of the two lists, and in one place only.  The channel
closes when nobody holds a sender, and a thread holds its own until it ends, so what is received is
all there is; a panic shows at the join.  So `loaded` holds
every agent or `errors` the first that failed.  `AllCounted` then needs that sorting agents that are
all there gives `1..Agents` (`InOrderIs`: what is increasing from a range to itself moves nothing),
and that the sum over rows one after another is the sum of the sums (`SumInBoth`, `SumOfAll`).
For `TidyEnd`, a thread draws only
while its owner is in its session, and whenever the cursor is hidden some owner that drew is still in
its own: two owners share a line of the terminal, so it need not be the one that hid it.

**The status line** (`Reports_proofs`).  `StaleBounded` is about steps: a line taken from the cache is
younger than the interval, or a process that lives is about to replace it.  `SLInv` says that in every
copy of the cache, in the file or read by a process, the line is no older than its date, that a mark in the
file names a process that lives, and that what is written back on release marks nobody.

**Blocks** (`Reports_proofs`).  `OneActive`, like `EntriesOnce`, has its theorem only.  The invariant adds the
block under way: the last entry is in it, its entries are within its window, and what was pushed lies
before.  `Gaps` follows from a break's condition and from the order of the entries.

| theorem | module |
|---|---|
| `PushKeepsGood`, `Invariance`, `TypeCorrect`, `ResponsesOnce` (`OneEntryPerResponse`), `PushKeepsBest`, `SameWinners`, `KeptAsScanned` (`IndexMatchesCursors`), `KeptAsOnDisk` (`IndexMatchesDisk`) | `ClaudeWatch_proofs` |
| `LiveIndexIsGood`, `GrowthStreamed` (`GrowthIsStreamed`), `StreamedOnceEach` (`StreamedAtMostHeld`), `BookOfEntries` (`BookMatchesIndex`), `RowsOfEntries` (`RowsMatchIndex`) | `ClaudeViews_proofs` |
| `TotalOfStream` (`TotalMatchesStream`), `ModelKnownInTime` (`ModelInTime`), `AgainOnlyOnNews` (`StreamedAgainOnNews`) | `LiveViews_proofs` |
| `Invariance`, `TypeCorrect`, `Exclusion` (`OneOwner`), `Published` (`ServingIsPublished`), `Refinement` (`OwnerSpec`), `NothingLeft` (`NoLeftovers`) | `DaemonLifecycle_proofs` |
| `Invariance`, `TypeCorrect`, `Places` (`OnePlace`), `OwnRows` (`TakesOwnRows`), `NothingStopped` (`FailedStopsNothing`) | `DaemonServe_proofs` |
| `Invariance`, `TypeCorrect`, `Refinement` (`Fresh`) | `ParseCache_proofs` |
| `ReportInvariance`, `AllCounted` (`AllOrFirstError`), `Tidy` (`TidyEnd`), `LineInvariance`, `StaleBounded` (`StaleIsBounded`) | `Reports_proofs` |
| `BlocksInvariance`, `BlocksTypeCorrect`, `SharedOut` (`EntriesOnce`), `Windows` (`InWindow`), `OnlyLastActive` (`OneActive`), `Gaps` (`GapsAreSilences`) | `Reports_proofs` |

**Only model-checked**, and why:

* `SpentOnce`: it holds of sessions as `MCCodexLive` has them and not of all (finding 2 is a session
  that breaks it), so a theorem would first have to say which.
* `CountedOnce`, `AnswersOnce`, `EachOnce`,
  `ReadAsSpent`, `PricedOrTold`, `CommandLineWins`: most of what they say is what recursive
  definitions and folds compute for each input.
* All liveness (`CatchesUp`, `AlertsFire`, `RowsCatchUp`, `StartSucceeds`, `ShutdownEnds`,
  `StopIsKept`, `NobodyHangs`, `PollsWhenQuiet`, `CacheHeals`, `ViewsCatchUp`, `ShowsTheLast`,
  `AllReportEnds`), which this prover does not reach.

## 7. Not modelled

The map covers about a fifth of the implementation's lines.  What is left out keeps no state between
two steps that another actor could disturb, or is data:

* The text of lines, fields and times in as many formats as there are agents, Antigravity's protobuf, rendering of tables and cards, JSON
  output, webhooks, HTTP, limits, doctor, import, wrapped: pure functions of their input, or one call
  to the network.  They are most of the code.  A model of a JSON parser would be a second parser.
* Several token classes are one number (`CodexLive`, `CodexLoad`, `ClaudeReports`, `AgentLoaders`), one
  price is that of all kinds of tokens (`AgentCosts`; so Grok's price for long contexts is left out),
  and a floating-point cost a natural number or the table it comes from.
* Two changes of a log of the same size within one tick of the file system's clock: the stamp cannot
  tell them apart (`watch.rs:64`), and the models assume later change times.
* Hash collisions of `prefix_hash`, of `usage_identity`, of the stamps and of cache keys.
* A listing is taken at one moment; the code walks directories in parallel.  In `CodexLoad` the
  sessions' first lines are read in one step, and weekly and monthly reports are daily ones with
  longer days.
* In `AgentLoaders` amp and gemini, whose loaders do not deduplicate across sources; Grok's batch load;
  the sorting of rows.
* In `Prices` the fuzzy match of names, in `AllSections` the order of rows, in `Invocation` the formats of values, help and the commands that make no report.
* In `DaemonLifecycle` the parent of `start`, which waits for its child and changes nothing shared.
* Windows: the daemon is Unix only, and change times are modelled as Unix has them.
* Everything marked `not_modelled` or `partly` in `PROJECT.json`, with the reason there.

## 8. How to run

    tlc -workers 2 -config MCClaudeWatch.cfg MCClaudeWatch
    tlc -workers 2 -config MCDaemon.cfg DaemonLifecycle
    tlc -workers 2 -config MCReports.cfg MCReports
    tlapm ParseCache_proofs.tla

`PROJECT.json` lists the runs, the source lines behind every definition, the hazards with the
properties that would catch them, and for each checked property a mutated definition under which TLC
finds it violated.
