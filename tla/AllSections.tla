----------------------------- MODULE AllSections -----------------------------
(***************************************************************************)
(* What the report of all agents says (crates/turbotokens-adapter-all):    *)
(* the logs are read once for the sections by days, weeks and months, and  *)
(* once more for the one by sessions, while agents go on writing; each     *)
(* agent's rows are made and put in the range of dates in its own way.     *)
(*                                                                         *)
(* Threads and errors are AllReport's, deduplication and parsing each      *)
(* loader's own module.  An entry's four kinds of tokens that have columns *)
(* are one number, `shown`; `extra` are those that are in the total only.  *)
(***************************************************************************)
EXTENDS Integers, SequencesExt, FiniteSetsExt, TLC

CONSTANTS
    Logs,           \* the logs there may be: per source, its entries
    Before,         \* how many of them are written at first, per source
    Questions,      \* what may be asked, of which kind, with which sections, dates, stores
    Link,           \* canonicalize, of paths that are directories
    WeekOf(_), MonthOf(_),
    None

VARIABLES
    logs,           \* per source: what its program has written or will
    written,        \* per source: how many entries of it are written
    asked,          \* the question
    stores,         \* resolve_named_pi_store_paths: per store its paths; None before
    base,           \* per base, per agent that is loaded: its rows, and whether it is detected
    sections        \* the sections, None before there are any

asvars == <<logs, written, asked, stores, base, sections>>

BuiltIn == {"claude", "codex", "opencode", "codebuff", "qwen", "pi"}

----------------------------------------------------------------------------
(***************************************************************************)
(* Sums: TokenCounts, ModelBreakdown, UsageSummary.                        *)
(***************************************************************************)
NoUse == [shown |-> 0, extra |-> 0, cost |-> 0]

Plus(u, v) == [part \in DOMAIN NoUse |-> u[part] + v[part]]

Tokens(use) == use.shown + use.extra

SumOf(uses) == FoldLeft(Plus, NoUse, uses)

NoModel == NoUse @@ [missing |-> FALSE]

\* merge_model_breakdowns.
PlusModels(m, n) ==
    LET at(models, model) == IF model \in DOMAIN models THEN models[model] ELSE NoModel
    IN  [model \in DOMAIN m \cup DOMAIN n |->
            Plus(at(m, model), at(n, model))
                @@ [missing |-> at(m, model).missing \/ at(n, model).missing]]

OfModel(e) == IF e.model = None THEN <<>> ELSE e.model :> (Plus(e.use, NoUse) @@ [missing |-> e.missing])

\* UsageAccumulator.
Summary(period, entries) ==
    [period |-> period, use |-> SumOf([i \in DOMAIN entries |-> entries[i].use]),
     models |-> FoldLeft(LAMBDA models, e : PlusModels(models, OfModel(e)), <<>>, entries),
     last |-> None, project |-> None]

Grouped(entries, KeyOf(_), SummaryOf(_, _)) ==
    {SummaryOf(key, SelectSeq(entries, LAMBDA e : KeyOf(e) = key)) : key \in {KeyOf(e) : e \in ToSet(entries)}}

\* summarize_by_key of dates.
ByDay(entries) == Grouped(entries, LAMBDA e : e.day, Summary)

\* SessionAccumulator: the session and the project of its latest entry, the first of these.
SessionSummary(key, entries) ==
    LET latest == CHOOSE i \in DOMAIN entries : \A j \in DOMAIN entries :
            entries[j].at < entries[i].at \/ (entries[j].at = entries[i].at /\ i <= j)
    IN  [Summary(entries[latest].session, entries)
            EXCEPT !.last = entries[latest].day, !.project = entries[latest].project]

----------------------------------------------------------------------------
(***************************************************************************)
(* Rows.                                                                   *)
(***************************************************************************)
\* date_within_range.
InRange(day) == asked.since <= day /\ day <= asked.until

\* filter_daily_summaries_by_date, filter_session_summaries.
Within(summaries, DayOf(_)) == {s \in summaries : InRange(DayOf(s))}

\* filter_loaded_entries_by_date, filter_events_by_date.
EntriesWithin(entries) == SelectSeq(entries, LAMBDA e : InRange(e.day))

Row(agent, s) ==
    [agent |-> agent, period |-> s.period, use |-> s.use, models |-> s.models, agents |-> {agent},
     by_agent |-> {}, project |-> s.project]

\* summary_rows: of what used no tokens there is none.
SummaryRows(agent, summaries) == {Row(agent, s) : s \in {s \in summaries : Tokens(s.use) > 0}}

\* codex_group_row: models' tokens that have no column are left out, and so is the project.
CodexRows(groups) ==
    {[Row("codex", s) EXCEPT !.models = [model \in DOMAIN s.models |-> [s.models[model] EXCEPT !.extra = 0]],
                             !.project = None] : s \in groups}

\* How a report by sessions tells them apart.
SessionKey(agent, e) == IF agent \in {"claude", "pi"} THEN <<e.project, e.session>> ELSE e.session

BySession(agent, entries) ==
    Grouped(entries, LAMBDA e : SessionKey(agent, e),
            LAMBDA key, of : IF agent = "codebuff" THEN Summary(key, of) ELSE SessionSummary(key, of))

Summaries(kind, agent, entries) == IF kind = "session" THEN BySession(agent, entries) ELSE ByDay(entries)

----------------------------------------------------------------------------
(***************************************************************************)
(* Stores of pi's format, beside pi's own: trees of files.  A path is a    *)
(* sequence of names.                                                      *)
(***************************************************************************)
\* existing_paths: directories, each once as it is written.
Existing(listed) ==
    FoldLeft(LAMBDA paths, path : IF path \in DOMAIN Link /\ path \notin ToSet(paths) THEN Append(paths, path) ELSE paths,
             <<>>, listed)

\* Mutant: nested paths are not found to overlap.
SameOnly(left, right) == left = right

Overlap(left, right) == IsPrefix(left, right) \/ IsPrefix(right, left)

\* A store's paths in turn: those no one owns are its own.
Claim(claimed, path) ==
    LET key == Link[path]
    IN  IF \E owned \in claimed.owned : Overlap(key, owned)
        THEN [claimed EXCEPT !.collides = TRUE]
        ELSE [claimed EXCEPT !.owned = @ \cup {key}, !.paths = Append(@, path)]

ResolveStore(resolved, store) ==
    LET claimed == FoldLeft(Claim, [owned |-> resolved.owned, paths |-> <<>>, collides |-> FALSE],
                            Existing(store.paths))
    IN  IF resolved.refused \/ claimed.collides THEN [resolved EXCEPT !.refused = TRUE]
        ELSE [owned |-> claimed.owned, of |-> (store.name :> claimed.paths) @@ resolved.of, refused |-> FALSE]

Resolved ==
    LET own == Existing(asked.pi_paths)
    IN  FoldLeft(ResolveStore,
                 [owned |-> {Link[path] : path \in ToSet(own)}, of |-> "pi" :> own, refused |-> FALSE],
                 asked.stores)

PathsOf(agent) == {Link[path] : path \in ToSet(stores.of[agent])}

\* load_entries_from_paths, of files anywhere below; each entry once.
FilesBelow(agent, entries) ==
    SelectSeq(entries, LAMBDA e : \E path \in PathsOf(agent) : IsPrefix(path, e.dir))

----------------------------------------------------------------------------
(***************************************************************************)
(* Loaders.                                                                *)
(***************************************************************************)
Source(agent) == IF agent \in DOMAIN stores.of THEN "pi" ELSE agent

EntriesOf(agent) ==
    LET entries == SubSeq(logs[Source(agent)], 1, written[Source(agent)])
    IN  IF agent \in DOMAIN stores.of THEN FilesBelow(agent, entries) ELSE entries

Found(rows, detected) == [rows |-> rows, detected |-> detected]

\* load_claude_rows: days are put in the range, and so are sessions as a whole.
ClaudeRows(kind, entries) ==
    LET s == Summaries(kind, "claude", entries)
        in == IF kind = "session" THEN Within(s, LAMBDA t : t.last) ELSE Within(s, LAMBDA t : t.period)
    IN  Found(SummaryRows("claude", in), s # {})

\* load_qwen_rows: sessions as a whole as well.
QwenRows(kind, entries) ==
    Found(SummaryRows("qwen",
            IF kind = "session" THEN Within(BySession("qwen", entries), LAMBDA s : s.last)
            ELSE ByDay(EntriesWithin(entries))),
          entries # <<>>)

\* load_codex_rows: the groups are made of all events, or of those in the range.
LoadCodexRows(kind, entries) ==
    Found(CodexRows(Summaries(kind, "codex", EntriesWithin(entries))), entries # <<>>)

\* Mutant: every loader tells by its entries whether there are any.
ByEntries(kind, agent, entries) ==
    LET read == IF agent = "opencode" THEN EntriesWithin(entries) ELSE entries
    IN  Found(SummaryRows(agent, Summaries(kind, agent, EntriesWithin(read))), read # <<>>)

\* load_summary_agent_rows.  The OpenCode loader reads what is in the range, and is asked whether
\* there is anything else (opencode::has_data).
EntryRows(kind, agent, entries) ==
    LET read == IF agent = "opencode" THEN EntriesWithin(entries) ELSE entries
    IN  Found(SummaryRows(agent, Summaries(kind, agent, EntriesWithin(read))),
              read # <<>> \/ (agent = "opencode" /\ entries # <<>>))

AgentRows(kind, agent) ==
    LET entries == EntriesOf(agent)
    IN  CASE agent = "claude" -> ClaudeRows(kind, entries)
          [] agent = "codex" -> LoadCodexRows(kind, entries)
          [] agent = "qwen" -> QwenRows(kind, entries)
          [] OTHER -> EntryRows(kind, agent, entries)

----------------------------------------------------------------------------
(***************************************************************************)
(* Sections.                                                               *)
(***************************************************************************)
\* merge_agent_breakdown.
MergeRow(target, row) ==
    [target EXCEPT !.use = Plus(@, row.use), !.models = PlusModels(@, row.models)]

\* AllAccumulator: of an agent's rows one, and of these the sums.
AllRow(period, rows) ==
    LET of(agent) == {row \in rows : row.agent = agent}
        one(agent) == LET some == CHOOSE row \in of(agent) : TRUE
                      IN  FoldSet(LAMBDA row, merged : MergeRow(merged, row),
                                  [some EXCEPT !.period = period], of(agent) \ {some})
        by_agent == {one(agent) : agent \in {row.agent : row \in rows}}
    IN  [agent |-> "all", period |-> period,
         use |-> FoldSet(LAMBDA row, sum : Plus(sum, row.use), NoUse, rows),
         models |-> FoldSet(LAMBDA row, sum : PlusModels(sum, row.models), <<>>, by_agent),
         agents |-> UNION {row.agents : row \in rows}, by_agent |-> by_agent, project |-> None]

PeriodOf(kind, day) ==
    CASE kind = "daily" -> day [] kind = "weekly" -> WeekOf(day) [] kind = "monthly" -> MonthOf(day)

AggregateRows(kind, rows) ==
    LET period(row) == PeriodOf(kind, row.period)
    IN  {AllRow(p, {row \in rows : period(row) = p}) : p \in {period(row) : row \in rows}}

FinishRows(kind, rows) ==
    IF kind = "session" THEN {[row EXCEPT !.agents = {}] : row \in rows} ELSE AggregateRows(kind, rows)

\* requested_sections: the command's, and then the others that are asked for, in this order.
Requested ==
    <<asked.kind>> \o SelectSeq(<<"daily", "weekly", "monthly", "session">>,
                                LAMBDA kind : kind # asked.kind /\ kind \in asked.sections)

BaseOf(kind) == IF kind = "session" THEN "session" ELSE "daily"

\* load_sections: the base of days is loaded before that of sessions.
Bases == SelectSeq(<<"daily", "session">>, LAMBDA b : \E i \in DOMAIN Requested : BaseOf(Requested[i]) = b)

AllAgents == BuiltIn \cup DOMAIN stores.of

RowsOf(b) == UNION {base[b][agent].rows : agent \in AllAgents}

Detected(b) == {agent \in AllAgents : base[b][agent].detected}

\* totals_json.
Totals(rows) == FoldSet(LAMBDA row, sum : Plus(sum, row.use), NoUse, rows)

\* print_missing_pricing_warnings of a table.
MissingIn(rows) == UNION {{m \in DOMAIN row.models : row.models[m].missing} : row \in rows}

\* load_project_aggregates, for the cards.
ProjectAggregates(rows) ==
    LET told == {row \in rows : row.project \notin {None, ""} /\ Tokens(row.use) > 0}
    IN  [p \in {row.project : row \in told} |-> Totals({row \in told : row.project = p})]

----------------------------------------------------------------------------
\* A program goes on writing.
WriteEntry(source) ==
    /\ sections = None
    /\ written[source] < Len(logs[source])
    /\ written' = [written EXCEPT ![source] = @ + 1]
    /\ UNCHANGED <<logs, asked, stores, base, sections>>

\* load_base_rows, before it starts the loaders.
ResolveStores ==
    /\ stores = None
    /\ stores' = Resolved
    /\ UNCHANGED <<logs, written, asked, base, sections>>

Loading == {i \in DOMAIN Bases : DOMAIN base[Bases[i]] # AllAgents}

\* A loader ends, in any order.
LoadAgent(agent) ==
    /\ stores # None /\ ~stores.refused
    /\ Loading # {}
    /\ LET b == Bases[Min(Loading)]
       IN  /\ agent \notin DOMAIN base[b]
           /\ base' = [base EXCEPT ![b] = (agent :> AgentRows(b, agent)) @@ @]
    /\ UNCHANGED <<logs, written, asked, stores, sections>>

Finish ==
    /\ stores # None /\ ~stores.refused /\ Loading = {} /\ sections = None
    /\ sections' = [i \in DOMAIN Requested |->
                        [kind |-> Requested[i], rows |-> FinishRows(Requested[i], RowsOf(BaseOf(Requested[i]))),
                         detected |-> Detected(BaseOf(Requested[i]))]]
    /\ UNCHANGED <<logs, written, asked, stores, base>>

ASInit ==
    /\ logs \in Logs
    /\ written = [source \in DOMAIN logs |-> Len(logs[source]) - Before[source]]
    /\ asked \in Questions
    /\ stores = None
    /\ base = [b \in {"daily", "session"} |-> <<>>]
    /\ sections = None

ASNext ==
    \/ ResolveStores \/ Finish
    \/ \E source \in DOMAIN logs : WriteEntry(source)
    \/ \E agent \in BuiltIn \cup {asked.stores[i].name : i \in DOMAIN asked.stores} : LoadAgent(agent)

----------------------------------------------------------------------------
(***************************************************************************)
(* What is owed.                                                           *)
(***************************************************************************)
\* The first n entries of a source; of pi's format, those in a tree that a store has or pi.
Entries(source, n) ==
    LET paths == UNION {PathsOf(agent) : agent \in DOMAIN stores.of}
        all == SubSeq(logs[source], 1, n)
    IN  IF source = "pi" THEN SelectSeq(all, LAMBDA e : \E path \in paths : IsPrefix(path, e.dir)) ELSE all

\* Days count one by one, unless they used no tokens, which Codex's do all the same.
DayOwed(source, n, e) ==
    /\ InRange(e.day)
    /\ \/ source = "codex"
       \/ \E i \in DOMAIN Entries(source, n) :
            Entries(source, n)[i].day = e.day /\ Tokens(Entries(source, n)[i].use) > 0

\* Sessions of Claude and Qwen count as a whole, if the last of them is in the range.
SessionOwed(source, n, e) ==
    LET all == Entries(source, n)
        of == SelectSeq(all, LAMBDA d : SessionKey(source, d) = SessionKey(source, e))
        last == CHOOSE d \in ToSet(of) : \A c \in ToSet(of) : c.at <= d.at
    IN  /\ InRange(IF source \in {"claude", "qwen"} THEN last.day ELSE e.day)
        /\ \/ source = "codex"
           \/ \E d \in ToSet(of) : Tokens(d.use) > 0 /\ (source \in {"claude", "qwen"} \/ InRange(d.day))

Owed(source, n, kind, period) ==
    LET owed == SelectSeq(Entries(source, n), LAMBDA e :
                    IF kind = "session" THEN SessionOwed(source, n, e)
                    ELSE DayOwed(source, n, e) /\ PeriodOf(kind, e.day) = period)
    IN  SumOf([i \in DOMAIN owed |-> owed[i].use])

Periods(kind) == {PeriodOf(kind, e.day) : e \in UNION {ToSet(logs[source]) : source \in DOMAIN logs}}

\* What the rows say of a source, in a period or in all sessions.
Told(source, kind, rows, period) ==
    LET of == UNION {IF kind = "session" THEN {row} ELSE row.by_agent :
                        row \in {row \in rows : kind = "session" \/ row.period = period}}
    IN  FoldSet(LAMBDA row, sum : Plus(sum, row.use), NoUse, {row \in of : Source(row.agent) = source})

\* The moment of a source from which all of the sections by days are, or the one by sessions.
OwedAt(source, n, kinds) ==
    \A i \in DOMAIN sections : sections[i].kind \in kinds =>
        \A period \in IF sections[i].kind = "session" THEN {None} ELSE Periods(sections[i].kind) :
            Told(source, sections[i].kind, sections[i].rows, period)
                = Owed(source, n, sections[i].kind, period)

\* A row is the sum of its agents' and, but for entries that name no model, of its models'.
RowsAddUp(rows) ==
    \A row \in rows :
        /\ row.by_agent # {} => Totals(row.by_agent) = row.use
        /\ FoldSet(LAMBDA m, sum : sum + row.models[m].shown, 0, DOMAIN row.models) <= row.use.shown
        /\ \A a \in row.by_agent : row.agents = {b.agent : b \in row.by_agent}

\* Each section tells of every agent's tokens and costs in its dates once: those by days, weeks and
\* months as of the same moment, and the one by sessions as of that moment or a later one.  Rows are
\* the sums of what they are divided into.  Stores that share files are refused, and no others.
\* Whichever dates are asked for, agents that have been used are told of, and so are models that
\* have no price.
SectionsAgree ==
    /\ sections # None =>
        /\ \A source \in DOMAIN logs :
            \E n, m \in (Len(logs[source]) - Before[source])..written[source] :
                /\ n <= m
                /\ OwedAt(source, n, {"daily", "weekly", "monthly"})
                /\ OwedAt(source, m, {"session"})
        /\ \A i \in DOMAIN sections :
            /\ RowsAddUp(sections[i].rows)
            /\ LET projects == ProjectAggregates(sections[i].rows)
               IN  FoldSet(LAMBDA p, sum : Plus(sum, projects[p]), NoUse, DOMAIN projects)
                    = Totals({row \in sections[i].rows : row.project \notin {None, ""}})
            /\ {source \in DOMAIN logs : Entries(source, Len(logs[source]) - Before[source]) # <<>>}
                    \subseteq {Source(agent) : agent \in sections[i].detected}
            /\ \A j \in DOMAIN sections :
                sections[i].kind # "session" /\ sections[j].kind # "session" =>
                    MissingIn(sections[i].rows) = MissingIn(sections[j].rows)
    /\ stores # None /\ ~stores.refused =>
        \A agent, other \in DOMAIN stores.of : agent # other =>
            ~\E p \in PathsOf(agent), q \in PathsOf(other) : IsPrefix(p, q)
    /\ stores # None /\ stores.refused =>
        LET listed == Existing(asked.pi_paths) \o FlattenSeq([i \in DOMAIN asked.stores |-> Existing(asked.stores[i].paths)])
        IN  \E i, j \in DOMAIN listed : i # j /\ IsPrefix(Link[listed[i]], Link[listed[j]])
=============================================================================
