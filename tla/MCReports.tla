------------------------------ MODULE MCReports -----------------------------
(***************************************************************************)
(* One process runs one command: the reports that are made once and end,   *)
(* and the status line, whose processes share a cache file.  Each instance *)
(* has the variables of all; those of the other commands stay as they are. *)
(***************************************************************************)
EXTENDS SessionBlocks, Statusline, AllReport, SequencesExt, FiniteSets, TLC

CONSTANTS
    Worker, Kinds, Pause, LongContext, BadTime, None,
    Message, Request, Date, Project, Model, Threads, Reports, Since, Until,
    Unset, Unusable

VARIABLES
    command,
    world, kind, chunk, grown, stage, metadata, parent_usage, batch, worker, seen, groups,
    logs, report, filter, written, chunks, read, rows,
    install, version, reading, got, content, entries, ended,
    offline, primary, find_cache, models_dev, last_failure, fetches, step, found, again, costed,
    argv, disk, detected, config, index, phase, running, settings, unified,
    chat, told, text, place, held,
    codex, log, accounted,
    used, noted, question, shelves, shelf, parts

----------------------------------------------------------------------------
\* Up to four entries within eight hours' quarters.
SmallTimelines == {t \in UNION {[1..n -> 0..7] : n \in 0..4} : Ascending(t)}

MCRows == << << <<"d1", 1>>, <<"d2", 2>> >>, << <<"d2", 3>> >>, <<>> >>

DayOf(at) == IF at < 10 THEN "mon" ELSE "tue"
InRange(day) == TRUE

Event(request, at, model, tokens, tier) ==
    [request |-> request, at |-> at, model |-> model, tokens |-> tokens, tier |-> tier, own |-> TRUE]

Session(path, dir, id, parent, forked_at, events, later) ==
    [path |-> path, dir |-> dir, id |-> id, parent |-> parent, forked_at |-> forked_at,
     events |-> events, later |-> later]

\* An event as a fork writes it down again.
Again(event, at) == [event EXCEPT !.at = at, !.own = FALSE]

R1 == Event("r1", 1, "a", 2, None)
R2 == Event("r2", 3, "b", 3, "fast")
R3 == Event("r3", 12, "a", 4, None)
R4 == Event("r4", 14, "a", 4, None)
R5 == Event("r5", 20, "b", 9, "fast")

\* A fork of a session that goes on, and a fork of the fork in another directory.
Forks ==
    << Session("parent", 1, "p", None, 0, <<R1, R2>>, <<R3>>),
       Session("child", 1, "c", "p", 5, <<Again(R1, 5), Again(R2, 5), R4>>, <<>>),
       Session("grandchild", 2, "g", "c", 16, <<Again(R1, 16), Again(R2, 16), Again(R4, 17), R5>>, <<>>) >>

\* A fork whose parent is gone, and a session that names itself as its parent.
Orphans ==
    << Session("orphan", 1, "c", "gone", 5, <<Again(R1, 5), Again(R2, 6), R4>>, <<>>),
       Session("self", 1, "s", "s", 1, <<R1, R2>>, <<R3>>) >>

\* A log and its archived copy, with other tiers, and a fork of either.
Archived ==
    << Session("one", 1, "x", None, 0, <<R1, R2>>, <<>>),
       Session("two", 2, "x", None, 0, <<[R1 EXCEPT !.tier = "fast"], [R2 EXCEPT !.tier = "standard"]>>, <<R4>>),
       Session("three", 2, "y", "x", 5, <<Again(R1, 5), Again(R2, 5)>>, <<R5>>) >>

Damaged ==
    << Session("one", 1, "x", None, 0, <<R1, Event("r0", BadTime, "a", 1, None)>>, <<>>),
       Session("two", 1, "y", None, 0, <<R2, R4>>, <<>>) >>

Worlds == {Forks, Orphans, Archived, Damaged}

----------------------------------------------------------------------------
\* A response and one advisor's answer in it.
Messages == {"m1", "m2"} \X {0, 1}

Record(id, req, side, tokens, cost, date, utc, nested, advisors) ==
    [id |-> id, req |-> req, side |-> side, tokens |-> tokens, cost |-> cost, speed |-> FALSE,
     date |-> date, utc |-> utc, nested |-> nested, advisors |-> advisors]

ClaudeLog(project, id, records, before) ==
    [project |-> project, session |-> id, records |-> records, before |-> before]

\* A response while it streams and once it is whole, its replay in a sidechain, and its message
\* under another request.
Streaming == Record("m1", "q1", FALSE, 1, 1, 1, 1, FALSE, <<>>)
Whole == Record("m1", "q1", FALSE, 2, 1, 1, 1, FALSE, <<16>>)
Replayed == Record("m1", "q3", TRUE, 32, 5, 2, 1, FALSE, <<>>)
Retried == Record("m1", "q4", FALSE, 64, 5, 9, 9, FALSE, <<>>)

\* A subagent's response as its parent's log wraps it, and as its own log has it.
Wrapped == Record("m2", "q2", FALSE, 4, 0, 2, 2, TRUE, <<>>)
Direct == Record("m2", "q2", FALSE, 4, 2, 2, 2, FALSE, <<>>)

Anonymous == Record(None, "q2", FALSE, 8, 3, 9, 9, FALSE, <<>>)

ClaudeListings ==
    { << ClaudeLog("p1", "s1", <<Streaming, Wrapped, Whole>>, 1),
         ClaudeLog("p1", "s2", <<Replayed>>, 1),
         ClaudeLog("p2", "s1", <<Direct, Anonymous>>, 1) >>,
      << ClaudeLog("p2", "s1", <<Anonymous, Replayed>>, 1),
         ClaudeLog("p1", "s1", <<Whole, Retried>>, 1),
         ClaudeLog("p2", "s3", <<Whole, Wrapped>>, 2) >> }

WeekOf(day) == IF day < 5 THEN 1 ELSE 8

CX == INSTANCE CodexLoad
CR == INSTANCE ClaudeReports WITH Listings <- ClaudeListings
MI == INSTANCE MCInstalls
AG == INSTANCE AgentLoaders WITH
    Installs <- MI!Installs, Day <- 4, MinMillis <- 100, Sampled <- 8, Since <- 101, Until <- 102
PR == INSTANCE Prices WITH
    Reader <- 1..3, Records <- MI!Bills, Builtin <- {"old"}, Refreshed <- {"old", "newer"},
    Overrides <- {}, ModelsDev <- {"new"}, Snapshot <- {}, MaxFetches <- 3
MA == INSTANCE MCInvocations
MB == INSTANCE MCReadings
RD == INSTANCE UsageReadings WITH
    Sessions <- MB!Sessions, Normalized <- MB!Normalized, DefaultModel <- MB!DefaultModel,
    ZaiModels <- {"Big"}, Cutoff <- 40,
    session <- chat, written <- told, content <- text, at <- place, parsed <- held
MS == INSTANCE MCSections
CD == INSTANCE CodexReadings WITH
    Prices <- MS!Prices, Split <- MS!Split, Bills <- MS!Bills, Ways <- MS!Ways, Results <- MS!Results,
    Turned <- {"a", "review"}, Applied <- {"default", "priority", "flex"}, AutoReview <- "review",
    Gpt5 <- "gpt", Fallbacks <- MS!Fallbacks, Modified <- 2,
    MaxLines <- 4, MaxChanges <- 2, MaxRequests <- 2, found <- accounted
AS == INSTANCE AllSections WITH
    Logs <- MS!Logs, Before <- MS!Before, Questions <- MS!Questions, Link <- MS!Link,
    WeekOf <- MS!Week, MonthOf <- MS!Month,
    logs <- used, written <- noted, asked <- question, stores <- shelves, base <- shelf,
    sections <- parts
IV == INSTANCE Invocation WITH CommandLines <- MA!CommandLines, Disks <- MA!Disks

----------------------------------------------------------------------------
cxvars == <<world, kind, chunk, grown, stage, metadata, parent_usage, batch, worker, seen, groups>>
crvars == <<logs, report, filter, written, chunks, read, rows>>
agvars == <<install, version, reading, got, content, entries, ended>>
prvars == <<offline, primary, find_cache, models_dev, last_failure, fetches, step, found, again, costed>>
ivvars == <<argv, disk, detected, config, index, phase, running, settings, unified>>
rdvars == <<chat, told, text, place, held>>
cdvars == <<codex, log, accounted>>
asvars == <<used, noted, question, shelves, shelf, parts>>
vars == <<command, blvars, slvars, arvars, cxvars, crvars, agvars, prvars, ivvars, rdvars, cdvars, asvars>>

\* Of a command that is not run one initial state will do.
Init ==
    /\ command \in {"blocks", "statusline", "all", "codex", "claude", "agents", "prices",
                   "readings", "codexlog", "sections", "config"}
    /\ BLInit /\ (command # "blocks" => times = <<>> /\ now = 0)
    /\ SLInit
    /\ ARInit /\ (command # "all" => ~enabled /\ \A a \in 1..Agents : outcome[a] = "rows")
    /\ CX!CXInit /\ (command # "codex" => world = Damaged /\ kind = "daily" /\ \A f \in DOMAIN world : chunk[f] = 1)
    /\ CR!CRInit /\ (command # "claude" => Len(logs[2].records) = 1 /\ report = "daily")
    /\ AG!AGInit /\ (command # "agents" => install.agent = "goose")
    /\ PR!PRInit /\ (command # "prices" => offline)
    /\ IF command = "readings" THEN RD!RDInit
       ELSE chat = <<>> /\ told = 0 /\ text = None /\ place = 1 /\ held = <<>>
    /\ IF command = "codexlog" THEN CD!CDInit ELSE codex = <<>> /\ log = <<>> /\ accounted = None
    /\ IF command = "sections" THEN AS!ASInit
       ELSE used = <<>> /\ noted = <<>> /\ question = None /\ shelves = None /\ shelf = <<>> /\ parts = None
    /\ IF command = "config" THEN IV!IVInit
       ELSE /\ argv = <<>> /\ disk = {} /\ detected = {} /\ config = <<>> /\ index = 1
            /\ phase = "load" /\ running = {} /\ settings = <<>> /\ unified = FALSE

Next ==
    \/ /\ command = "blocks" /\ BLNext
       /\ UNCHANGED <<command, slvars, arvars, cxvars, crvars, agvars, prvars, ivvars, rdvars, cdvars, asvars>>
    \/ /\ command = "statusline" /\ SLNext
       /\ UNCHANGED <<command, blvars, arvars, cxvars, crvars, agvars, prvars, ivvars, rdvars, cdvars, asvars>>
    \/ /\ command = "all" /\ ARNext
       /\ UNCHANGED <<command, blvars, slvars, cxvars, crvars, agvars, prvars, ivvars, rdvars, cdvars, asvars>>
    \/ /\ command = "codex" /\ CX!CXNext
       /\ UNCHANGED <<command, blvars, slvars, arvars, crvars, agvars, prvars, ivvars, rdvars, cdvars, asvars>>
    \/ /\ command = "claude" /\ CR!CRNext
       /\ UNCHANGED <<command, blvars, slvars, arvars, cxvars, agvars, prvars, ivvars, rdvars, cdvars, asvars>>
    \/ /\ command = "agents" /\ AG!AGNext
       /\ UNCHANGED <<command, blvars, slvars, arvars, cxvars, crvars, prvars, ivvars, rdvars, cdvars, asvars>>
    \/ /\ command = "prices" /\ PR!PRNext
       /\ UNCHANGED <<command, blvars, slvars, arvars, cxvars, crvars, agvars, ivvars, rdvars, cdvars, asvars>>
    \/ /\ command = "readings" /\ RD!RDNext
       /\ UNCHANGED <<command, blvars, slvars, arvars, cxvars, crvars, agvars, prvars, ivvars, cdvars, asvars>>
    \/ /\ command = "codexlog" /\ CD!CDNext
       /\ UNCHANGED <<command, blvars, slvars, arvars, cxvars, crvars, agvars, prvars, ivvars, rdvars, asvars>>
    \/ /\ command = "sections" /\ AS!ASNext
       /\ UNCHANGED <<command, blvars, slvars, arvars, cxvars, crvars, agvars, prvars, ivvars, rdvars, cdvars>>
    \/ /\ command = "config" /\ IV!IVNext
       /\ UNCHANGED <<command, blvars, slvars, arvars, cxvars, crvars, agvars, prvars, rdvars, cdvars, asvars>>

\* SLFair and ARFair of the commands that are run.
Fair ==
    /\ \A r \in Run : WF_vars(command = "statusline" /\ RunStep(r) /\ UNCHANGED <<command, blvars, arvars, cxvars, crvars, agvars, prvars, ivvars, rdvars, cdvars, asvars>>)
    /\ \A r \in Run : WF_vars(command = "statusline" /\ BeginRun(r) /\ UNCHANGED <<command, blvars, arvars, cxvars, crvars, agvars, prvars, ivvars, rdvars, cdvars, asvars>>)
    /\ WF_vars(command = "statusline" /\ Tick /\ UNCHANGED <<command, blvars, arvars, cxvars, crvars, agvars, prvars, ivvars, rdvars, cdvars, asvars>>)
    /\ WF_vars(command = "all" /\ MainStep /\ UNCHANGED <<command, blvars, slvars, cxvars, crvars, agvars, prvars, ivvars, rdvars, cdvars, asvars>>)
    /\ \A a \in 1..Agents : WF_vars(command = "all" /\ LoaderStep(a) /\ UNCHANGED <<command, blvars, slvars, cxvars, crvars, agvars, prvars, ivvars, rdvars, cdvars, asvars>>)
    /\ \A o \in Owner : WF_vars(command = "all" /\ DrawStep(o) /\ UNCHANGED <<command, blvars, slvars, cxvars, crvars, agvars, prvars, ivvars, rdvars, cdvars, asvars>>)

Spec == Init /\ [][Next]_vars /\ Fair

----------------------------------------------------------------------------
\* A report of all agents ends, with loaders that fail and panic.
AllReportEnds == command = "all" => ReportEnds

\* Codex requests are counted once with their tier, forks and copies notwithstanding (load_groups),
\* and a report by days is the same by load_groups and by load_codex_events.
CountedOnce == CX!CountedOnce /\ CX!RoutesAgree

\* Reports of Claude logs count every answer once (load_daily_summaries_inner, load_entries_inner).
AnswersOnce == CR!AnswersOnce

\* Each request is counted once: by the other agents' loaders (load_entries of each), and in each of
\* the sections of the report of all agents (load_sections, resolve_named_pi_store_paths).
EachOnce == AG!EachOnce /\ AS!SectionsAgree

\* What costs nothing for want of a price is told of (cost_and_missing_model_for_usage, and
\* missing_pricing_model_for_candidates).
PricedOrTold == PR!PricedOrTold /\ RD!CostedOrTold /\ CD!BilledEach

\* The other agents' parsers read what a request used, whichever way it is told of (the parsers of
\* each).
ReadAsSpent == RD!ReadAsSpent /\ CD!ReadOnce

\* What the command line says is used before the config files, and of these the narrowest section
\* (apply_config_to_shared, parse_shared_arg).
CommandLineWins == IV!CommandLineWins

\* "Command-specific configuration for all-agent reports" (config_schema.rs:21), whatever comes
\* before the command (detect_config_command).
SectionsOfTheCommand == IV!SectionsOfTheCommand

\* "--until is inclusive" (docs/usage.md:27): sessions are told by run_session.
UntilIsInclusive == CR!UntilIsInclusive

=============================================================================
