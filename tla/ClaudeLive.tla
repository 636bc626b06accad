----------------------------- MODULE ClaudeLive -----------------------------
(***************************************************************************)
(* The live view of Claude usage (rust/adapters/claude/src/live.rs, with   *)
(* the book, the burn and the alerts of rust/adapters/common/src/live.rs). *)
(*                                                                         *)
(* One loop: roll the day over, poll the index, apply the poll's outcomes  *)
(* to the book, check the alerts, emit the new events, sleep.  The four    *)
(* token classes of a record are one number here: the code treats them     *)
(* alike.  Session rows keep their totals only; their model list and last  *)
(* activity, and the list of recent events, are display data.              *)
(***************************************************************************)
EXTENDS ClaudeWatch

CONSTANTS
    Calendar,       \* the days that pass, in order
    Threshold       \* per metric: the alert threshold, or None

Metric == {"cost", "tokens"}

ASSUME LiveAssumption ==
    /\ Calendar \in Seq(Date) /\ Calendar # <<>>
    /\ Threshold \in [Metric -> Nat \cup {None}]
    /\ Gone \notin Amounts

VARIABLES
    day,        \* the place of the present day in the calendar
    book,       \* LiveBook: today, today's totals, model totals, sessions
    burn,       \* tokens pushed to the burn window since the last tick
    live,       \* seeding is over
    events,     \* events the next tick emits
    fired,      \* metrics whose alert has fired
    streamed,   \* history: per identity, the events emitted
    spent,      \* history: per metric, what a fresh scan of the logs says was spent today
    held,       \* history: per file and identity, the most copies the file ever held
    reindexed   \* history: a reset has been applied

liveVars == <<book, burn, live, events, fired, streamed, reindexed>>
logVars == <<day, held, spent>>
allVars == <<vars, liveVars, logVars>>

Minus(t, e) == [tokens |-> t.tokens - e.tokens, cost |-> t.cost - e.cost]

\* The sum of the entries at these places.
Sum(entries, places) ==
    LET here(n, i) == IF i \in places THEN n ELSE 0
    IN  [tokens |-> SumTo([i \in DOMAIN entries |-> here(entries[i].tokens, i)], Len(entries)),
         cost |-> SumTo([i \in DOMAIN entries |-> here(entries[i].cost, i)], Len(entries))]

SumAt(places) == Sum(dd.entries, places)

----------------------------------------------------------------------------
(***************************************************************************)
(* The book.  A model without a row reads as zero; a session's row is      *)
(* absent until its first contribution.                                    *)
(***************************************************************************)
SessionKey == Project \X Session

NewBook(today) ==
    [today |-> today, totals |-> Zero, models |-> [m \in Model |-> Zero],
     sessions |-> [k \in SessionKey |-> Gone]]

\* The entry counts today, in the row of the model m.
IsToday(b, e, m) == e.date = b.today /\ e.model = m

AddContribution(b, e, s) ==
    [b EXCEPT
        !.totals = IF e.date = b.today THEN Plus(@, e) ELSE @,
        !.models = [m \in Model |-> IF IsToday(b, e, m) THEN Plus(@[m], e) ELSE @[m]],
        !.sessions[<<e.project, s>>] = Plus(IF @ = Gone THEN Zero ELSE @, e)]

SubtractContribution(b, e, s) ==
    [b EXCEPT
        !.totals = IF e.date = b.today THEN Minus(@, e) ELSE @,
        !.models = [m \in Model |-> IF IsToday(b, e, m) THEN Minus(@[m], e) ELSE @[m]],
        !.sessions[<<e.project, s>>] = IF @ = Gone THEN @ ELSE Minus(@, e)]

\* The row of a session whose totals came down to nothing goes away.
DropEmptySession(b, k) == [b EXCEPT !.sessions[k] = IF @ = Zero THEN Gone ELSE @]

\* The book of the whole index, in its order.
BookOfIndex(today) ==
    LET upTo[n \in 0 .. Len(dd.entries)] ==
            IF n = 0 THEN NewBook(today)
            ELSE AddContribution(upTo[n-1], dd.entries[n], deduped_sessions[n])
    IN  upTo[Len(dd.entries)]

PushBurn(window, tokens) == IF tokens > 0 THEN Append(window, tokens) ELSE window

SaturatingSub(a, b) == IF a > b THEN a - b ELSE 0

----------------------------------------------------------------------------
(***************************************************************************)
(* accept_outcome.                                                         *)
(***************************************************************************)
AcceptReset ==
    /\ Head(outcomes).kind = "Reset"
    /\ book' = BookOfIndex(book.today)
    /\ burn' = <<>>
    /\ reindexed' = TRUE
    /\ UNCHANGED events

AcceptAdded ==
    LET o == Head(outcomes) IN
    /\ o.kind = "Added"
    /\ book' = AddContribution(book, o.entry, o.session)
    /\ burn' = IF live /\ ~o.historical THEN PushBurn(burn, o.entry.tokens) ELSE burn
    /\ events' = IF o.historical THEN events
                 ELSE Append(events, Identity(o.entry, o.session))
    /\ UNCHANGED reindexed

AcceptReplaced ==
    LET o == Head(outcomes)
        without == SubtractContribution(book, o.previous, o.previous_session)
        cleared == DropEmptySession(without, <<o.previous.project, o.previous_session>>)
    IN
    /\ o.kind = "Replaced"
    /\ book' = AddContribution(cleared, o.entry, o.session)
    /\ burn' = IF live
               THEN PushBurn(burn, SaturatingSub(o.entry.tokens, o.previous.tokens))
               ELSE burn
    /\ UNCHANGED <<events, reindexed>>

Accept ==
    /\ Deliver
    /\ AcceptReset \/ AcceptAdded \/ AcceptReplaced
    /\ UNCHANGED <<live, fired, streamed, logVars>>

----------------------------------------------------------------------------
(***************************************************************************)
(* The loop around the poll.                                               *)
(***************************************************************************)
\* Mutant: the day changes and its totals do not.
RelabelToday == book' = [book EXCEPT !.today = Calendar[day]]

\* refresh_today: past midnight, today's totals start again from the index.
RefreshToday ==
    book' =
        IF book.today = Calendar[day] THEN book
        ELSE LET today == Calendar[day]
                 At(m) == {i \in DOMAIN dd.entries : dd.entries[i].date = today
                                                     /\ dd.entries[i].model = m}
             IN  [book EXCEPT
                     !.today = today,
                     !.totals = SumAt({i \in DOMAIN dd.entries : dd.entries[i].date = today}),
                     !.models = [m \in Model |-> SumAt(At(m))]]

StartTick ==
    /\ PollPaths
    /\ RefreshToday
    /\ UNCHANGED <<burn, live, events, fired, streamed, reindexed, logVars>>

\* Mutant: a threshold has to be passed, not reached.
CrossedAbove == {m \in Metric \ fired : Threshold[m] # None /\ book.totals[m] > Threshold[m]}

\* AlertState::check: the metrics whose threshold today's totals reach for the first time.
Crossed ==
    {m \in Metric \ fired :
        /\ Threshold[m] # None
        /\ book.totals[m] >= Threshold[m]}

Occurrences(s, x) == Cardinality({i \in DOMAIN s : s[i] = x})

\* The end of a tick, the first one being the startup's: alerts, then events, then metrics.
EndTick ==
    /\ Sleep
    /\ live' = TRUE
    /\ fired' = fired \cup Crossed
    /\ streamed' = [k \in Identities |-> streamed[k] + Occurrences(events, k)]
    /\ events' = <<>>
    /\ burn' = <<>>
    /\ UNCHANGED <<book, reindexed, logVars>>

\* What a fresh scan of these logs says was spent on a day.
SpentOn(today, logs) ==
    LET entries == ScanFresh(EntriesIn([f \in File |->
                       IF logs[f] = Gone THEN Gone ELSE logs[f].bytes])).entries
    IN  Sum(entries, {i \in DOMAIN entries : entries[i].date = today})

Midnight ==
    /\ day < Len(Calendar)
    /\ day' = day + 1
    /\ spent' = SpentOn(Calendar[day + 1], disk)
    /\ UNCHANGED <<vars, liveVars, held>>

----------------------------------------------------------------------------
\* How often the file f holds a record of the identity k.
Copies(image, f, k) ==
    IF image = Gone THEN 0
    ELSE LET scanned == ScanLines(f, image.bytes)
         IN  Occurrences([i \in DOMAIN scanned |->
                             Identity(scanned[i].entry, scanned[i].session)], k)

LiveInit ==
    /\ Init
    /\ day = 1
    /\ book = NewBook(Calendar[1])
    /\ burn = <<>>
    /\ live = FALSE
    /\ events = <<>>
    /\ fired = {}
    /\ streamed = [k \in Identities |-> 0]
    /\ held = [f \in File |-> [k \in Identities |-> Copies(disk[f], f, k)]]
    /\ spent = SpentOn(Calendar[1], disk)
    /\ reindexed = FALSE

LiveAgent ==
    /\ Agent
    /\ held' = [f \in File |->
                  IF disk'[f] = disk[f] THEN held[f]
                  ELSE [k \in Identities |-> Max({held[f][k], Copies(disk'[f], f, k)})]]
    /\ spent' = SpentOn(Calendar[day], disk')
    /\ UNCHANGED <<liveVars, day>>

LiveIndex ==
    \/ (Seed \/ Reading) /\ UNCHANGED <<liveVars, logVars>>
    \/ StartTick \/ Accept \/ EndTick

LiveNext == LiveAgent \/ LiveIndex \/ Midnight

\* The loop never stops; the agents may, and days need not pass.
LiveSpec == LiveInit /\ [][LiveNext]_allVars /\ WF_allVars(LiveIndex)
----------------------------------------------------------------------------
(***************************************************************************)
(* Properties.                                                             *)
(***************************************************************************)
PlacesOf(P(_)) == {i \in DOMAIN dd.entries : P(i)}

SessionTotals(k) == IF book.sessions[k] = Gone THEN Zero ELSE book.sessions[k]

\* Unsigned counters that are not below zero.
Positive == \A t \in {book.totals} \cup {book.models[m] : m \in Model}
                      \cup {SessionTotals(k) : k \in SessionKey} : t.tokens >= 0 /\ t.cost >= 0

\* Between polls the running totals, per day, model and session, are exactly those of the
\* entries the index keeps, whatever additions, replacements, resets and midnights led there; in
\* between, in any order a poll applies its outcomes, none goes below zero.
BookMatchesIndex ==
    /\ Positive
    /\ pc = "idle" =>
        LET today == PlacesOf(LAMBDA i : dd.entries[i].date = book.today) IN
        /\ book.totals = SumAt(today)
        /\ \A m \in Model : book.models[m] = SumAt({i \in today : dd.entries[i].model = m})
        /\ \A k \in SessionKey :
              SessionTotals(k) =
              SumAt(PlacesOf(LAMBDA i : <<dd.entries[i].project, deduped_sessions[i]>> = k))

\* A record is streamed no more often than the logs have held it: history that a truncation
\* removes and an append restores, and what a rebuild feeds again, is not streamed again.
StreamedAtMostHeld ==
    \A k \in Identities :
        streamed[k] + Occurrences(events, k)
            <= SumTo([f \in File |-> held[f][k]], NumFiles)

\* A message's records are one family; a record without an id is its own.
SameFamily(k, l) == k = l \/ (k[1] = "message" /\ l[1] = "message" /\ k[2] = l[2])

KeptWasStreamed ==
    \A i \in DOMAIN dd.entries : \E k \in Identities :
        /\ streamed[k] > 0
        /\ SameFamily(k, Identity(dd.entries[i], deduped_sessions[i]))

\* As long as the logs only grow, the feed has told of every message the totals count.
GrowthIsStreamed == pc = "idle" /\ ~reindexed => KeptWasStreamed

\* The feed has told of every message the totals count (docs/usage.md: "It then emits accepted
\* usage records from existing history, followed by records read as the files grow").
EveryMessageStreamed == pc = "idle" => KeptWasStreamed

Over(m) == Threshold[m] # None /\ spent[m] >= Threshold[m]

\* If the logs come to show that today's spending has reached a threshold, its alert fires.
AlertsFire == \A m \in Metric : <>[]Over(m) => <>(m \in fired)
=============================================================================
