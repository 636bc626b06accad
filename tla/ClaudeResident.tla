--------------------------- MODULE ClaudeResident ---------------------------
(***************************************************************************)
(* The daemon's resident daily index                                       *)
(* (rust/adapters/claude/src/resident.rs): the rows of the daily report,   *)
(* kept up to date from the outcomes of each poll.                         *)
(*                                                                         *)
(* A poll's outcomes are applied after the poll, so an outcome looks at    *)
(* what its entry has become by then, not at what it was.                  *)
(***************************************************************************)
EXTENDS ClaudeWatch

ASSUME ResidentAssumption ==
    /\ Gone \notin Amounts
    /\ Gone \notin [totals: Amounts, models: [Model -> Amounts \cup {Gone}]]

VARIABLES
    by_date,            \* per day: its row, or Gone
    by_date_project,    \* per day and project: its row, or Gone
    date_entries        \* per day: places of the index filed under it

rowVars == <<by_date, by_date_project, date_entries>>
residentVars == <<vars, rowVars>>

----------------------------------------------------------------------------
(***************************************************************************)
(* DailyAccumulator: a row's totals and those of each of its models.       *)
(***************************************************************************)
EmptyRow == [totals |-> Zero, models |-> [m \in Model |-> Gone]]

OrDefault(row) == IF row = Gone THEN EmptyRow ELSE row

AddToRow(row, e) ==
    [totals |-> Plus(row.totals, e),
     models |-> [m \in Model |-> IF m # e.model THEN row.models[m]
                                 ELSE Plus(IF row.models[m] = Gone THEN Zero ELSE row.models[m], e)]]

\* The row of those of the entries es that are at one of the places, Gone when none is.
RowOf(es, places) ==
    LET upTo[n \in 0 .. Len(es)] ==
            IF n = 0 THEN Gone
            ELSE IF n \in places THEN AddToRow(OrDefault(upTo[n-1]), es[n])
            ELSE upTo[n-1]
    IN  upTo[Len(es)]

----------------------------------------------------------------------------
(***************************************************************************)
(* apply.                                                                  *)
(***************************************************************************)
Rows == [date |-> by_date, project |-> by_date_project, filed |-> date_entries]

SetRows(rows) ==
    /\ by_date' = rows.date
    /\ by_date_project' = rows.project
    /\ date_entries' = rows.filed

NoRows ==
    [date |-> [d \in Date |-> Gone], project |-> [k \in Date \X Project |-> Gone],
     filed |-> [d \in Date |-> <<>>]]

\* add_entry: count the entry now at the place i.
AddEntry(rows, i) ==
    LET e == dd.entries[i] IN
    [date |-> [rows.date EXCEPT ![e.date] = AddToRow(OrDefault(@), e)],
     project |-> [rows.project EXCEPT ![<<e.date, e.project>>] = AddToRow(OrDefault(@), e)],
     filed |-> [rows.filed EXCEPT ![e.date] = Append(@, i)]]

OfDate(es, d) == {n \in DOMAIN es : es[n].date = d}

OfProject(es, d, p) == {n \in OfDate(es, d) : es[n].project = p}

\* What the entries filed under a day have become; some are of another day by now.
EntriesFiled(rows, d) == [n \in DOMAIN rows.filed[d] |-> dd.entries[rows.filed[d][n]]]

\* rebuild_date: the day's row, and its row for one project, from the index.
RebuildDate(rows, d, p) ==
    IF rows.filed[d] = <<>> THEN rows
    ELSE LET es == EntriesFiled(rows, d)
         IN  [rows EXCEPT !.date[d] = RowOf(es, OfDate(es, d)),
                          !.project[<<d, p>>] = RowOf(es, OfProject(es, d, p))]

\* Mutant: without asking whether it already is.
FileAgain(rows, i, previous) ==
    LET d == dd.entries[i].date IN
    IF d = previous.date THEN rows ELSE [rows EXCEPT !.filed[d] = Append(@, i)]

\* The place i is filed under its entry's new day, unless it already is.
FileMoved(rows, i, previous) ==
    LET d == dd.entries[i].date IN
    IF d = previous.date THEN rows ELSE [rows EXCEPT !.filed[d] = AddPlace(@, i)]

\* Mutant: a reset drops the rows and does not count what the rebuild has fed.
ClearOnReset ==
    /\ Head(outcomes).kind = "Reset"
    /\ SetRows(NoRows)

\* The whole index, counted entry by entry.
RowsOfIndex ==
    LET upTo[n \in 0 .. Len(dd.entries)] ==
            IF n = 0 THEN NoRows ELSE AddEntry(upTo[n-1], n)
    IN  upTo[Len(dd.entries)]

ApplyReset ==
    /\ Head(outcomes).kind = "Reset"
    /\ SetRows(RowsOfIndex)

ApplyAdded ==
    /\ Head(outcomes).kind = "Added"
    /\ SetRows(AddEntry(Rows, Head(outcomes).index))

ApplyReplaced ==
    LET i == Head(outcomes).index
        previous == Head(outcomes).previous
        e == dd.entries[i]
        current == RebuildDate(FileMoved(Rows, i, previous), e.date, e.project)
    IN
    /\ Head(outcomes).kind = "Replaced"
    /\ SetRows(IF previous.date # e.date \/ previous.project # e.project
               THEN RebuildDate(current, previous.date, previous.project)
               ELSE current)

Apply == Deliver /\ (ApplyReset \/ ApplyAdded \/ ApplyReplaced)

----------------------------------------------------------------------------
ResidentInit ==
    /\ Init
    /\ by_date = NoRows.date
    /\ by_date_project = NoRows.project
    /\ date_entries = NoRows.filed

ResidentPoll ==
    \/ (Seed \/ PollPaths \/ Reading \/ Sleep) /\ UNCHANGED rowVars
    \/ Apply

ResidentAgent == Agent /\ UNCHANGED rowVars

ResidentNext == ResidentAgent \/ ResidentPoll

\* The daemon polls as long as it runs.
ResidentSpec ==
    ResidentInit /\ [][ResidentNext]_residentVars /\ WF_residentVars(ResidentPoll)
----------------------------------------------------------------------------
(***************************************************************************)
(* Properties.  The daemon answers queries between polls, when pc is idle. *)
(***************************************************************************)
RowsByDate(es) == [d \in Date |-> RowOf(es, OfDate(es, d))]

RowsByProject(es) == [k \in Date \X Project |-> RowOf(es, OfProject(es, k[1], k[2]))]

\* The rows a query gets are those of the entries the index keeps, by day and by project,
\* although outcomes were applied late and out of step with the entries they tell of.
RowsMatchIndex ==
    pc = "idle" =>
        /\ by_date = RowsByDate(dd.entries)
        /\ by_date_project = RowsByProject(dd.entries)

\* load_daily_summaries' index: every log read in full, its unterminated last line too.
FullLoad ==
    LET Whole(f) == IF Terminated(disk[f].bytes) = Len(disk[f].bytes) THEN disk[f].bytes
                    ELSE Append(disk[f].bytes, NL)
    IN  ScanFresh(EntriesIn([f \in File |-> IF f \in Present THEN Whole(f) ELSE Gone])).entries

LinesComplete == \A f \in Present : Terminated(disk[f].bytes) = Len(disk[f].bytes)

AllDays(rows) ==
    LET days == {d \in Date : rows[d] # Gone} IN
    [tokens |-> SumFunctionOnSet([d \in days |-> rows[d].totals.tokens], days),
     cost |-> SumFunctionOnSet([d \in days |-> rows[d].totals.cost], days)]

\* Once the logs rest on complete lines, the rows come to add up to what a full load does.
RowsCatchUp ==
    <>[](LinesComplete => AllDays(by_date) = AllDays(RowsByDate(FullLoad)))
=============================================================================
