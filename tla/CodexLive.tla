----------------------------- MODULE CodexLive ------------------------------
(***************************************************************************)
(* The live view of Codex sessions (rust/adapters/codex/src/live.rs) with  *)
(* the parser it feeds (parser.rs), beside what writes the session logs.   *)
(*                                                                         *)
(* A log holds a prefix of its session's history, in bytes.  It grows, and *)
(* may be copied over, cut and restored, deleted and put back under a new  *)
(* identity, or taken over by a new session.  Each poll asks a log's       *)
(* metadata first and reads it after, and rewinds a log that was replaced  *)
(* or shrank: the bytes are read again, and what they were counted for     *)
(* must not be counted again.                                              *)
(*                                                                         *)
(* Of a record's token fields one number is kept.                          *)
(***************************************************************************)
EXTENDS ByteCursor

CONSTANTS
    File,           \* paths of session logs
    Line,           \* what a line of a log can say
    Model,          \* names of models
    Fallback,       \* the model of a record that names none
    Careers,        \* the histories of the sessions that come to a path, one after another
    Cut,            \* the histories whose log may lose its end
    ReusedAt,       \* where the view may be when another session takes over a path
    Days,           \* days of the view's clock
    DayOf(_),       \* the day of a record's timestamp
    MaxChanges      \* bound on the changes made to the logs

\* A line: a session's metadata, a turn's context, a counter or a headless result.
LineType == [kind: {"meta", "turn", "count", "headless"}, id: STRING, at: Nat,
             total: Nat \cup {None}, last: Nat \cup {None}, model: Model \cup {None}]

ASSUME CodexAssumption ==
    /\ Line \subseteq LineType
    /\ Fallback \in Model
    /\ NL \notin Line
    /\ Careers \subseteq Seq(Seq(Line)) /\ <<>> \notin Careers
    /\ Cut \subseteq Seq(Line)
    /\ Days \subseteq Nat /\ Days # {}
    /\ MaxChanges \in Nat

VARIABLES
    career,         \* per path: the sessions it holds in turn
    nth,            \* per path: the session it holds now
    disk,           \* per path: the log's identity and bytes
    changes,        \* changes made to the logs so far
    clock,          \* today
    cursors,        \* per path: CodexFileState
    accepted,       \* the events of the stream, in order
    book,           \* the day on display and its total
    todo,           \* logs the pass has still to look at
    pc,             \* where the view is
    read            \* the log it is at, and what it knows of it

outside == <<career, nth, disk, changes, clock>>
inside == <<cursors, accepted, book, todo, pc, read>>
vars == <<outside, inside>>

----------------------------------------------------------------------------
(***************************************************************************)
(* What writes the logs.                                                   *)
(***************************************************************************)
Histories == UNION {ToSet(c) : c \in Careers}

Bytes == [history \in Histories |-> FlattenSeq([i \in DOMAIN history |-> <<history[i], NL>>])]

Upto(bytes, n) == SubSeq(bytes, 1, n)

Present == {f \in File : disk[f] # Gone}

Held(f) == IF disk[f] = Gone THEN 0 ELSE Len(disk[f].bytes)

\* The log at f becomes n bytes of the path's s-th session, as the file ino.
Change(f, s, ino, n) ==
    /\ changes < MaxChanges
    /\ changes' = changes + 1
    /\ nth' = [nth EXCEPT ![f] = s]
    /\ disk' = [disk EXCEPT ![f] = [ino |-> ino, bytes |-> Upto(Bytes[career[f][s]], n)]]
    /\ UNCHANGED <<career, clock, inside>>

Write(f) ==
    /\ f \in Present
    /\ \E n \in Held(f) + 1 .. Len(Bytes[career[f][nth[f]]]) :
          Change(f, nth[f], disk[f].ino, n)

Truncate(f) ==
    /\ f \in Present
    /\ career[f][nth[f]] \in Cut
    /\ \E n \in 0 .. Held(f) - 1 : Change(f, nth[f], disk[f].ino, n)

\* Another file comes to the path, with the same session or the next one.
Replace(f) ==
    \/ \E n \in 0 .. Len(Bytes[career[f][nth[f]]]) :
        /\ career[f][nth[f]] \in Cut \/ n >= Held(f)
        /\ Change(f, nth[f], changes + 1, n)
    \/ /\ nth[f] < Len(career[f])
       /\ pc \in ReusedAt
       /\ \E n \in 1 .. Len(Bytes[career[f][nth[f] + 1]]) :
            Change(f, nth[f] + 1, changes + 1, n)

Delete(f) ==
    /\ f \in Present
    /\ career[f][nth[f]] \in Cut
    /\ changes < MaxChanges
    /\ changes' = changes + 1
    /\ disk' = [disk EXCEPT ![f] = Gone]
    /\ UNCHANGED <<career, nth, clock, inside>>

Midnight ==
    /\ clock' \in {d \in Days : d > clock}
    /\ UNCHANGED <<career, nth, disk, changes, inside>>

----------------------------------------------------------------------------
(***************************************************************************)
(* The parser.  A state carries what one line hands to the next, and the   *)
(* events found so far.                                                    *)
(***************************************************************************)
Parser == [previous_totals |-> None, current_model |-> None, events |-> <<>>]

\* subtract_codex_raw_usage saturates.
Minus(total, previous) == IF previous = None THEN total
                          ELSE IF total > previous THEN total - previous ELSE 0

\* The usage of a counter: of the last request if the total has moved, else the difference.
Spent(line, previous) ==
    IF line.last # None /\ (line.total = None \/ line.total # previous) THEN line.last
    ELSE IF line.total # None THEN Minus(line.total, previous)
    ELSE 0

\* resolve_codex_usage_model: the record's own, the last one named, or the fallback.
ModelAfter(state, line) ==
    IF line.model # None THEN line.model
    ELSE IF state.current_model # None THEN state.current_model ELSE Fallback

Event(line, model, tokens) == [at |-> line.at, model |-> model, tokens |-> tokens]

\* visit_codex_session_entry.
VisitEntry(state, line) ==
    IF line.kind = "turn"
    THEN [state EXCEPT !.current_model = IF line.model = None THEN @ ELSE line.model]
    ELSE LET spent == Spent(line, state.previous_totals)
             counted == [state EXCEPT !.previous_totals =
                             IF line.total = None THEN @ ELSE line.total]
         IN  IF spent = 0 THEN counted
             ELSE [counted EXCEPT
                      !.current_model = ModelAfter(state, line),
                      !.events = Append(@, Event(line, ModelAfter(state, line), spent))]

\* add_codex_exec_event.
VisitExec(state, line) ==
    IF line.last \in {None, 0} THEN state
    ELSE [state EXCEPT !.current_model = ModelAfter(state, line),
                       !.events = Append(@, Event(line, ModelAfter(state, line), line.last))]

\* visit_codex_session_file of a session that is not a fork: the events a report counts.
Visit(state, line) ==
    CASE line.kind \in {"turn", "count"} -> VisitEntry(state, line)
      [] line.kind = "headless"          -> VisitExec(state, line)
      [] OTHER                           -> state

Report == [history \in Histories |-> Folded(Visit, Parser, history).events]

----------------------------------------------------------------------------
(***************************************************************************)
(* feed_file: a line, through the checkpoints that keep what has been      *)
(* accounted for.                                                          *)
(***************************************************************************)
Count(bag, key) == IF key \in DOMAIN bag THEN bag[key] ELSE 0
OneMore(bag, key) ==
    [k \in DOMAIN bag \cup {key} |-> Count(bag, k) + IF k = key THEN 1 ELSE 0]

\* CounterCheckpoint::from_entry.
Checkpoint(line) ==
    [timestamp |-> line.at, cumulative |-> line.total # None,
     total |-> IF line.total # None THEN line.total ELSE line.last]

\* HeadlessCheckpoint: the model may be resolved otherwise when it is read again.
HeadlessKey(line) == <<line.at, line.last>>

FeedMeta(file, line) ==
    LET known == [file EXCEPT !.logical_session_id = line.id]
    IN  IF file.logical_session_id \in {None, line.id} THEN known
        ELSE [known EXCEPT !.parser.previous_totals = None,
                           !.parser.current_model = None,
                           !.seen_counters = {},
                           !.seen_headless = <<>>,
                           !.replay_headless = <<>>]

\* A counter that is read again restores the model it names and nothing else.
Replayed(parser, line) ==
    [parser EXCEPT
        !.current_model = VisitEntry([parser EXCEPT !.previous_totals = None], line).current_model]

FeedEntry(file, line) ==
    IF line.kind = "count" /\ (line.total # None \/ line.last # None)
    THEN IF Checkpoint(line) \in file.seen_counters
         THEN [file EXCEPT !.parser = Replayed(@, line)]
         ELSE [file EXCEPT !.parser = VisitEntry(@, line),
                           !.seen_counters = @ \cup {Checkpoint(line)}]
    ELSE [file EXCEPT !.parser = VisitEntry(@, line)]

\* Mutant: a result that is read again is recognised whether it was counted once or twice.
KnownAtAll(file, key) == Count(file.seen_headless, key) > 0

\* While replaying, as many results of a key are old as have been counted before.
Old(file, key) == Count(file.replay_headless, key) < Count(file.seen_headless, key)

FeedHeadless(file, line) ==
    LET key == HeadlessKey(line)
        read_on == [file EXCEPT !.parser = VisitExec(@, line)]
        met == IF file.replaying THEN OneMore(file.replay_headless, key)
               ELSE file.replay_headless
    IN  IF line.last \in {None, 0} THEN file
        ELSE IF file.replaying /\ Old(file, key)
        THEN [read_on EXCEPT !.parser.events = file.parser.events, !.replay_headless = met]
        ELSE [read_on EXCEPT !.seen_headless = OneMore(@, key), !.replay_headless = met]

\* A line glued from pieces is no JSON and says nothing.
FeedLine(file, bytes) ==
    IF Len(bytes) # 1 THEN file
    ELSE LET line == bytes[1] IN
         CASE line.kind = "meta"     -> FeedMeta(file, line)
           [] line.kind = "headless" -> FeedHeadless(file, line)
           [] OTHER                  -> FeedEntry(file, line)

EndReplay(file) ==
    IF file.cursor.tail = <<>>
    THEN [file EXCEPT !.replaying = FALSE, !.replay_headless = <<>>]
    ELSE file

FeedFile(file, bytes) ==
    EndReplay([Folded(FeedLine, file, LinesFed(file.cursor, bytes))
                   EXCEPT !.cursor = Fed(file.cursor, bytes)])

\* codex_file_state; the identity is that of the path when the state is made.
NewState(f) ==
    [cursor |-> Fresh, identity |-> IF disk[f] = Gone THEN None ELSE disk[f].ino,
     logical_session_id |-> None, parser |-> Parser, seen_counters |-> {},
     seen_headless |-> <<>>, replay_headless |-> <<>>, replaying |-> FALSE]

----------------------------------------------------------------------------
(***************************************************************************)
(* The view.                                                               *)
(***************************************************************************)
OfDay(e, day) == IF DayOf(e.event.at) = day THEN e.event.tokens ELSE 0

\* The tokens of these events, those of the day.
Total(events, day) ==
    LET upTo[n \in 0 .. Len(events)] ==
            IF n = 0 THEN 0 ELSE upTo[n-1] + OfDay(events[n], day)
    IN  upTo[Len(events)]

Accepted(f, events) == [i \in DOMAIN events |-> [file |-> f, event |-> events[i]]]

\* feed_bytes: what the file's parser found is accepted, in order.
FeedBytes(f, file, bytes) ==
    \E fed \in {FeedFile(file, bytes)} :
        \E events \in {Accepted(f, fed.parser.events)} :
            /\ cursors' = [cursors EXCEPT ![f] = [fed EXCEPT !.parser.events = <<>>]]
            /\ accepted' = accepted \o events
            /\ book' = [book EXCEPT !.total = @ + Total(events, book.today)]

NothingRead == [file |-> None, size |-> 0, ino |-> None, bytes |-> <<>>]

\* On to the next log of the pass.
Passed == /\ pc' = "next"
          /\ read' = NothingRead

\* Mutant: the day on display changes and the totals stay.
TurnPage == book' = [book EXCEPT !.today = clock]

\* refresh_today.
RefreshToday ==
    book' = IF book.today = clock THEN book
            ELSE [today |-> clock, total |-> Total(accepted, clock)]

\* A tick of run_live lists the logs.
StartPoll ==
    /\ pc = "asleep"
    /\ RefreshToday
    /\ todo' = Present
    /\ pc' = "next"
    /\ UNCHANGED <<outside, cursors, accepted, read>>

\* The seed reads every log it has listed; a poll asks for its metadata first.
StatFile ==
    /\ pc = "next"
    /\ \E f \in todo :
        /\ todo' = todo \ {f}
        /\ IF disk[f] = Gone THEN UNCHANGED <<pc, read>>
           ELSE /\ pc' = IF cursors[f] = Gone THEN "new" ELSE "known"
                /\ read' = [NothingRead EXCEPT !.file = f, !.size = Held(f),
                                               !.ino = disk[f].ino]
    /\ UNCHANGED <<outside, cursors, accepted, book>>

\* A log without a cursor is read from its start ...
ReadNew ==
    /\ pc = "new"
    /\ IF disk[read.file] = Gone THEN Passed
       ELSE /\ pc' = "feed"
            /\ read' = [read EXCEPT !.bytes = disk[read.file].bytes]
    /\ UNCHANGED <<outside, cursors, accepted, book, todo>>

\* ... and its identity asked for after.
FeedNew ==
    /\ pc = "feed"
    /\ FeedBytes(read.file, NewState(read.file), read.bytes)
    /\ Passed
    /\ UNCHANGED <<outside, todo>>

MustRewind(file) ==
    \/ file.identity # None /\ file.identity # read.ino
    \/ read.size < Position(file.cursor)

\* Mutant: the counters accounted for are forgotten with the bytes.
RewoundAll(file) ==
    [file EXCEPT !.cursor = Fresh, !.identity = read.ino, !.replaying = TRUE,
                 !.replay_headless = <<>>, !.seen_counters = {}]

\* The bytes are rewound, the accounting is not.
Rewound(file) ==
    [file EXCEPT !.cursor = Fresh, !.identity = read.ino, !.replaying = TRUE,
                 !.replay_headless = <<>>]

\* poll_file of a log with a cursor.
ReadKnown ==
    /\ pc = "known"
    /\ LET f == read.file
           file == cursors[f]
           position == Position(file.cursor)
       IN  IF disk[f] = Gone THEN UNCHANGED <<cursors, accepted, book>>
           ELSE IF MustRewind(file) THEN FeedBytes(f, Rewound(file), disk[f].bytes)
           ELSE IF read.size > position
                THEN FeedBytes(f, file, ReadAppended(disk[f].bytes, position))
           ELSE UNCHANGED <<cursors, accepted, book>>
    /\ Passed
    /\ UNCHANGED <<outside, todo>>

EndPoll ==
    /\ pc = "next"
    /\ todo = {}
    /\ pc' = "asleep"
    /\ UNCHANGED <<outside, cursors, accepted, book, todo, read>>

----------------------------------------------------------------------------
Init ==
    /\ career \in [File -> Careers]
    /\ nth = [f \in File |-> 1]
    /\ disk \in [File -> {Gone} \cup {[ino |-> 0, bytes |-> <<>>]}]
    /\ changes = 0
    /\ clock \in {d \in Days : \A e \in Days : d <= e}
    /\ cursors = [f \in File |-> Gone]
    /\ accepted = <<>>
    /\ book = [today |-> clock, total |-> 0]
    /\ todo = Present
    /\ pc = "next"
    /\ read = NothingRead

Outside == (\E f \in File : Write(f) \/ Truncate(f) \/ Replace(f) \/ Delete(f)) \/ Midnight

View == StartPoll \/ StatFile \/ ReadNew \/ FeedNew \/ ReadKnown \/ EndPoll

Next == Outside \/ View

\* The view's thread goes on polling.  A step of it is always enabled and all but finitely many in
\* a row move pc, which nothing else does: this is WF_vars(View), in a form that is fast to check.
Polling == []<><<pc' # pc>>_pc

Spec == Init /\ [][Next]_vars /\ Polling

----------------------------------------------------------------------------
\* What the sessions of a path spend, as reports of their whole histories count it.
Spending == [c \in Careers |-> FlattenSeq([s \in DOMAIN c |-> Report[c[s]]])]

Times(event, events) == Cardinality({i \in DOMAIN events : events[i] = event})

TimesStreamed(f, event) ==
    Cardinality({i \in DOMAIN accepted : accepted[i].file = f /\ accepted[i].event = event})

\* However a log is cut, restored, copied over or read while that happens, its view streams a
\* request once, with the tokens and the model a report gives it.
SpentOnce ==
    \A i \in DOMAIN accepted : LET f == accepted[i].file e == accepted[i].event IN
        TimesStreamed(f, e) <= Times(e, Spending[career[f]])

\* The total on display is what was streamed of its day, through midnight too.
TotalMatchesStream == book.total = Total(accepted, book.today)

AllThere(f) ==
    disk[f] # Gone /\ nth[f] = Len(career[f]) /\ disk[f].bytes = Bytes[career[f][nth[f]]]

\* The log was there when its identity was asked for.  Of one that was not, a later session under
\* the same path cannot be told.
Identified(f) == cursors[f] # Gone => cursors[f].identity # None

\* A log that comes to hold its session's whole history is streamed whole, whatever happened to
\* it before.
CatchesUp ==
    \A f \in File : <>[](AllThere(f) /\ Identified(f) =>
        \A e \in ToSet(Report[career[f][nth[f]]]) :
            TimesStreamed(f, e) = Times(e, Spending[career[f]]))
=============================================================================
