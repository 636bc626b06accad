------------------------------ MODULE GrokLive ------------------------------
(***************************************************************************)
(* The live view of Grok Build (rust/adapters/grok/src/live.rs) with its   *)
(* parser, beside the sessions that write the logs.                        *)
(*                                                                         *)
(* A session notes the turns it starts, with their models, in a file of    *)
(* its own, and its requests in a log that all sessions share.  A poll     *)
(* reads the former first; a request is given the model of the last turn   *)
(* the view knows of.  A file may be seen shorter than it was, and then    *)
(* whole again.                                                            *)
(***************************************************************************)
EXTENDS ByteCursor, GrokTurns

CONSTANTS
    Session,        \* sessions, and their files of turns
    Log,            \* the log they share
    Script(_),      \* the turns and requests of a session, in order
    GrokLine,       \* the turns and requests of all sessions
    MaxCuts         \* bound: files cut short

Path == Session \cup {Log}

GrokText == Seq(GrokLine \cup {NL})

ASSUME GrokAssumption ==
    /\ \A l \in GrokLine : l.kind \in {"turn", "request"} /\ l.session \in Session /\ l.at \in Nat
    /\ \A s \in Session : Script(s) \in Seq({l \in GrokLine : l.session = s})
    /\ NL \notin GrokLine
    /\ Log \notin Session
    /\ None \notin Path
    /\ Gone \notin GrokText

VARIABLES
    written,        \* per session: lines of its script it has begun to write
    whole,          \* per file: the bytes written to it, or Gone
    shown,          \* per file: how many of them a reader finds
    cuts,           \* cuts so far
    grok_cursors,   \* per file: its cursor, or Gone
    timelines,      \* per session: its turns, by time
    seen,           \* keys of the requests accepted
    grok_accepted,  \* the events of the stream, in order
    grok_todo,      \* files the pass has still to look at
    grok_pc,        \* where the view is
    grok_read,      \* the file it is at and the size it had
    noted           \* history: the turns on disk since the pass began

grokOutside == <<written, whole, shown, cuts>>
grokInside == <<grok_cursors, timelines, seen, grok_accepted, grok_todo, grok_pc, grok_read>>
grokVars == <<grokOutside, grokInside, noted>>

----------------------------------------------------------------------------
(***************************************************************************)
(* What writes the files.                                                  *)
(***************************************************************************)
FileOf(line) == IF line.kind = "turn" THEN line.session ELSE Log

GrokPresent == {f \in Path : whole[f] # Gone}

GrokBytes(f) == SubSeq(whole[f], 1, shown[f])

IsShown(f) == IF whole[f] = Gone THEN TRUE ELSE shown[f] = Len(whole[f])

AtLineEnd(f) == IF whole[f] = Gone THEN TRUE ELSE Last(whole[f]) = NL

Put(f, bytes) ==
    LET before == IF whole[f] = Gone THEN <<>> ELSE whole[f] IN
    /\ whole' = [whole EXCEPT ![f] = before \o bytes]
    /\ shown' = [shown EXCEPT ![f] = @ + Len(bytes)]
    /\ UNCHANGED <<cuts, grokInside, noted>>

\* The next line of a session, with its newline or not yet.
WriteLine(s) ==
    /\ written[s] < Len(Script(s))
    /\ written' = [written EXCEPT ![s] = @ + 1]
    /\ LET line == Script(s)[written[s] + 1] IN
        /\ \A f \in {s, FileOf(line)} : IsShown(f) /\ AtLineEnd(f)
        /\ \E end \in {<<>>, <<NL>>} : Put(FileOf(line), <<line>> \o end)

WriteNewline(f) ==
    /\ f \in GrokPresent
    /\ IsShown(f) /\ ~AtLineEnd(f)
    /\ Put(f, <<NL>>)
    /\ UNCHANGED written

TurnsOnDisk ==
    {l \in GrokLine : /\ l.kind = "turn" /\ l.session \in GrokPresent
                      /\ \E i \in 1 .. Len(GrokBytes(l.session)) - 1 :
                            GrokBytes(l.session)[i] = l /\ GrokBytes(l.session)[i + 1] = NL}

CutShort(f) ==
    /\ f \in GrokPresent
    /\ cuts < MaxCuts
    /\ cuts' = cuts + 1
    /\ \E n \in 0 .. shown[f] - 1 : shown' = [shown EXCEPT ![f] = n]
    /\ UNCHANGED <<written, whole, grokInside>>
    /\ noted' = IF grok_pc = "turns" THEN noted \cap TurnsOnDisk' ELSE noted

Restore(f) ==
    /\ ~IsShown(f)
    /\ shown' = [shown EXCEPT ![f] = Len(whole[f])]
    /\ UNCHANGED <<written, whole, cuts, grokInside, noted>>

----------------------------------------------------------------------------
(***************************************************************************)
(* The parser.                                                             *)
(***************************************************************************)
\* usage_line_from_bytes, over the timelines as they are.
UsageOf(line) == [request |-> line, model |-> ModelAt(timelines[line.session], line.at)]

\* grok_entry_key names the model too.
GrokEntryKey(usage) == <<usage.request, usage.model>>

----------------------------------------------------------------------------
(***************************************************************************)
(* The view.                                                               *)
(***************************************************************************)
\* Lines that are whole and of the file's kind.
Said(cursor, bytes, kind) ==
    LET lines == LinesFed(cursor, bytes)
        IsSaid(line) == Len(line) = 1 /\ line[1].kind = kind
    IN  FlattenSeq([i \in DOMAIN lines |-> IF IsSaid(lines[i]) THEN lines[i] ELSE <<>>])

Taken(view, usage) ==
    [seen |-> view.seen \cup {GrokEntryKey(usage)},
     accepted |-> Append(view.accepted, [usage |-> usage, noted |-> noted])]

\* Mutant: what was streamed before is not looked at.
AcceptAgain(view, usage) == Taken(view, usage)

\* accept_usage: a request whose key was not seen before.
AcceptUsage(view, usage) ==
    IF GrokEntryKey(usage) \in view.seen THEN view ELSE Taken(view, usage)

\* feed_bytes.
GrokFeedBytes(f, cursor, bytes) ==
    /\ grok_cursors' = [grok_cursors EXCEPT ![f] = Fed(cursor, bytes)]
    /\ IF f = Log
       THEN /\ UNCHANGED timelines
            /\ LET requests == Said(cursor, bytes, "request")
                   usages == [i \in DOMAIN requests |-> UsageOf(requests[i])]
                   view == Folded(AcceptUsage, [seen |-> seen, accepted |-> grok_accepted], usages)
               IN  seen' = view.seen /\ grok_accepted' = view.accepted
       ELSE /\ timelines' = [timelines EXCEPT ![f] =
                                 Folded(RecordModelEvent, @, Said(cursor, bytes, "turn"))]
            /\ UNCHANGED <<seen, grok_accepted>>

GrokNothingRead == [file |-> None, size |-> 0]

\* A tick of run_live: the turns ...
GrokStartPoll ==
    /\ grok_pc = "asleep"
    /\ grok_pc' = "turns"
    /\ grok_todo' = GrokPresent \ {Log}
    /\ noted' = TurnsOnDisk
    /\ UNCHANGED <<grokOutside, grok_cursors, timelines, seen, grok_accepted, grok_read>>

\* ... and then the requests.
StartUsage ==
    /\ grok_pc = "turns"
    /\ grok_todo = {} /\ grok_read = GrokNothingRead
    /\ grok_pc' = "requests"
    /\ grok_todo' = GrokPresent \cap {Log}
    /\ UNCHANGED <<grokOutside, grok_cursors, timelines, seen, grok_accepted, grok_read, noted>>

GrokStatFile ==
    /\ grok_pc \in {"turns", "requests"}
    /\ grok_read = GrokNothingRead
    /\ \E f \in grok_todo :
        /\ grok_todo' = grok_todo \ {f}
        /\ grok_read' = [file |-> f, size |-> shown[f]]
    /\ UNCHANGED <<grokOutside, grok_cursors, timelines, seen, grok_accepted, grok_pc, noted>>

\* poll_file.
PollFile ==
    /\ grok_read # GrokNothingRead
    /\ LET f == grok_read.file IN
        IF grok_cursors[f] = Gone THEN GrokFeedBytes(f, Fresh, GrokBytes(f))
        ELSE IF grok_read.size < Position(grok_cursors[f])
        THEN GrokFeedBytes(f, Fresh, GrokBytes(f))
        ELSE IF grok_read.size > Position(grok_cursors[f])
        THEN GrokFeedBytes(f, grok_cursors[f], ReadAppended(GrokBytes(f), Position(grok_cursors[f])))
        ELSE UNCHANGED <<grok_cursors, timelines, seen, grok_accepted>>
    /\ grok_read' = GrokNothingRead
    /\ UNCHANGED <<grokOutside, grok_todo, grok_pc, noted>>

GrokEndPoll ==
    /\ grok_pc = "requests"
    /\ grok_todo = {} /\ grok_read = GrokNothingRead
    /\ grok_pc' = "asleep"
    /\ UNCHANGED <<grokOutside, grok_cursors, timelines, seen, grok_accepted, grok_todo, grok_read,
                   noted>>

----------------------------------------------------------------------------
GrokInit ==
    /\ written = [s \in Session |-> 0]
    /\ whole = [f \in Path |-> Gone]
    /\ shown = [f \in Path |-> 0]
    /\ cuts = 0
    /\ grok_cursors = [f \in Path |-> Gone]
    /\ timelines = [s \in Session |-> <<>>]
    /\ seen = {}
    /\ grok_accepted = <<>>
    /\ grok_todo = {}
    /\ grok_pc = "asleep"
    /\ grok_read = GrokNothingRead
    /\ noted = {}

Sessions ==
    \/ \E s \in Session : WriteLine(s)
    \/ \E f \in Path : WriteNewline(f) \/ CutShort(f) \/ Restore(f)

GrokView == GrokStartPoll \/ StartUsage \/ GrokStatFile \/ PollFile \/ GrokEndPoll

GrokNext == Sessions \/ GrokView

\* The view's thread goes on polling.  A step of it is always enabled and all but finitely many in
\* a row move pc, which nothing else does: this is WF_grokVars(View), in a form fast to check.
GrokPolling == []<><<grok_pc' # grok_pc>>_grok_pc

GrokSpec == GrokInit /\ [][GrokNext]_grokVars /\ GrokPolling

----------------------------------------------------------------------------
Turns(S, s) == {l \in S : l.kind = "turn" /\ l.session = s}

\* The models a request may be given that knows of the turns S and perhaps of others in T.
Models(S, T, request) ==
    LET before == {l \in Turns(T, request.session) : l.at <= request.at}
        latest == {l \in before : \A k \in before \cap S : k.at <= l.at}
    IN  IF before \cap S # {} THEN {l.model : l \in latest}
        ELSE {l.model : l \in Turns(T, request.session)}
                 \cup (IF Turns(S, request.session) = {} THEN {Unknown} ELSE {})

\* A request is streamed with the model of the last turn that was on disk when the pass began, or
\* of a later turn.
ModelInTime ==
    \A i \in DOMAIN grok_accepted : LET e == grok_accepted[i] IN
        e.usage.model \in Models(e.noted, GrokLine, e.usage.request)

\* A request is streamed again, when the log is read again, only if its turns were not all on disk
\* by the time it was streamed first.
StreamedAgainOnNews ==
    \A i, j \in DOMAIN grok_accepted :
        i < j /\ grok_accepted[i].usage.request = grok_accepted[j].usage.request
            => Models(grok_accepted[i].noted, GrokLine, grok_accepted[i].usage.request)
                   # {grok_accepted[i].usage.model}

\* Every request of a log that comes to rest is streamed, whatever was cut short meanwhile.
GrokCatchesUp ==
    \A l \in {l \in GrokLine : l.kind = "request"} :
        <>[](IsShown(Log) /\ AtLineEnd(Log) /\ written[l.session] = Len(Script(l.session))
                => \E i \in DOMAIN grok_accepted : grok_accepted[i].usage.request = l)
=============================================================================
