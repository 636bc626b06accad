------------------------------ MODULE MCInstalls -----------------------------
(***************************************************************************)
(* What the agents may have written, for MCReports.                        *)
(***************************************************************************)
EXTENDS Sequences

CONSTANT None

\* A record of an agent's usage; what its loader does not look at is None.
Usage(request, id, session, at, tokens) ==
    [tells |-> {request}, id |-> id, session |-> session, project |-> "p", at |-> at, tokens |-> tokens,
     column |-> at, shown |-> at, way |-> None, trace |-> None, response |-> None,
     identities |-> {}, rank |-> 0]

Kept(root, db, name, versions) == [root |-> root, db |-> db, name |-> name, versions |-> versions]

Log(versions) == Kept(1, FALSE, None, versions)
Database(versions) == Kept(1, TRUE, None, versions)

U1 == Usage("u1", "i1", "s1", 404, 1)
U2 == Usage("u2", "i2", "s1", 409, 2)
U3 == Usage("u3", "i3", "s2", 410, 3)
U4 == Usage("u4", "i4", "s2", 411, 4)
Late == Usage("u5", "i5", "s2", 412, 5)

\* Messages in a database and in files, in two directories.  The times of the index are a little
\* apart from the messages', or seconds; a message's time is not found in its text; a file has
\* no id in it.
OpenCode ==
    LET apart == [U1 EXCEPT !.column = 402]
        unread == [U2 EXCEPT !.shown = None]
    IN  << Kept(1, TRUE, None, << <<apart, unread>>, <<apart, unread, Late>> >>),
           Kept(1, FALSE, "i1", << <<[U1 EXCEPT !.id = None]>> >>),
           Kept(1, FALSE, "i3", << <<U3>> >>),
           Kept(2, TRUE, None, << <<[U3 EXCEPT !.column = 4], [U4 EXCEPT !.column = 4]>> >>),
           Kept(2, FALSE, "i2", << <<U2>> >>) >>

Copies == << Database(<< <<U1, U2>>, <<U1, U2, U4>> >>), Database(<< <<U2, U3, Late>> >>) >>

Logs == << Log(<< <<U1>>, <<U1, U4>> >>), Log(<< <<U1, U2>> >>), Log(<< <<U3, U2, Late>> >>) >>

\* A session's totals, later ones in the same place or in another.
Totals ==
    LET early == Usage("s", "i", "s", 405, 1)
    IN  << Log(<< <<early>>, <<[early EXCEPT !.at = 409, !.tokens = 3]>> >>),
           Log(<< <<[early EXCEPT !.at = 407, !.tokens = 2]>> >>), Log(<< <<U3>> >>) >>

\* Sessions that have their names from their database.
Apart == << Database(<< <<[U1 EXCEPT !.session = "a"], [U2 EXCEPT !.session = "b"]>> >>),
            Database(<< <<[U3 EXCEPT !.session = "a"]>> >>) >>

Export(request, way, trace, response, at) ==
    [Usage(request, None, "s", at, 1) EXCEPT !.way = way, !.trace = trace, !.response = response]

\* A trace whose logs come first, then its spans one by one, then the agent's summary; and a
\* response known by its id only.
Telemetry ==
    LET logs == <<Export("u1", "inference", "t1", "r1", 404), Export("u2", "inference", "t1", "r2", 405)>>
        first == Export("u1", "chat", "t1", "r1", 405)
        second == Export("u2", "chat", "t1", "r2", 406)
        both == [Export("u1", "summary", "t1", None, 406) EXCEPT !.tells = {"u1", "u2"}]
    IN  << Log(<< logs, Append(logs, first), logs \o <<first, second, both>> >>),
           Log(<< <<Export("u3", "turn", "t2", None, 407), Export("u4", "turn", None, "r4", 408),
                    Export("u4", "chat", "t3", "r4", 408)>> >>) >>

Generation(request, identities, tokens, rank, at) ==
    [Usage(request, None, "s", at, tokens) EXCEPT !.identities = identities, !.rank = rank]

\* What tells that records are of one request comes after them, in this database or in another.
Conversations ==
    LET first == Generation("u1", {"r1"}, 1, 3, 405)
        second == Generation("u1", {"m1", "p1"}, 2, 0, 411)
        both == Generation("u1", {"r1", "m1"}, 3, 3, 404)
        other == Generation("u1", {"p1"}, 3, 3, 404)
    IN  << Database(<< <<first, second>>, <<first, second, both>> >>),
           Database(<< <<Generation("u2", {"r2"}, 4, 1, 406), both, other,
                         Generation("u3", {}, 4, 1, 407)>> >>) >>

Of(agents, sources) == {[agent |-> a, sources |-> sources] : a \in agents}

Installs ==
    UNION {Of({"kilo", "zcode"}, Copies), Of({"pi", "openclaw", "qwen", "kimi", "codebuff"}, Logs),
           Of({"hermes", "droid"}, Totals), Of({"goose"}, Apart), Of({"opencode"}, OpenCode),
           Of({"copilot"}, Telemetry), Of({"antigravity"}, Conversations)}

----------------------------------------------------------------------------
Bill(model, tokens) == [model |-> model, tokens |-> tokens]

\* Three threads' records of a model that only models.dev has, of one in every table, and of one
\* that LiteLLM has once it is refreshed.
Bills ==
    << <<Bill("new", TRUE), Bill("old", TRUE)>>,
       <<Bill("new", FALSE), Bill("new", TRUE)>>,
       <<Bill("newer", TRUE)>> >>
=============================================================================
