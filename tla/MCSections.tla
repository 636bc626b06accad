------------------------------ MODULE MCSections -----------------------------
(***************************************************************************)
(* Logs of several agents and what is asked of them, and what the requests *)
(* in Codex's may use and cost, for MCReports.                             *)
(***************************************************************************)
EXTENDS Integers, Sequences, TLC

CONSTANT None

Week(day) == IF day < 8 THEN 1 ELSE 29
Month(day) == IF day < 31 THEN 1 ELSE 2

----------------------------------------------------------------------------
\* Tokens, tokens that are in the total only, and cost: powers, so that sums tell what is in them.
Entry(project, session, day, model, shown, extra, cost) ==
    [project |-> project, session |-> session, day |-> day, at |-> day, model |-> model,
     use |-> [shown |-> shown, extra |-> extra, cost |-> cost], missing |-> model = "new", dir |-> <<>>]

In(dir, entry) == [entry EXCEPT !.dir = dir]

\* Sessions from one month into the next, one session in two projects, days without tokens.
Logs ==
    { [claude |-> << Entry("p", "s1", 2, "m1", 1, 0, 1), Entry("q", "s1", 3, "m2", 2, 0, 1),
                     Entry("p", "s1", 31, "m1", 4, 0, 2) >>,
       codex |-> << Entry("", "s1", 30, "m2", 1, 1, 1), Entry("", "s1", 31, "new", 2, 0, 0) >>,
       opencode |-> << Entry("p", "s1", 2, None, 8, 0, 1) >>,
       codebuff |-> << Entry("p", "s1", 2, "m1", 1, 2, 1), Entry("p", "s1", 30, "m1", 0, 0, 4) >>,
       qwen |-> << Entry("q", "s1", 3, "new", 16, 1, 0), Entry("q", "s1", 31, "m2", 32, 0, 1) >>,
       pi |-> << In(<<"h", "pi", "sub">>, Entry("p", "s1", 2, "m1", 64, 0, 1)),
                 In(<<"h", "omp">>, Entry("p", "s2", 30, "m1", 128, 4, 8)),
                 In(<<"h", "pi">>, Entry("q", "s1", 31, "new", 256, 0, 0)) >>] }

\* Of Claude's and of pi's logs the last entry is written during the report.
Before == [source \in {"claude", "codex", "opencode", "codebuff", "qwen", "pi"} |->
            IF source \in {"claude", "pi"} THEN 1 ELSE 0]

----------------------------------------------------------------------------
Link ==
    ("pi" :> <<"h", "pi">>) @@ ("alias" :> <<"h", "pi">>) @@ ("inner" :> <<"h", "pi", "sub">>)
        @@ ("outer" :> <<"h">>) @@ ("omp" :> <<"h", "omp">>)

Store(paths) == << [name |-> "omp", paths |-> paths] >>

Asked(kind, sections, since, until, stores) ==
    [kind |-> kind, sections |-> sections, since |-> since, until |-> until,
     pi_paths |-> <<"pi">>, stores |-> stores]

Questions ==
    { Asked("daily", {"daily", "weekly", "session"}, 1, 99, Store(<<"omp", "gone", "omp">>)),
      Asked("session", {"monthly"}, 3, 30, <<>>),
      Asked("weekly", {"monthly", "session"}, 31, 99, Store(<<"omp">>)),
      Asked("monthly", {}, 1, 30, <<>>),
      Asked("daily", {}, 1, 99, Store(<<"alias">>)),
      Asked("daily", {}, 1, 99, Store(<<"inner", "omp">>)),
      Asked("daily", {}, 1, 99, Store(<<"outer">>)),
      Asked("daily", {}, 50, 60, << [name |-> "omp", paths |-> <<"omp">>], [name |-> "other", paths |-> <<"omp">>] >>) }

----------------------------------------------------------------------------
\* What Codex's requests may use and cost.

Bill(fresh, cached, output, reason) ==
    [fresh |-> fresh, cached |-> cached, output |-> output, reason |-> reason]

\* Beyond the threshold of 4 and at it; two of the latter are beyond it together.
Bills == {Bill(2, 3, 4, 1), Bill(4, 0, 0, 0)}

Ways ==
    { [last |-> TRUE, all |-> TRUE, names |-> 1],
      [last |-> FALSE, all |-> TRUE, names |-> 2],
      [last |-> TRUE, all |-> FALSE, names |-> 3] }

Results ==
    { [usage |-> 1, model |-> 2, time |-> 3, names |-> 1],
      [usage |-> 3, model |-> 4, time |-> 1, names |-> 2] }

\* All rates; neither cached nor long ones; some of the long ones; and "new", which has none.
Prices ==
    ("gpt" :> [input |-> 2, output |-> 7, read |-> 1, long_input |-> 4, long_output |-> 11, long_read |-> 3,
               multiplier |-> 3])
        @@ ("a" :> [input |-> 3, output |-> 5, read |-> None, long_input |-> None, long_output |-> None,
                    long_read |-> None, multiplier |-> 2])
        @@ ("old" :> [input |-> 3, output |-> 5, read |-> 1, long_input |-> 5, long_output |-> None,
                      long_read |-> None, multiplier |-> 1])

Split == [model \in {"gpt", "a", "old", "new"} |-> 4]

Fallbacks == << [day |-> 4, model |-> "new"], [day |-> 2, model |-> "old"] >>
=============================================================================
