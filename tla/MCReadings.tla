------------------------------ MODULE MCReadings -----------------------------
(***************************************************************************)
(* What the agents' files may say of what was used, for MCReports.         *)
(***************************************************************************)
EXTENDS Integers, Sequences, FiniteSets, TLC

CONSTANT None

DefaultModel == "default"
Normalized == [model \in {"default", "m1", "m2", "Big"} |-> IF model = "Big" THEN "big" ELSE model]

----------------------------------------------------------------------------
\* What a request used.
Bill(fresh, create, read, seen, reason) ==
    [fresh |-> fresh, create |-> create, read |-> read, seen |-> seen, reason |-> reason]

Cached == {Bill(2, 1, 4, 3, 0), Bill(0, 1, 4, 3, 0), Bill(2, 0, 16, 3, 0)}
Reasoned == {Bill(2, 1, 4, 3, 8), Bill(2, 0, 0, 3, 8)}
First == Bill(2, 0, 0, 1, 0)

NoCreate(bills) == {bill \in bills : bill.create = 0} \cup {Bill(2, 0, 4, 3, 8), Bill(2, 0, 4, 3, 0)}

----------------------------------------------------------------------------
(***************************************************************************)
(* The ways to tell of it.                                                 *)
(***************************************************************************)
T(input, output, create, read, reason, total) ==
    [input |-> input, output |-> output, create |-> create, read |-> read, reason |-> reason,
     total |-> total, tool |-> 0, last |-> [input |-> 0, output |-> 0, total |-> 0]]

Zero == T(0, 0, 0, 0, 0, 0)

All(b) == b.fresh + b.create + b.read + b.seen + b.reason

Way(apart, t) == [apart |-> apart, t |-> t]

\* All parts; the parts and the total; reasoning in the total only; no output but in the total.
Parts(b) == Way(TRUE, T(b.fresh, b.seen, b.create, b.read, b.reason, 0))
Complete(b) == Way(TRUE, T(b.fresh, b.seen, b.create, b.read, b.reason, All(b)))
ByTotal(b) == Way(TRUE, T(b.fresh, b.seen, b.create, b.read, 0, All(b)))
Hidden(b) == Way(FALSE, T(b.fresh, 0, b.create, b.read, 0, All(b)))
HiddenOutput(b) == Way(TRUE, T(b.fresh, 0, b.create, b.read, b.reason, All(b)))

\* Cached tokens within the input.
Within(b, way) == [way EXCEPT !.t.input = @ + b.read]
AllWithin(b, way) == [way EXCEPT !.t.input = @ + b.read + b.create]

\* A tool's tokens beside the input; no total at all.
WithTool(way) == [way EXCEPT !.t.input = @ - 1, !.t.tool = 1]
NoTotal(way) == [way EXCEPT !.t.total = None]

\* Only what the last request used.
OfLast(way) ==
    [way EXCEPT !.t = [Zero EXCEPT !.last = [input |-> way.t.input, output |-> way.t.output, total |-> way.t.total]]]

\* Of the output the whole, what is seen of it, and reasoning.
Outputs(b, seen, reason, whole) == Way(TRUE, T(b.fresh, seen, b.create, b.read, reason, whole))

Beside(b) == {ByTotal(b), Hidden(b)} \cup (IF b.reason = 0 THEN {Parts(b)} ELSE {})
Itemised(b) == {Parts(b), Complete(b), HiddenOutput(b)}

\* Per format: bills and the ways its records tell of them.
Tellings(format) ==
    LET told(bills, ways(_)) == UNION {{<<b, way>> : way \in ways(b)} : b \in bills}
    IN  CASE format \in {"pi", "store", "openclaw", "opencode", "amp", "codebuff", "kimi"} ->
                told(Cached \cup Reasoned, Beside)
          [] format \in {"kilo", "droid"} -> told(Cached \cup Reasoned, Itemised)
          [] format = "qwen" -> told(NoCreate(Cached \cup Reasoned), Itemised)
          [] format = "zcode" -> told(Cached \cup Reasoned, LAMBDA b : {AllWithin(b, way) : way \in Beside(b)})
          [] format = "copilot" -> told(Cached \cup Reasoned, LAMBDA b : {Within(b, way) : way \in Itemised(b)})
          [] format = "hermes" -> told(Cached \cup Reasoned, LAMBDA b : {Parts(b)})
          [] format = "goose" -> told({Bill(2, 0, 0, 3, 0), Bill(2, 0, 0, 3, 8)},
                                      LAMBDA b : {ByTotal(b), OfLast(ByTotal(b))})
          [] format = "grok" -> told(NoCreate(Cached), LAMBDA b : {Within(b, Parts(b))})
          [] format \in {"gemini", "gemini document"} ->
                told({Bill(2, 0, 4, 3, 8), Bill(2, 0, 4, 0, 8), Bill(2, 0, 0, 3, 0)}, LAMBDA b :
                     {Complete(b), WithTool(Complete(b)), Within(b, Complete(b)),
                      Within(b, WithTool(Complete(b))), NoTotal(WithTool(Parts(b)))})
          [] format = "antigravity" ->
                told(Cached \cup Reasoned, LAMBDA b :
                     {Outputs(b, 0, b.reason, b.seen + b.reason), Outputs(b, b.seen, b.reason, 0),
                      Outputs(b, b.seen, b.reason, b.seen + b.reason)})

----------------------------------------------------------------------------
(***************************************************************************)
(* Records.                                                                *)
(***************************************************************************)
Line(kind) ==
    [request |-> None, kind |-> kind, id |-> None, model |-> None, session |-> None, provider |-> None,
     written |-> None, at |-> None, t |-> Zero, trace |-> None, response |-> None, way |-> "chat",
     message |-> None, credits |-> 0, cost |-> 0, places |-> <<>>, history |-> <<>>, usages |-> <<>>,
     models |-> <<>>]

\* A record of a request: its bill, how it is told, and what is known of it once the file holds
\* so many records.
Of(request, kind, told, model, session, known) ==
    [Line(kind) EXCEPT !.request = request, !.t = told[2].t]
        @@ [spent |-> told[1] @@ [apart |-> told[2].apart, model |-> model, session |-> session, known |-> known]]

Session(format, lines) ==
    [format |-> format, name |-> "s", lines |-> lines, config |-> None, ledger |-> FALSE, turns |-> <<>>,
     begun |-> None, modified |-> 90, mode |-> "auto", prices |-> << >>, overrides |-> << >>]

Small == <<First, Parts(First)>>

\* A request that names its model, and one that does not.
Named(format) ==
    {Session(format, << [Of("r1", "usage", told, "m1", "s", 1) EXCEPT !.model = "m1", !.provider = "p"] >>)
        : told \in Tellings(format)}

Unnamed(format, model) ==
    {Session(format, << [Of("r1", "usage", told, "m1", "s", 1) EXCEPT !.model = "m1"],
                        Of("r2", "usage", Small, model, "s", 2),
                        Line("usage") >>) : told \in Tellings(format)}

PlainSessions ==
    UNION {Named(format) : format \in {"opencode", "kilo", "hermes", "goose", "zcode"}}
        \cup UNION {Unnamed(format, None) : format \in {"pi", "store"}}
        \cup UNION {Unnamed("qwen", "default") : format \in {"qwen"}}
        \cup {[s EXCEPT !.config = "m2"] : s \in Unnamed("droid", "m2")}

\* Models change between the requests of an OpenClaw session.
OpenClawSessions ==
    {Session("openclaw", << Of("r0", "usage", Small, "default", "s", 1),
                            [Line("model") EXCEPT !.model = "m1"], Line("model"),
                            Of("r1", "usage", told, "m1", "s", 3),
                            [Of("r2", "usage", Small, "m2", "s", 3) EXCEPT !.model = "m2"] >>)
        : told \in Tellings("openclaw")}

\* Kimi's two formats, with the sum of the session in the newer one.
KimiSessions ==
    {[Session("kimi", << Of("r1", "status", told, "m2", "s", 1),
                         [Of("r2", "turn", Small, "m1", "s", 2) EXCEPT !.model = "m1"],
                         [Line("session") EXCEPT !.t = told[2].t] >>) EXCEPT !.config = "m2"]
        : told \in Tellings("kimi")}

\* Amp's messages, and a ledger with an event for each of them.
AmpMessage(n, request, told) ==
    [Of(request, "message", told, "m1", "s", 1) EXCEPT !.id = n, !.model = "m1"]

AmpEvent(n, request, told) ==
    [Of(request, "ledger", told, "m1", "s", 1)
        EXCEPT !.message = n, !.model = "m1", !.t.create = 0, !.t.read = 0]

AmpSessions ==
    {Session("amp", << AmpMessage(1, "r1", told), AmpMessage(2, "r2", Small) >>) : told \in Tellings("amp")}
        \cup {[Session("amp", << [AmpMessage(1, "r1", told) EXCEPT !.request = None],
                                 AmpEvent(1, "r1", told), AmpEvent(None, "r2", Small) >>) EXCEPT !.ledger = TRUE]
                : told \in Tellings("amp")}

\* Copilot's records of one trace: the summary is written last, and the model is told of late.
CopilotSessions ==
    {Session("copilot",
        << [Of("r1", "usage", told, "m1", "c", 3) EXCEPT !.trace = "t1", !.way = "inference"],
           [Line("usage") EXCEPT !.trace = "t1", !.session = <<"c", 2>>],
           [Line("usage") EXCEPT !.trace = "t1", !.model = "m1", !.session = <<"b", 1>>],
           [Of("r1", "usage", told, "m1", "c", 3) EXCEPT !.trace = "t1", !.way = "chat", !.model = "m1"],
           [Of("r1", "usage", told, "m1", "c", 3) EXCEPT !.trace = "t1", !.way = "summary"],
           [Of("r2", "usage", Small, "default", "t2", 1) EXCEPT !.trace = "t2", !.way = "turn"],
           Of("r3", "usage", Small, "default", "s", 1) >>) : told \in Tellings("copilot")}

\* Grok's sessions share a log; their turns are read in any order.
GrokSessions ==
    {[Session("grok", << [Of("r1", "usage", told, "m1", "a", 1) EXCEPT !.session = "a", !.at = 10],
                         [Of("r2", "usage", Small, "m2", "a", 1) EXCEPT !.session = "a", !.at = 20],
                         [Of("r3", "usage", Small, "default", "b", 1) EXCEPT !.session = "b", !.at = 20] >>)
        EXCEPT !.turns = << [session |-> "a", at |-> 15, model |-> "m2"],
                            [session |-> "a", at |-> 5, model |-> "m1"],
                            [session |-> "a", at |-> 5, model |-> "m1"] >>] : told \in Tellings("grok")}

\* A request told of while it grows, and sums by model.
Growing(told) ==
    << [Line("usage") EXCEPT !.session = "g"],
       [Of("r1", "gemini", <<Bill(2, 0, 0, 1, 0), NoTotal(Parts(Bill(2, 0, 0, 1, 0)))>>, "m1", "g", 1)
            EXCEPT !.id = "i1", !.model = "m1"],
       [Of("r2", "gemini", <<First, NoTotal(Parts(First))>>, "m1", "g", 1) EXCEPT !.id = "i2"],
       [Of("r1", "gemini", told, "m1", "g", 1) EXCEPT !.id = "i1"],
       Of("r3", "gemini", <<First, NoTotal(Parts(First))>>, "m1", "g", 1) >>

Sums(told) ==
    << [Line("stats") EXCEPT !.session = "g", !.models =
            << [Of("r1", "usage", told, "m1", "g", 1) EXCEPT !.model = "m1"],
               [Line("usage") EXCEPT !.model = "m2"],
               [Of("r2", "usage", <<First, NoTotal(Parts(First))>>, "m2", "g", 1) EXCEPT !.model = "m2"] >>],
       [Of("r3", "stats", told, "default", "g", 1) EXCEPT !.session = "g"] >>

\* In sums the cached tokens are within the input.
OfSums(told) == told[2] = Within(told[1], Complete(told[1])) \/ told[1].read = 0

GeminiSessions ==
    {Session("gemini", Growing(told)) : told \in Tellings("gemini")}
        \cup {Session("gemini", Sums(told)) : told \in {t \in Tellings("gemini") : OfSums(t)}}
        \cup {Session("gemini document",
                      << [Of("r1", "gemini", told, "m1", "s", 1) EXCEPT !.id = "i1", !.model = "m1"],
                         [Line("gemini") EXCEPT !.t = T(1, 1, 0, 0, 0, None)] >>) : told \in Tellings("gemini")}

\* A message of Codebuff tells of its request in either place, in both, or in the run state.
Place(told, model) == [t |-> told[2].t, cost |-> 0, model |-> model]

History(told) == << [model |-> "m1", places |-> <<Place(told, None)>>] >>

CodebuffLines(told) ==
    LET line == [Of("r1", "assistant", told, "m1", "s", 1) EXCEPT !.t = Zero]
    IN  {[line EXCEPT !.places = <<Place(told, "m1")>>],
         [line EXCEPT !.places = <<Place(<<None, Way(TRUE, Zero)>>, "m1"), Place(told, "m2")>>],
         [line EXCEPT !.places = <<Place(told, None), Place(told, "m1")>>],
         [line EXCEPT !.model = "m1", !.history = History(told)],
         [line EXCEPT !.places = <<Place(told, None)>>, !.history = History(told)]}

CodebuffSessions ==
    {Session("codebuff", <<line, Line("user"),
                           [Of("r2", "assistant", <<Bill(0, 0, 0, 0, 0), Way(TRUE, Zero)>>, "default", "s", 1)
                                EXCEPT !.credits = 5] >>)
        : line \in UNION {CodebuffLines(told) : told \in Tellings("codebuff")}}

\* A response in the steps and in the generations, each in its own way, and with a retry.
Telling(request, ids, told, model) ==
    [request |-> request, ids |-> ids, t |-> told[2].t, model |-> None,
     spent |-> told[1] @@ [apart |-> told[2].apart, model |-> model, session |-> "s", known |-> 4]]

Databases(one, two) ==
    << [Line("step") EXCEPT !.at = 30, !.provider = "google", !.usages = << Telling("r1", <<"i1", "j1">>, one, "m1") >>],
       [Line("generation") EXCEPT !.model = "m1", !.usages = << Telling("r1", <<"j1">>, two, "m1") >>],
       [Line("step") EXCEPT !.model = "m2", !.usages = << Telling("r2", <<"i2">>, <<First, Parts(First)>>, "m2") >>],
       [Line("generation") EXCEPT !.at = 20, !.usages =
            << [Telling("r2", <<"i2">>, <<First, Parts(First)>>, "m2") EXCEPT !.model = "m2"],
               Telling("r3", <<"i3">>, <<First, Parts(First)>>, "m2") >>] >>

AntigravitySessions ==
    {Session("antigravity", Databases(one, two)) :
        <<one, two>> \in {pair \in Tellings("antigravity") \X Tellings("antigravity") : pair[1][1] = pair[2][1]}}

----------------------------------------------------------------------------
\* The modes, what is written down and which names have a price, for one request of each format.
Formats == {"pi", "store", "openclaw", "opencode", "kilo", "droid", "qwen", "zcode", "hermes", "goose",
            "grok", "copilot", "gemini", "gemini document", "kimi", "antigravity", "amp"}

Writes == {"pi", "store", "openclaw", "opencode", "kilo", "hermes"}

Priced(model, provider) ==
    {<<>>, <<"", model>> :> 0, <<"", model>> :> 1, <<provider, model>> :> 1,
     <<"google", model>> :> 1, <<"xai", model>> :> 1, <<"moonshot", "k2.6">> :> 1, <<"", "big">> :> 1}

CostedLine(format, model, provider, written) ==
    LET request == [Of("r1", "usage", <<First, Way(TRUE, [T(2, 1, 0, 0, 0, 0) EXCEPT !.total = 3])>>, model, "s", 9)
                        EXCEPT !.model = model, !.provider = provider, !.written = written]
    IN  CASE format = "kimi" -> [request EXCEPT !.kind = "turn", !.at = 50]
          [] format \in {"gemini", "gemini document"} -> [request EXCEPT !.kind = "gemini"]
          [] format = "amp" -> [request EXCEPT !.kind = "message"]
          [] format = "grok" -> [request EXCEPT !.session = "s", !.at = 5]
          [] format = "antigravity" ->
                [Line("step") EXCEPT !.model = model, !.provider = provider, !.usages =
                    << Telling("r1", <<"i1">>, <<First, Parts(First)>>, model) >>]
          [] OTHER -> request

CostedSessions ==
    {[Session(format, <<CostedLine(format, model, provider, written)>>)
        EXCEPT !.mode = mode, !.prices = prices,
               !.turns = << [session |-> "s", at |-> 1, model |-> model] >>,
               !.overrides = IF provider = "p" /\ mode = "auto" THEN prices ELSE << >>] :
        <<format, model, provider, written, mode, prices>> \in
            UNION {{format} \X {model} \X {provider}
                    \X (IF format \in Writes THEN {None, 0, 5} ELSE {None})
                    \X {"auto", "display", "calculate"} \X Priced(model, provider) :
                   <<format, model, provider>> \in Formats \X {"default", "Big"} \X {"p", "google", "unknown"}}}

Sessions ==
    PlainSessions \cup OpenClawSessions \cup KimiSessions \cup AmpSessions \cup CopilotSessions
        \cup GrokSessions \cup GeminiSessions \cup CodebuffSessions \cup AntigravitySessions
        \cup CostedSessions
=============================================================================
