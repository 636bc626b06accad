---------------------------- MODULE MCClaudeLive ----------------------------
(***************************************************************************)
(* Two logs and two days.  `m` streams from the first day (`m1`) into the  *)
(* second (`m2`); `side` replays it with more tokens; `bare` has no id.    *)
(***************************************************************************)
EXTENDS ClaudeLive

Rec(id, req, side, tokens, date) ==
    [id |-> id, req |-> req, side |-> side, tokens |-> tokens, cost |-> tokens,
     speed |-> FALSE, date |-> date, model |-> IF side THEN None ELSE "sonnet"]

MCLine == {"m1", "m2", "side", "bare"}

MCRecordsOf ==
    [l \in MCLine |->
        CASE l = "m1"   -> <<Rec("m", "r", FALSE, 1, "d1")>>
          [] l = "m2"   -> <<Rec("m", "r", FALSE, 2, "d2")>>
          [] l = "side" -> <<Rec("m", "s", TRUE, 3, "d1")>>
          [] l = "bare" -> <<Rec(None, None, FALSE, 1, "d2")>>]

MCProjectOf == [f \in File |-> "p1"]
MCSessionOf == [f \in File |-> IF f = 1 THEN "s1" ELSE "s2"]


MCRewrites == {<<>>, <<"side", "nl">>}

MCInitialDisks ==
    {[f \in File |-> Image(0, 0, IF f = 1 THEN <<"m1", "nl", "m2">> ELSE <<"bare", "nl">>)]}

\* Logs that only grow or disappear.
NoRewrites == {}

\* A log that loses its second record and gets it back.
ShortenedLog == {<<"m1", "nl">>}
OneLog == {[f \in File |-> Image(0, 0, <<"m1", "nl", "m2", "nl">>)]}

MCCalendar == <<"d1", "d2">>
MCThreshold == [m \in Metric |-> IF m = "tokens" THEN 3 ELSE None]
=============================================================================
