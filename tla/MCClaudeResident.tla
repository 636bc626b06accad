-------------------------- MODULE MCClaudeResident --------------------------
(***************************************************************************)
(* Two logs of two projects and two days.  `m` grows from the first day    *)
(* (`m1`) into the second (`m2`) and comes back to the first (`m3`), all   *)
(* possibly within one poll; `bare` has no id.                             *)
(***************************************************************************)
EXTENDS ClaudeResident

Rec(id, req, tokens, date) ==
    [id |-> id, req |-> req, side |-> FALSE, tokens |-> tokens, cost |-> tokens,
     speed |-> FALSE, date |-> date, model |-> IF tokens > 2 THEN "opus" ELSE "sonnet"]

MCLine == {"m1", "m2", "m3", "bare"}

MCRecordsOf ==
    [l \in MCLine |->
        CASE l = "m1"   -> <<Rec("m", "r", 1, "d1")>>
          [] l = "m2"   -> <<Rec("m", "r", 2, "d2")>>
          [] l = "m3"   -> <<Rec("m", "r", 3, "d1")>>
          [] l = "bare" -> <<Rec(None, None, 1, "d2")>>]

MCProjectOf == <<"p1", "p2">>
MCSessionOf == <<"s1", "s2">>

MCRewrites == {<<>>, <<"m1", "nl", "m2", "nl", "m3", "nl">>}

MCInitialDisks ==
    {[f \in File |-> IF f = 1 THEN Image(0, 0, <<"m1", "nl">>) ELSE Gone],
     [f \in File |-> Image(0, 0, IF f = 1 THEN <<"m1", "nl", "m2", "nl">> ELSE <<"bare", "nl">>)]}
=============================================================================
