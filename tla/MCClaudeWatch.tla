--------------------------- MODULE MCClaudeWatch ---------------------------
(***************************************************************************)
(* Two logs of two projects.  `m` is a message streamed twice, the second  *)
(* record larger; `side` is its replay by a sidechain, under another       *)
(* request id; `bare` has no message id; `talk` is a line without usage;    *)
(* `advised` carries an advisor's usage beside its own.                    *)
(***************************************************************************)
EXTENDS ClaudeWatch

Rec(id, req, side, tokens) ==
    [id |-> id, req |-> req, side |-> side, tokens |-> tokens, cost |-> 0,
     speed |-> FALSE, date |-> "d1", model |-> "sonnet"]

MCLine == {"m1", "m2", "side", "bare", "talk", "advised"}

MCRecordsOf ==
    [l \in MCLine |->
        CASE l = "m1"   -> <<Rec("m", "r", FALSE, 1)>>
          [] l = "m2"   -> <<Rec("m", "r", FALSE, 2)>>
          [] l = "side" -> <<Rec("m", "s", TRUE, 3)>>
          [] l = "bare" -> <<Rec(None, None, FALSE, 1)>>
          [] l = "talk" -> <<>>
          [] l = "advised" -> <<Rec("m", "r", FALSE, 1), Rec("m:advisor:0", "r", FALSE, 4)>>]

MCProjectOf == <<"p1", "p2">>
MCSessionOf == <<"s1", "s2">>

MCRewrites == {<<>>, <<"bare", "nl">>, <<"m1", "nl", "side", "nl">>}

MCInitialDisks ==
    {[f \in File |-> IF f = 1 THEN Image(0, 0, <<"m2", "nl">>) ELSE Gone],
     [f \in File |-> Image(0, 0, IF f = 1 THEN <<"side", "nl", "bare">> ELSE <<"m1", "nl">>)]}
=============================================================================
