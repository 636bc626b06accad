---------------------------- MODULE MCInvocations ----------------------------
(***************************************************************************)
(* Command lines and config files, for MCReports.                          *)
(***************************************************************************)
EXTENDS Sequences

CONSTANTS Unusable, None

Word(text) == <<[text |-> text, value |-> None]>>
Joined(flag, value) == <<[text |-> flag, value |-> value]>>

Before ==
    {<<>>, Joined("--order", "asc"), Word("--order") \o Word("asc"), Word("--offline"),
     Word("--last") \o Word("7"), Word("--since") \o Word("d"), Word("--sections") \o Word("weekly"),
     Word("--by-agent"), Word("--config") \o Word("named"), Joined("--config", "named") \o Word("--no-offline"),
     Word("--last"), Word("--by-agent") \o Word("--sections") \o Word("daily") \o Joined("--last", "2"),
     Word("--offline") \o Joined("--order", "desc") \o Word("--order") \o Word("asc")}

Named ==
    {<<>>, Word("daily"), Word("weekly"), Word("session"), Word("blocks"), Word("statusline"), Word("limits"),
     Word("claude"), Word("claude") \o Word("daily"), Word("claude") \o Word("weekly"),
     Word("claude") \o Word("statusline"), Word("claude") \o Word("limits"), Word("claude:weekly"),
     Word("codex"), Word("codex:daily"), Word("codex") \o Word("weekly"), Word("opencode") \o Word("weekly"),
     Word("amp") \o Word("monthly"), Word("unknown")}

After ==
    {<<>>, Joined("--order", "desc"), Word("--order") \o Word("--offline"), Word("--last") \o Word("3"),
     Word("--no-offline"), Joined("--speed", "fast"), Word("--instances"), Word("--start-of-week") \o Word("monday"),
     Word("--sections") \o Word("weekly"), Word("daily"), Joined("--by-agent", "yes")}

CommandLines == {b \o n \o a : b \in Before, n \in Named, a \in After}

----------------------------------------------------------------------------
\* A file that says everything everywhere, one by commands, and one by agents.
Everything == {"order", "offline", "since", "speed", "instances", "start_of_week"}

AllSections ==
    {<<"defaults">>, <<"claude", "defaults">>, <<"codex", "defaults">>, <<"opencode", "defaults">>}
        \cup {<<"commands", r>> : r \in {"daily", "weekly", "session", "statusline"}}
        \cup {<<"commands", "claude", ":", r>> : r \in {"daily", "weekly"}}
        \cup {<<"commands", "codex", "daily">>, <<"commands", "7">>}
        \cup {<<a, "commands", r>> : a \in {"claude", "codex", "opencode"}, r \in {"daily", "weekly", "statusline"}}

Full == [s \in AllSections |-> Everything]

ByCommand == [s \in {t \in AllSections : t[1] \in {"defaults", "commands"}} |->
                  IF s = <<"defaults">> THEN {"order", "since"} ELSE {"order", "no_offline"}]

ByAgent == [s \in {t \in AllSections : t[1] # "commands"} |->
                IF Len(s) = 1 THEN {"order", "offline"} ELSE IF Len(s) = 2 THEN {"order", "speed"} ELSE {"no_offline"}]

Disks ==
    {[named |-> Unusable, discovered |-> <<Full>>], [named |-> Full, discovered |-> <<Unusable, ByCommand>>],
     [named |-> ByAgent, discovered |-> <<>>], [named |-> ByCommand, discovered |-> <<ByAgent, Full>>]}

=============================================================================
