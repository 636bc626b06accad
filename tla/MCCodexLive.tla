---------------------------- MODULE MCCodexLive -----------------------------
(***************************************************************************)
(* One log.  Counters and contexts of a session whose total is reset, of   *)
(* one that only counts its last request, and of headless results that     *)
(* look alike; the log of the first two may be cut and restored.           *)
(***************************************************************************)
EXTENDS CodexLive

Meta(id) == [kind |-> "meta", id |-> id, at |-> 0, total |-> None, last |-> None, model |-> None]
Turn(model) ==
    [kind |-> "turn", id |-> "", at |-> 0, total |-> None, last |-> None, model |-> model]
Counter(at, total, last, model) ==
    [kind |-> "count", id |-> "", at |-> at, total |-> total, last |-> last, model |-> model]
Headless(at, tokens, model) ==
    [kind |-> "headless", id |-> "", at |-> at, total |-> None, last |-> tokens, model |-> model]

Resetting ==
    <<Counter(1, 4, 4, "gpt-a"), Counter(2, 6, None, None), Counter(3, 1, 1, "gpt-b"),
      Counter(4, 3, 2, None)>>

Advancing ==
    <<Meta("one"), Turn("gpt-a"), Counter(1, 2, 2, None), Counter(1, 2, 2, None),
      Counter(2, 5, None, "gpt-b"), Counter(3, 6, 1, None)>>

LastOnly ==
    <<Counter(1, None, 2, None), Turn("gpt-b"), Counter(2, None, 2, None)>>

Alike == <<Headless(1, 2, None), Headless(1, 2, "gpt-a"), Headless(1, 2, None)>>

\* A fork's log names the fork and, after it, the session whose history it took over.
Forked == <<Meta("fork"), Meta("parent"), Counter(1, 2, 2, "gpt-a"), Counter(2, 3, 1, None)>>

Second == <<Meta("two"), Counter(5, 3, 3, "gpt-a"), Counter(6, 4, 1, None)>>

MCLine == UNION {ToSet(h) : h \in {Resetting, Advancing, LastOnly, Alike, Forked, Second}}
MCDayOf(at) == IF at < 3 THEN 1 ELSE 2

MCCareers == {<<Resetting>>, <<Advancing, Second>>, <<LastOnly>>, <<Alike>>}
MCReusedAt == {"asleep", "next"}
MCCut == {Resetting, Advancing, LastOnly}

ForkCareers == {<<Forked>>}
ForkCut == {}
=============================================================================
