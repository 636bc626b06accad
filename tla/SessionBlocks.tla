---------------------------- MODULE SessionBlocks ---------------------------
(***************************************************************************)
(* identify_session_blocks (blocks.rs): entries in the order of their      *)
(* times are cut into blocks, which start on the hour and end by length or *)
(* by silence, with a gap where the silence was.                           *)
(*                                                                         *)
(* An entry is its place among the sorted entries; a block holds places.   *)
(***************************************************************************)
EXTENDS Integers, Sequences

CONSTANTS
    Duration,       \* session_duration
    Hour,           \* milliseconds of an hour
    Timelines,      \* the entries' times there may be, sorted
    Clock,          \* what the clock may say
    NoStart         \* no block begun

Ascending(t) == \A i, j \in DOMAIN t : i <= j => t[i] <= t[j]

ASSUME BlocksAssumption ==
    /\ Duration \in Nat \ {0}
    /\ Hour \in Nat \ {0}
    /\ Timelines \subseteq Seq(Nat)
    /\ \A t \in Timelines : Ascending(t)
    /\ Clock \subseteq Nat
    /\ NoStart \notin Nat

VARIABLES
    times,          \* the sorted entries' times
    now,            \* the clock, read once
    taken,          \* how many entries the loop has gone through
    start,          \* current_start
    current,        \* current_entries
    blocks,
    built           \* whether the loop is over

blvars == <<times, now, taken, start, current, blocks, built>>

Places == 1..Len(times)

FloorToHour(time) == time - (time % Hour)

IsActive(end, last) == now - last < Duration /\ now < end

\* create_block of the entries since first up to last, the places of the entries.
Block(begin, entries, last) ==
    [start |-> begin, end |-> begin + Duration, entries |-> entries,
     is_active |-> IsActive(begin + Duration, times[last]), is_gap |-> FALSE]

\* create_gap_block.
GapBlock(last, next) ==
    [start |-> last + Duration, end |-> next, entries |-> {},
     is_active |-> FALSE, is_gap |-> TRUE]

----------------------------------------------------------------------------
SinceStart == times[taken + 1] - start
SinceLast == times[taken + 1] - times[taken]

\* Mutant: a block goes on for as long as its own entries are close together.
IsOverBySilence == SinceLast > Duration

IsOver == SinceStart > Duration \/ SinceLast > Duration

\* The entry is the current block's first.
Begin ==
    /\ start' = FloorToHour(times[taken + 1])
    /\ current' = {taken + 1}

First ==
    /\ taken < Len(times)
    /\ start = NoStart
    /\ Begin
    /\ taken' = taken + 1
    /\ UNCHANGED <<times, now, blocks, built>>

Extend ==
    /\ taken < Len(times)
    /\ start # NoStart
    /\ ~IsOver
    /\ current' = current \cup {taken + 1}
    /\ taken' = taken + 1
    /\ UNCHANGED <<times, now, start, blocks, built>>

\* Mutant: every block that ends is followed by a gap.
WithGapAlways(bs) == Append(bs, GapBlock(times[taken], times[taken + 1]))

WithGapIfAny(bs) ==
    IF SinceLast > Duration THEN Append(bs, GapBlock(times[taken], times[taken + 1])) ELSE bs

Break ==
    /\ taken < Len(times)
    /\ start # NoStart
    /\ IsOver
    /\ blocks' = WithGapIfAny(Append(blocks, Block(start, current, taken)))
    /\ Begin
    /\ taken' = taken + 1
    /\ UNCHANGED <<times, now, built>>

Close ==
    /\ taken = Len(times)
    /\ ~built
    /\ built' = TRUE
    /\ blocks' = IF start = NoStart THEN blocks
                 ELSE Append(blocks, Block(start, current, taken))
    /\ start' = NoStart
    /\ current' = {}
    /\ UNCHANGED <<times, now, taken>>

BLInit ==
    /\ times \in Timelines
    /\ now \in Clock
    /\ taken = 0
    /\ start = NoStart
    /\ current = {}
    /\ blocks = <<>>
    /\ built = FALSE

BLNext == First \/ Extend \/ Break \/ Close

BLSpec == BLInit /\ [][BLNext]_blvars

----------------------------------------------------------------------------
BlockType == [start: Nat, end: Nat, entries: SUBSET Places, is_active: BOOLEAN, is_gap: BOOLEAN]

BLTypeOK ==
    /\ taken \in 0..Len(times)
    /\ start \in Nat \cup {NoStart}
    /\ current \subseteq Places
    /\ blocks \in Seq(BlockType)
    /\ built \in BOOLEAN

\* Every entry is in one block, so the blocks' tokens and costs add up to the entries'.
EntriesOnce ==
    /\ \A i \in Places : i <= taken =>
          i \in current \/ \E b \in DOMAIN blocks : i \in blocks[b].entries
    /\ \A b \in DOMAIN blocks : blocks[b].entries \cap current = {}
    /\ \A b, c \in DOMAIN blocks : b # c => blocks[b].entries \cap blocks[c].entries = {}

\* A block's entries lie in its window, the end included; with windows shorter than an hour, in
\* the hour of its start.
InWindow ==
    \A b \in DOMAIN blocks : \A i \in blocks[b].entries :
        /\ blocks[b].start <= times[i]
        /\ times[i] <= blocks[b].end \/ times[i] < blocks[b].start + Hour

\* No entry comes from the future.
AllPast == \A i \in Places : times[i] <= now

\* At most one block is active, the last: the status line and the active report take the first
\* active block they meet.
OneActive ==
    AllPast => \A b \in DOMAIN blocks : blocks[b].is_active => built /\ b = Len(blocks)

\* There is a gap wherever two entries are further apart than a block is long, and nowhere else,
\* and no entry falls into it.
GapsAreSilences ==
    /\ \A i \in 2..taken : times[i] - times[i - 1] > Duration =>
          GapBlock(times[i - 1], times[i]) \in {blocks[b] : b \in DOMAIN blocks}
    /\ \A b \in DOMAIN blocks : blocks[b].is_gap =>
          /\ blocks[b].start < blocks[b].end
          /\ \A i \in Places : times[i] + Duration <= blocks[b].start \/ blocks[b].end <= times[i]
=============================================================================
