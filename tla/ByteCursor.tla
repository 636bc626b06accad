----------------------------- MODULE ByteCursor -----------------------------
(***************************************************************************)
(* The read position of one watched log, and what feeding bytes to it      *)
(* gives: ByteCursor of rust/adapters/common/src/live.rs, which the Codex  *)
(* and the Grok live views share.                                          *)
(*                                                                         *)
(* A byte stands for a run of bytes without a newline, so that a line of   *)
(* one byte is a line as it was written, and one of several is glued       *)
(* together from pieces of different lines.                                *)
(***************************************************************************)
EXTENDS Naturals, FiniteSets, SequencesExt

CONSTANTS
    NL,     \* the newline
    Gone,   \* no such file, no cursor
    None    \* nothing

Fresh == [offset |-> 0, tail |-> <<>>]

Position(cursor) == cursor.offset + Len(cursor.tail)

\* FoldLeft with each intermediate result computed once, where a checker would substitute it.
Folded(op(_, _), base, seq) ==
    LET upto[n \in 0 .. Len(seq)] ==
            IF n = 0 THEN base
            ELSE CHOOSE r \in {op(before, seq[n]) : before \in {upto[n - 1]}} : TRUE
    IN  upto[Len(seq)]

\* One byte after another: a newline closes the line so far.
NextByte(split, byte) ==
    IF byte = NL THEN [lines |-> Append(split.lines, split.tail), tail |-> <<>>]
    ELSE [split EXCEPT !.tail = Append(@, byte)]

Split(bytes) == Folded(NextByte, [lines |-> <<>>, tail |-> <<>>], bytes)

\* `feed`: the lines it calls back with, and the cursor after.
LinesFed(cursor, bytes) == Split(cursor.tail \o bytes).lines

Fed(cursor, bytes) ==
    LET tail == Split(cursor.tail \o bytes).tail
    IN  [offset |-> cursor.offset + Len(cursor.tail \o bytes) - Len(tail), tail |-> tail]

\* read_appended: a position past the end reads nothing.
ReadAppended(bytes, position) == SubSeq(bytes, position + 1, Len(bytes))
=============================================================================
