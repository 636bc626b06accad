-------------------------- MODULE LiveViews_proofs --------------------------
(***************************************************************************)
(* The Codex live view: its total is the sum of what it has streamed of    *)
(* the day on display, for every set of logs and however they change.  A   *)
(* total is the sum over a sequence of events, so the total of two         *)
(* sequences one after the other is that of both; the rest is what a log,  *)
(* a cursor and a parser can hold, which takes the feed of a file from     *)
(* bytes to lines to events.                                               *)
(*                                                                         *)
(* The Grok live view: a request is streamed with the model of a turn it   *)
(* can have been of, and again only if that was not settled.  A cursor     *)
(* stands behind a newline of a file that only grows, so the timeline of   *)
(* a session has every turn the cursor has passed; the pass over the       *)
(* files of turns takes the cursors past all that was on disk when it      *)
(* began, and only then are the requests read.                             *)
(***************************************************************************)
EXTENDS CodexLive, GrokLive, SequenceFacts, FiniteSetTheorems

----------------------------------------------------------------------------
(***************************************************************************)
(* What the variables hold.                                                *)
(***************************************************************************)
Text == Seq(Line \cup {NL})
Inode == Nat \cup {None}

Image == [ino: Nat, bytes: Text]

Found == [at: Nat, model: Model, tokens: Nat]

Streamed == [file: File, event: Found]

Parsers == [previous_totals: Nat \cup {None}, current_model: Model \cup {None},
            events: Seq(Found)]

Checkpoints == [timestamp: Nat, cumulative: BOOLEAN, total: Nat \cup {None}]

Bags == UNION {[K -> Nat] : K \in SUBSET (Nat \X (Nat \cup {None}))}

Cursors == [offset: Nat, tail: Seq(Line)]

Files == [cursor: Cursors, identity: Inode, logical_session_id: STRING \cup {None},
          parser: Parsers, seen_counters: SUBSET Checkpoints,
          seen_headless: Bags, replay_headless: Bags, replaying: BOOLEAN]

Reads == [file: File \cup {None}, size: Nat, ino: Inode, bytes: Text]

LogType ==
    /\ career \in [File -> Careers]
    /\ nth \in [File -> Nat] /\ \A f \in File : nth[f] \in DOMAIN career[f]
    /\ disk \in [File -> Image \cup {Gone}]
    /\ \A f \in File : Held(f) <= Len(Bytes[career[f][nth[f]]])
    /\ changes \in Nat
    /\ clock \in Days

ViewType ==
    /\ cursors \in [File -> Files \cup {Gone}]
    /\ accepted \in Seq(Streamed)
    /\ book \in [today: Days, total: Nat]
    /\ todo \subseteq File
    /\ read \in Reads
    /\ pc \in {"new", "known", "feed"} => read.file \in File
    /\ pc = "known" => cursors[read.file] # Gone

CodexInv == LogType /\ ViewType /\ TotalMatchesStream

----------------------------------------------------------------------------
(***************************************************************************)
(* Totals.                                                                 *)
(***************************************************************************)
LEMMA OfDayType == \A e \in Streamed, d \in Days : OfDay(e, d) \in Nat
  BY DEF Streamed, Found, OfDay

\* There is a running total, and Total is its last value.
LEMMA TotalIs ==
    ASSUME NEW es \in Seq(Streamed), NEW d \in Days
    PROVE  \E h \in [0 .. Len(es) -> Nat] :
              /\ h[0] = 0 /\ \A n \in 1 .. Len(es) : h[n] = h[n-1] + OfDay(es[n], d)
              /\ Total(es, d) = h[Len(es)]
<1> DEFINE N == Len(es)
           Is(h) == h = [n \in 0 .. N |-> IF n = 0 THEN 0 ELSE h[n-1] + OfDay(es[n], d)]
           step == [n \in 1 .. N |-> [t \in Nat |-> t + OfDay(es[n], d)]]
           upTo == CHOOSE h : Is(h)
<1>1. N \in Nat /\ \A n \in 1 .. N : OfDay(es[n], d) \in Nat
  <2>1. \A n \in 1 .. N : es[n] \in Streamed
    OBVIOUS
  <2> QED  BY <2>1, OfDayType
<1>2. \A n \in 1 .. N : \A t \in Nat : step[n][t] = t + OfDay(es[n], d)
  OBVIOUS
<1>3. \A n \in 1 .. N : \A t \in Nat : step[n][t] \in Nat
  BY <1>1, <1>2
<1> HIDE DEF step
<1>4. PICK g \in [0 .. N -> Nat] : g[0] = 0 /\ \A n \in 1 .. N : g[n] = step[n][g[n-1]]
  <2>1. Recurs(Nat, N, 0, step)
    BY <1>1, <1>3, Recursion
  <2> QED  BY <2>1 DEF Recurs
<1>5. \A n \in 1 .. N : g[n] = g[n-1] + OfDay(es[n], d)
  <2> SUFFICES ASSUME NEW n \in 1 .. N PROVE g[n] = g[n-1] + OfDay(es[n], d)
    OBVIOUS
  <2>1. n - 1 \in 0 .. N
    BY <1>1
  <2>2. g[n-1] \in Nat
    BY <2>1
  <2> QED  BY <1>2, <1>4, <2>2
<1>6. Is(g)
  <2>1. \A n \in 0 .. N : g[n] = IF n = 0 THEN 0 ELSE g[n-1] + OfDay(es[n], d)
    BY <1>1, <1>4, <1>5
  <2>2. g = [n \in 0 .. N |-> g[n]]
    OBVIOUS
  <2> QED  BY <2>1, <2>2
<1>7. Is(upTo)
  BY <1>6
<1>8. Total(es, d) = upTo[N]
  BY DEF Total
<1>9. upTo[0] = 0 /\ \A n \in 1 .. N : upTo[n] = upTo[n-1] + OfDay(es[n], d)
  <2> HIDE DEF upTo
  <2> QED  BY <1>1, <1>7
<1> HIDE DEF upTo
<1> DEFINE T == {n \in 0 .. N : upTo[n] = g[n]}
<1>10. \A n \in 0 .. N : n \in T
  <2>1. 0 \in T
    BY <1>1, <1>4, <1>9
  <2>2. ASSUME NEW n \in 1 .. N, n - 1 \in T PROVE n \in T
    BY <1>5, <1>9, <2>2
  <2> HIDE DEF T
  <2> QED  BY <1>1, <2>1, <2>2, SetInduction
<1>11. N \in 0 .. N
  BY <1>1
<1>12. Total(es, d) = g[N]
  BY <1>8, <1>10, <1>11
<1> QED  BY <1>4, <1>5, <1>12

LEMMA TotalOfNone == \A d \in Days : Total(<<>>, d) = 0
<1> SUFFICES ASSUME NEW d \in Days PROVE Total(<<>>, d) = 0
  OBVIOUS
<1>1. <<>> \in Seq(Streamed) /\ Len(<<>>) = 0
  OBVIOUS
<1> QED  BY <1>1, TotalIs

\* The total of one sequence of events after another is that of both.
LEMMA TotalOfBoth ==
    ASSUME NEW a \in Seq(Streamed), NEW b \in Seq(Streamed), NEW d \in Days
    PROVE  /\ a \o b \in Seq(Streamed) /\ Total(a, d) \in Nat /\ Total(b, d) \in Nat
           /\ Total(a \o b, d) = Total(a, d) + Total(b, d)
<1> DEFINE c == a \o b
           A == Len(a)
           B == Len(b)
<1>1. /\ A \in Nat /\ B \in Nat /\ c \in Seq(Streamed) /\ Len(c) = A + B
      /\ \A n \in 1 .. A : c[n] = a[n]
      /\ \A n \in 1 .. B : c[A + n] = b[n]
  OBVIOUS
<1> HIDE DEF c, A, B
<1>2. PICK f \in [0 .. A -> Nat] :
         /\ f[0] = 0 /\ \A n \in 1 .. A : f[n] = f[n-1] + OfDay(a[n], d)
         /\ Total(a, d) = f[A]
  BY TotalIs DEF A
<1>3. PICK g \in [0 .. B -> Nat] :
         /\ g[0] = 0 /\ \A n \in 1 .. B : g[n] = g[n-1] + OfDay(b[n], d)
         /\ Total(b, d) = g[B]
  BY TotalIs DEF B
<1>4. PICK h \in [0 .. Len(c) -> Nat] :
         /\ h[0] = 0 /\ \A n \in 1 .. Len(c) : h[n] = h[n-1] + OfDay(c[n], d)
         /\ Total(c, d) = h[Len(c)]
  BY <1>1, TotalIs
<1>5. h[A] = f[A]
  <2> DEFINE T == {n \in 0 .. A : h[n] = f[n]}
  <2>1. 0 \in T
    BY <1>1, <1>2, <1>4
  <2>2. ASSUME NEW n \in 1 .. A, n - 1 \in T PROVE n \in T
    <3>1. n \in 1 .. Len(c)
      BY <1>1
    <3> QED  BY <1>1, <1>2, <1>4, <2>2, <3>1
  <2> HIDE DEF T
  <2>3. \A n \in 0 .. A : n \in T
    BY <1>1, <2>1, <2>2, SetInduction
  <2>4. A \in T
    BY <1>1, <2>3
  <2> QED  BY <2>4 DEF T
<1>6. h[A + B] = f[A] + g[B]
  <2> DEFINE T == {n \in 0 .. B : h[A + n] = f[A] + g[n]}
  <2>0. f[A] \in Nat
    BY <1>1
  <2>1. 0 \in T
    BY <1>1, <1>3, <1>5, <2>0
  <2>2. ASSUME NEW n \in 1 .. B, n - 1 \in T PROVE n \in T
    <3> DEFINE m == A + n
    <3>1. m \in 1 .. Len(c) /\ m - 1 = A + (n - 1) /\ c[m] = b[n] /\ b[n] \in Streamed
      BY <1>1 DEF B
    <3> HIDE DEF m
    <3>2. h[m] = h[A + (n - 1)] + OfDay(b[n], d)
      <4>1. h[m] = h[m - 1] + OfDay(c[m], d)
        BY <1>4, <3>1
      <4> QED  BY <3>1, <4>1
    <3>3. g[n] = g[n-1] + OfDay(b[n], d) /\ g[n-1] \in Nat /\ OfDay(b[n], d) \in Nat
      <4>1. OfDay(b[n], d) \in Nat
        BY <3>1, OfDayType
      <4>2. n - 1 \in 0 .. B
        BY <1>1
      <4> QED  BY <1>3, <4>1, <4>2
    <3>4. h[A + n] = f[A] + g[n]
      BY <2>0, <2>2, <3>2, <3>3 DEF m
    <3> QED  BY <3>4
  <2> HIDE DEF T
  <2>3. \A n \in 0 .. B : n \in T
    BY <1>1, <2>1, <2>2, SetInduction
  <2>4. B \in T
    BY <1>1, <2>3
  <2> QED  BY <2>4 DEF T
<1>7. f[A] \in Nat /\ g[B] \in Nat
  BY <1>1
<1> QED  BY <1>1, <1>2, <1>3, <1>4, <1>6, <1>7 DEF c

----------------------------------------------------------------------------
(***************************************************************************)
(* From bytes to lines.                                                    *)
(***************************************************************************)
\* What bytes over S are split into.
Splits(S) == [lines: Seq(Seq(S)), tail: Seq(S)]

\* Splitting off a byte.
LEMMA NextByteType ==
    ASSUME NEW S, NEW x \in Splits(S), NEW byte \in S \cup {NL}
    PROVE  NextByte(x, byte) \in Splits(S)
<1>1. CASE byte = NL
  BY <1>1 DEF NextByte, Splits
<1>2. CASE byte # NL
  <2>1. byte \in S /\ x.tail \in Seq(S) /\ x.lines \in Seq(Seq(S))
    BY <1>2 DEF Splits
  <2>2. Append(x.tail, byte) \in Seq(S)
    BY <2>1
  <2>3. NextByte(x, byte) = [x EXCEPT !.tail = Append(@, byte)]
    BY <1>2 DEF NextByte
  <2>4. NextByte(x, byte) = [lines |-> x.lines, tail |-> Append(x.tail, byte)]
    BY <2>3 DEF Splits
  <2> QED  BY <2>1, <2>2, <2>4 DEF Splits
<1> QED  BY <1>1, <1>2

\* Bytes are split one after another.
LEMMA SplitIs ==
    ASSUME NEW S, NEW bytes \in Seq(S \cup {NL})
    PROVE  \E h \in [0 .. Len(bytes) -> Splits(S)] :
              /\ h[0] = [lines |-> <<>>, tail |-> <<>>]
              /\ \A n \in 1 .. Len(bytes) : h[n] = NextByte(h[n-1], bytes[n])
              /\ Split(bytes) = h[Len(bytes)]
<1> DEFINE N == Len(bytes)
           base == [lines |-> <<>>, tail |-> <<>>]
           Is(h) == h = [n \in 0 .. N |->
                            IF n = 0 THEN base
                            ELSE CHOOSE r \in {NextByte(before, bytes[n]) :
                                                   before \in {h[n-1]}} : TRUE]
           step == [n \in 1 .. N |-> [x \in Splits(S) |-> NextByte(x, bytes[n])]]
           upto == CHOOSE h : Is(h)
<1>1. N \in Nat /\ \A n \in 1 .. N : bytes[n] \in S \cup {NL}
  OBVIOUS
<1>2. Split(bytes) = upto[N]
  BY DEF Split, Folded
<1>3. \A n \in 1 .. N : \A x \in Splits(S) : step[n][x] = NextByte(x, bytes[n])
  OBVIOUS
<1>4. \A n \in 1 .. N : \A x \in Splits(S) : step[n][x] \in Splits(S)
  BY <1>1, <1>3, NextByteType
<1>5. base \in Splits(S)
  BY DEF Splits
<1> HIDE DEF step, N, base
<1>6. PICK g \in [0 .. N -> Splits(S)] : g[0] = base /\ \A n \in 1 .. N : g[n] = step[n][g[n-1]]
  <2>1. Recurs(Splits(S), N, base, step)
    BY <1>1, <1>4, <1>5, Recursion
  <2> QED  BY <2>1 DEF Recurs
<1>7. \A n \in 1 .. N : g[n-1] \in Splits(S) /\ g[n] = NextByte(g[n-1], bytes[n])
  <2> SUFFICES ASSUME NEW n \in 1 .. N
               PROVE  g[n-1] \in Splits(S) /\ g[n] = NextByte(g[n-1], bytes[n])
    OBVIOUS
  <2>1. n - 1 \in 0 .. N
    BY <1>1
  <2>2. g[n-1] \in Splits(S)
    BY <2>1
  <2> QED  BY <1>3, <1>6, <2>2
<1>8. \A b, x : (CHOOSE r \in {NextByte(before, b) : before \in {x}} : TRUE) = NextByte(x, b)
  OBVIOUS
<1>9. Is(g)
  <2>1. \A n \in 0 .. N :
           g[n] = IF n = 0 THEN base
                  ELSE CHOOSE r \in {NextByte(before, bytes[n]) : before \in {g[n-1]}} : TRUE
    <3> SUFFICES ASSUME NEW n \in 0 .. N, n # 0
                 PROVE  g[n] = CHOOSE r \in {NextByte(before, bytes[n]) :
                                                 before \in {g[n-1]}} : TRUE
      BY <1>6
    <3>1. n \in 1 .. N
      BY <1>1
    <3>2. g[n] = NextByte(g[n-1], bytes[n])
      BY <1>7, <3>1
    <3> QED  BY <1>8, <3>2
  <2>2. g = [n \in 0 .. N |-> g[n]]
    OBVIOUS
  <2> QED  BY <2>1, <2>2
<1>10. Is(upto)
  BY <1>9
<1>11. upto[0] = base /\ \A n \in 1 .. N : upto[n] = NextByte(upto[n-1], bytes[n])
  <2> HIDE DEF upto
  <2>1. upto[0] = base
    BY <1>1, <1>10
  <2>2. ASSUME NEW n \in 1 .. N PROVE upto[n] = NextByte(upto[n-1], bytes[n])
    <3>1. n \in 0 .. N /\ n # 0
      BY <1>1
    <3>2. upto[n] = CHOOSE r \in {NextByte(before, bytes[n]) : before \in {upto[n-1]}} : TRUE
      BY <1>10, <3>1
    <3> QED  BY <1>8, <3>2
  <2> QED  BY <2>1, <2>2
<1> HIDE DEF upto
<1> DEFINE T == {n \in 0 .. N : upto[n] = g[n]}
<1>12. \A n \in 0 .. N : n \in T
  <2>1. 0 \in T
    BY <1>1, <1>6, <1>11
  <2>2. ASSUME NEW n \in 1 .. N, n - 1 \in T PROVE n \in T
    <3>1. upto[n-1] = g[n-1] /\ n \in 0 .. N
      BY <1>1, <2>2
    <3> QED  BY <1>7, <1>11, <3>1
  <2> HIDE DEF T
  <2> QED  BY <1>1, <2>1, <2>2, SetInduction
<1>13. Split(bytes) = g[N]
  <2>1. N \in T
    <3> HIDE DEF T
    <3> QED  BY <1>1, <1>12
  <2> QED  BY <1>2, <2>1
<1> QED  BY <1>6, <1>7, <1>13 DEF N, base

\* The lines of one byte that are closed within the first k bytes are among the lines.
Closed(bytes, k, lines) ==
    \A i \in 1 .. k :
        /\ i < k /\ bytes[i] # NL /\ bytes[i+1] = NL
        /\ i > 1 => bytes[i-1] = NL
        => <<bytes[i]>> \in ToSet(lines)

\* The rest is what follows the last newline, which is the k-th byte.
Rest(bytes, n, k, tail) ==
    /\ k \in 0 .. n /\ Len(tail) = n - k
    /\ \A j \in 1 .. n - k : tail[j] = bytes[k+j] /\ bytes[k+j] # NL
    /\ k > 0 => bytes[k] = NL

\* A line is closed by its newline, and by nothing else.
LEMMA NextByteCloses ==
    ASSUME NEW S, NEW bytes \in Seq(S \cup {NL}), NEW n \in 1 .. Len(bytes),
           NEW x \in Splits(S), NEW k \in 0 .. n - 1,
           Rest(bytes, n - 1, k, x.tail), Closed(bytes, k, x.lines)
    PROVE  \E l \in 0 .. n :
              /\ Rest(bytes, n, l, NextByte(x, bytes[n]).tail)
              /\ Closed(bytes, l, NextByte(x, bytes[n]).lines)
<1>0. n \in Nat \ {0} /\ x.tail \in Seq(S) /\ x.lines \in Seq(Seq(S)) /\ bytes[n] \in S \cup {NL}
  BY DEF Splits
<1>1. CASE bytes[n] = NL
  <2> DEFINE next == Append(x.lines, x.tail)
  <2>1. NextByte(x, bytes[n]) = [lines |-> next, tail |-> <<>>]
    BY <1>1 DEF NextByte
  <2>2. ToSet(next) = ToSet(x.lines) \cup {x.tail}
    BY <1>0, Enqueued
  <2>3. Rest(bytes, n, n, <<>>)
    BY <1>0, <1>1 DEF Rest
  <2>4. Closed(bytes, n, next)
    <3> SUFFICES ASSUME NEW i \in 1 .. n, i < n, bytes[i] # NL, bytes[i+1] = NL,
                        i > 1 => bytes[i-1] = NL
                 PROVE  <<bytes[i]>> \in ToSet(next)
      BY DEF Closed
    <3>1. CASE i < k
      <4>1. i \in 1 .. k
        BY <1>0, <3>1
      <4>2. <<bytes[i]>> \in ToSet(x.lines)
        BY <3>1, <4>1 DEF Closed
      <4> QED  BY <2>2, <4>2
    <3>2. CASE i >= k
      <4>1. i > k /\ i \in Nat
        <5>1. i # k
          <6> SUFFICES ASSUME i = k PROVE FALSE
            OBVIOUS
          <6>1. k > 0
            BY <1>0
          <6> QED  BY <6>1 DEF Rest
        <5> QED  BY <1>0, <3>2, <5>1
      <4>2. i = n - 1
        <5> SUFFICES ASSUME i + 1 <= n - 1 PROVE FALSE
          BY <1>0, <4>1
        <5> DEFINE j == i + 1 - k
        <5>1. j \in 1 .. (n - 1) - k /\ k + j = i + 1
          BY <1>0, <4>1
        <5> HIDE DEF j
        <5>2. bytes[k+j] # NL
          BY <5>1 DEF Rest
        <5> QED  BY <5>1, <5>2
      <4>3. k = n - 2
        <5> SUFFICES ASSUME k < i - 1 PROVE FALSE
          BY <1>0, <4>1, <4>2
        <5> DEFINE j == i - 1 - k
        <5>1. j \in 1 .. (n - 1) - k /\ k + j = i - 1 /\ i > 1
          BY <1>0, <4>1
        <5> HIDE DEF j
        <5>2. bytes[k+j] # NL
          BY <5>1 DEF Rest
        <5> QED  BY <5>1, <5>2
      <4>4. Len(x.tail) = 1 /\ x.tail[1] = bytes[i]
        <5>1. Len(x.tail) = (n - 1) - k /\ 1 \in 1 .. (n - 1) - k /\ k + 1 = i
          BY <1>0, <4>2, <4>3 DEF Rest
        <5>2. x.tail[1] = bytes[k + 1]
          BY <5>1 DEF Rest
        <5> QED  BY <1>0, <4>3, <5>1, <5>2
      <4>5. x.tail = <<bytes[i]>>
        BY <1>0, <4>4
      <4> QED  BY <2>2, <4>5
    <3> QED  BY <1>0, <3>1, <3>2
  <2> HIDE DEF next
  <2> QED  BY <1>0, <2>1, <2>3, <2>4
<1>2. CASE bytes[n] # NL
  <2> DEFINE tail == Append(x.tail, bytes[n])
  <2>1. NextByte(x, bytes[n]).tail = tail /\ NextByte(x, bytes[n]).lines = x.lines
    BY <1>2 DEF NextByte, Splits
  <2>2. Rest(bytes, n, k, tail)
    <3>1. /\ Len(x.tail) = (n - 1) - k
          /\ \A j \in 1 .. (n - 1) - k : x.tail[j] = bytes[k+j] /\ bytes[k+j] # NL
          /\ k > 0 => bytes[k] = NL
      BY DEF Rest
    <3>2. /\ Len(tail) = n - k /\ tail[n - k] = bytes[n]
          /\ \A j \in 1 .. (n - 1) - k : tail[j] = x.tail[j]
      BY <1>0, <3>1
    <3>3. \A j \in 1 .. n - k : j = n - k \/ j \in 1 .. (n - 1) - k
      BY <1>0
    <3>4. k + (n - k) = n /\ k \in 0 .. n
      BY <1>0
    <3> HIDE DEF tail
    <3>5. ASSUME NEW j \in 1 .. n - k PROVE tail[j] = bytes[k+j] /\ bytes[k+j] # NL
      <4>1. CASE j = n - k
        BY <1>2, <3>2, <3>4, <4>1
      <4>2. CASE j \in 1 .. (n - 1) - k
        BY <3>1, <3>2, <4>2
      <4> QED  BY <3>3, <4>1, <4>2
    <3> QED  BY <3>1, <3>2, <3>4, <3>5 DEF Rest
  <2>3. k \in 0 .. n
    BY <1>0
  <2> QED  BY <2>1, <2>2, <2>3
<1> QED  BY <1>1, <1>2

\* What is split is what the newlines close, and a rest without one.
LEMMA SplitCloses ==
    ASSUME NEW S, NEW bytes \in Seq(S \cup {NL})
    PROVE  /\ Split(bytes) \in Splits(S)
           /\ \E k \in 0 .. Len(bytes) : /\ Rest(bytes, Len(bytes), k, Split(bytes).tail)
                                         /\ Closed(bytes, k, Split(bytes).lines)
<1> DEFINE N == Len(bytes)
<1>1. PICK h \in [0 .. N -> Splits(S)] :
         /\ h[0] = [lines |-> <<>>, tail |-> <<>>]
         /\ \A n \in 1 .. N : h[n] = NextByte(h[n-1], bytes[n])
         /\ Split(bytes) = h[N]
  BY SplitIs
<1>2. N \in Nat
  OBVIOUS
<1> DEFINE T == {n \in 0 .. N : \E k \in 0 .. n : /\ Rest(bytes, n, k, h[n].tail)
                                                   /\ Closed(bytes, k, h[n].lines)}
<1>3. 0 \in T
  <2>1. Rest(bytes, 0, 0, <<>>) /\ Closed(bytes, 0, <<>>)
    BY DEF Rest, Closed
  <2>2. 0 \in 0 .. N /\ 0 \in 0 .. 0 /\ h[0].tail = <<>> /\ h[0].lines = <<>>
    BY <1>1, <1>2
  <2> QED  BY <2>1, <2>2
<1>4. ASSUME NEW n \in 1 .. N, n - 1 \in T PROVE n \in T
  <2>1. PICK k \in 0 .. n - 1 : /\ Rest(bytes, n - 1, k, h[n-1].tail)
                                /\ Closed(bytes, k, h[n-1].lines)
    BY <1>4
  <2>2. n - 1 \in 0 .. N /\ n \in 0 .. N
    BY <1>2
  <2>3. h[n-1] \in Splits(S) /\ h[n] = NextByte(h[n-1], bytes[n])
    BY <1>1, <2>2
  <2>4. n \in 1 .. Len(bytes)
    OBVIOUS
  <2>5. \E l \in 0 .. n : Rest(bytes, n, l, h[n].tail) /\ Closed(bytes, l, h[n].lines)
    <3> HIDE DEF T, N
    <3> QED  BY <2>1, <2>3, <2>4, NextByteCloses
  <2> QED  BY <2>2, <2>5
<1> HIDE DEF T
<1>5. N \in T
  <2>1. \A n \in 0 .. N : n \in T
    BY <1>2, <1>3, <1>4, SetInduction
  <2> QED  BY <1>2, <2>1
<1>6. h[N] \in Splits(S)
  BY <1>1, <1>2
<1> QED  BY <1>1, <1>5, <1>6 DEF T, N

\* What is fed to a cursor is bytes and lines.
LEMMA FedIs ==
    ASSUME NEW cursor \in Cursors, NEW bytes \in Text
    PROVE  Fed(cursor, bytes) \in Cursors /\ LinesFed(cursor, bytes) \in Seq(Seq(Line))
<1> DEFINE all == cursor.tail \o bytes
<1>1. all \in Text /\ Len(all) \in Nat /\ cursor.offset \in Nat
  <2>1. cursor.tail \in Text
    BY DEF Cursors, Text
  <2> QED  BY <2>1 DEF Cursors, Text
<1> HIDE DEF all
<1>2. Split(all) \in Splits(Line) /\ Len(Split(all).tail) <= Len(all)
  <2>1. PICK k \in 0 .. Len(all) : Rest(all, Len(all), k, Split(all).tail)
    BY <1>1, SplitCloses DEF Text
  <2>2. Len(Split(all).tail) = Len(all) - k
    BY <2>1 DEF Rest
  <2> QED  BY <1>1, <2>2, SplitCloses DEF Text
<1>3. /\ Split(all).lines \in Seq(Seq(Line)) /\ Split(all).tail \in Seq(Line)
      /\ Len(Split(all).tail) \in Nat
  BY <1>2 DEF Splits
<1>4. cursor.offset + Len(all) - Len(Split(all).tail) \in Nat
  BY <1>1, <1>2, <1>3
<1>5. Fed(cursor, bytes) = [offset |-> cursor.offset + Len(all) - Len(Split(all).tail),
                            tail |-> Split(all).tail]
  BY DEF Fed, all
<1>6. LinesFed(cursor, bytes) = Split(all).lines
  BY DEF LinesFed, all
<1> QED  BY <1>3, <1>4, <1>5, <1>6 DEF Cursors

\* What follows a position in a log's bytes, and what comes before one.
LEMMA PartOfText ==
    ASSUME NEW bytes \in Text, NEW n \in Nat
    PROVE  /\ ReadAppended(bytes, n) \in Text
           /\ (n <= Len(bytes) => Upto(bytes, n) \in Text /\ Len(Upto(bytes, n)) = n)
<1>1. \A i \in n + 1 .. Len(bytes) : bytes[i] \in Line \cup {NL}
  BY DEF Text
<1>2. ReadAppended(bytes, n) \in Text
  BY <1>1 DEF ReadAppended, Text
<1>3. ASSUME n <= Len(bytes) PROVE Upto(bytes, n) \in Text /\ Len(Upto(bytes, n)) = n
  <2>1. \A i \in 1 .. n : bytes[i] \in Line \cup {NL}
    BY <1>3 DEF Text
  <2> QED  BY <1>3, <2>1 DEF Upto, Text
<1> QED  BY <1>2, <1>3

----------------------------------------------------------------------------
(***************************************************************************)
(* From lines to events.                                                   *)
(***************************************************************************)
LEMMA LineIs ==
    ASSUME NEW line \in Line
    PROVE  /\ line.kind \in {"meta", "turn", "count", "headless"} /\ line.id \in STRING
           /\ line.at \in Nat /\ line.total \in Nat \cup {None}
           /\ line.last \in Nat \cup {None} /\ line.model \in Model \cup {None}
<1>1. line \in LineType
  BY CodexAssumption DEF CodexAssumption
<1> QED  BY <1>1 DEF LineType

LEMMA SpentType ==
    ASSUME NEW line \in Line, NEW previous \in Nat \cup {None}
    PROVE  Spent(line, previous) \in Nat
<1>1. \A total \in Nat : Minus(total, previous) \in Nat
  BY DEF Minus
<1> QED  BY <1>1, LineIs DEF Spent

\* A parser with the model and the counter it has come to know, and with one more event.
LEMMA ParserIs ==
    ASSUME NEW x \in Parsers, NEW t \in Nat \cup {None}, NEW m \in Model \cup {None}
    PROVE  /\ [x EXCEPT !.previous_totals = t] \in Parsers
           /\ [x EXCEPT !.current_model = m] \in Parsers
           /\ \A e \in Found : [x EXCEPT !.current_model = m,
                                        !.events = Append(@, e)] \in Parsers
<1>1. x.events \in Seq(Found) /\ \A e \in Found : Append(x.events, e) \in Seq(Found)
  BY DEF Parsers
<1> DEFINE S == Seq(Found)
<1> HIDE DEF S
<1>2. [x EXCEPT !.previous_totals = t] \in Parsers /\ [x EXCEPT !.current_model = m] \in Parsers
  BY DEF Parsers
<1>3. ASSUME NEW e \in Found
      PROVE  [x EXCEPT !.current_model = m, !.events = Append(@, e)] \in Parsers
  BY <1>1 DEF Parsers
<1> QED  BY <1>2, <1>3

LEMMA ModelAfterType ==
    ASSUME NEW x \in Parsers, NEW line \in Line
    PROVE  ModelAfter(x, line) \in Model
  BY LineIs, CodexAssumption DEF CodexAssumption, ModelAfter, Parsers

LEMMA VisitType ==
    ASSUME NEW x \in Parsers, NEW line \in Line
    PROVE  VisitEntry(x, line) \in Parsers /\ VisitExec(x, line) \in Parsers
<1> DEFINE spent == Spent(line, x.previous_totals)
           total == IF line.total = None THEN x.previous_totals ELSE line.total
           counted == [x EXCEPT !.previous_totals = total]
           m == ModelAfter(x, line)
<1>1. x.previous_totals \in Nat \cup {None} /\ x.current_model \in Model \cup {None}
  BY DEF Parsers
<1>2. spent \in Nat
  BY <1>1, SpentType
<1>3. m \in Model
  BY ModelAfterType
<1>4. total \in Nat \cup {None}
  BY <1>1, LineIs
<1> HIDE DEF spent, total, m
<1>5. counted \in Parsers
  BY <1>4, ParserIs
<1> HIDE DEF counted
<1>6. VisitEntry(x, line) \in Parsers
  <2>1. CASE line.kind = "turn"
    <3>1. (IF line.model = None THEN x.current_model ELSE line.model) \in Model \cup {None}
      BY <1>1, LineIs
    <3>2. VisitEntry(x, line) =
             [x EXCEPT !.current_model = IF line.model = None THEN x.current_model ELSE line.model]
      BY <2>1 DEF VisitEntry
    <3> QED  BY <3>1, <3>2, ParserIs
  <2>2. CASE line.kind # "turn"
    <3>1. Event(line, m, spent) \in Found
      BY <1>2, <1>3, LineIs DEF Event, Found
    <3>2. VisitEntry(x, line) =
             IF spent = 0 THEN counted
             ELSE [counted EXCEPT !.current_model = m,
                                  !.events = Append(@, Event(line, m, spent))]
      BY <2>2 DEF VisitEntry, spent, counted, total, m
    <3>3. [counted EXCEPT !.current_model = m, !.events = Append(@, Event(line, m, spent))]
             \in Parsers
      BY <1>3, <1>5, <3>1, ParserIs
    <3> QED  BY <1>5, <3>2, <3>3
  <2> QED  BY <2>1, <2>2
<1>7. VisitExec(x, line) \in Parsers
  <2>1. CASE line.last \in {None, 0}
    BY <2>1 DEF VisitExec
  <2>2. CASE line.last \notin {None, 0}
    <3>1. Event(line, m, line.last) \in Found
      BY <1>3, <2>2, LineIs DEF Event, Found
    <3>2. VisitExec(x, line) = [x EXCEPT !.current_model = m,
                                         !.events = Append(@, Event(line, m, line.last))]
      BY <2>2 DEF VisitExec, m
    <3>3. [x EXCEPT !.current_model = m, !.events = Append(@, Event(line, m, line.last))]
             \in Parsers
      BY <1>1, <1>3, <3>1, ParserIs
    <3> QED  BY <3>2, <3>3
  <2> QED  BY <2>1, <2>2
<1> QED  BY <1>6, <1>7

LEMMA BagIs ==
    /\ <<>> \in Bags
    /\ \A bag \in Bags, key \in Nat \X (Nat \cup {None}) : OneMore(bag, key) \in Bags
<1> DEFINE Keys == Nat \X (Nat \cup {None})
<1>1. <<>> \in [{} -> Nat] /\ {} \in SUBSET Keys
  OBVIOUS
<1>2. ASSUME NEW K \in SUBSET Keys, NEW bag \in [K -> Nat], NEW key \in Keys
      PROVE  OneMore(bag, key) \in [K \cup {key} -> Nat] /\ K \cup {key} \in SUBSET Keys
  <2>1. \A k : Count(bag, k) \in Nat
    BY DEF Count
  <2> QED  BY <2>1 DEF OneMore
<1>3. ASSUME NEW bag \in Bags, NEW key \in Keys PROVE OneMore(bag, key) \in Bags
  <2>1. PICK K \in SUBSET Keys : bag \in [K -> Nat]
    BY DEF Bags
  <2>2. OneMore(bag, key) \in [K \cup {key} -> Nat] /\ K \cup {key} \in SUBSET Keys
    BY <1>2, <2>1
  <2> QED  BY <2>2 DEF Bags
<1> QED  BY <1>1, <1>3 DEF Bags

\* The fields of a file's state.
LEMMA FileIs ==
    ASSUME NEW file \in Files
    PROVE  /\ file.cursor \in Cursors /\ file.identity \in Inode
           /\ file.logical_session_id \in STRING \cup {None} /\ file.parser \in Parsers
           /\ file.seen_counters \in SUBSET Checkpoints /\ file.seen_headless \in Bags
           /\ file.replay_headless \in Bags /\ file.replaying \in BOOLEAN
           /\ file = [cursor |-> file.cursor, identity |-> file.identity,
                      logical_session_id |-> file.logical_session_id, parser |-> file.parser,
                      seen_counters |-> file.seen_counters,
                      seen_headless |-> file.seen_headless,
                      replay_headless |-> file.replay_headless, replaying |-> file.replaying]
<1> QED  BY DEF Files

LEMMA FeedMetaType ==
    ASSUME NEW file \in Files, NEW line \in Line
    PROVE  FeedMeta(file, line) \in Files
<1> DEFINE known == [file EXCEPT !.logical_session_id = line.id]
           parser == [file.parser EXCEPT !.previous_totals = None, !.current_model = None]
<1>1. parser \in Parsers
  <2>1. [file.parser EXCEPT !.previous_totals = None] \in Parsers
    BY FileIs, ParserIs
  <2>2. parser = [[file.parser EXCEPT !.previous_totals = None] EXCEPT !.current_model = None]
    BY FileIs DEF Parsers
  <2> QED  BY <2>1, <2>2, ParserIs
<1>2. line.id \in STRING /\ <<>> \in Bags /\ {} \in SUBSET Checkpoints
  BY LineIs, BagIs
<1>3. known \in Files
  <2> QED  BY <1>2 DEF Files
<1>4. FeedMeta(file, line) =
        IF file.logical_session_id \in {None, line.id} THEN known
        ELSE [known EXCEPT !.parser = parser, !.seen_counters = {},
                           !.seen_headless = <<>>, !.replay_headless = <<>>]
  <2>1. known.parser = file.parser
    BY DEF Files
  <2> QED  BY <1>3, <2>1 DEF FeedMeta, Files, Parsers
<1> HIDE DEF known, parser
<1>5. [known EXCEPT !.parser = parser, !.seen_counters = {},
                    !.seen_headless = <<>>, !.replay_headless = <<>>] \in Files
  <2> QED  BY <1>1, <1>2, <1>3 DEF Files
<1> QED  BY <1>3, <1>4, <1>5

LEMMA FeedEntryType ==
    ASSUME NEW file \in Files, NEW line \in Line
    PROVE  FeedEntry(file, line) \in Files
<1> DEFINE again == Replayed(file.parser, line)
           visited == VisitEntry(file.parser, line)
           marks == file.seen_counters \cup {Checkpoint(line)}
<1>1. visited \in Parsers /\ file.parser \in Parsers
  BY FileIs, VisitType
<1>2. again \in Parsers
  <2>1. [file.parser EXCEPT !.previous_totals = None] \in Parsers
    BY <1>1, ParserIs
  <2>2. VisitEntry([file.parser EXCEPT !.previous_totals = None], line) \in Parsers
    BY <2>1, VisitType
  <2>3. VisitEntry([file.parser EXCEPT !.previous_totals = None], line).current_model
           \in Model \cup {None}
    BY <2>2 DEF Parsers
  <2> QED  BY <1>1, <2>3, ParserIs DEF Replayed
<1>3. marks \in SUBSET Checkpoints
  <2>1. Checkpoint(line) \in Checkpoints
    BY LineIs DEF Checkpoint, Checkpoints
  <2> QED  BY <2>1, FileIs
<1>4. FeedEntry(file, line) \in {[file EXCEPT !.parser = again], [file EXCEPT !.parser = visited],
                                 [file EXCEPT !.parser = visited, !.seen_counters = marks]}
  BY DEF FeedEntry
<1> HIDE DEF again, visited, marks
<1> QED  BY <1>1, <1>2, <1>3, <1>4 DEF Files

LEMMA FeedHeadlessType ==
    ASSUME NEW file \in Files, NEW line \in Line
    PROVE  FeedHeadless(file, line) \in Files
<1> DEFINE key == HeadlessKey(line)
           visited == VisitExec(file.parser, line)
           dropped == [visited EXCEPT !.events = file.parser.events]
           met == IF file.replaying THEN OneMore(file.replay_headless, key)
                  ELSE file.replay_headless
           marks == OneMore(file.seen_headless, key)
           read_on == [file EXCEPT !.parser = visited]
<1>1. visited \in Parsers /\ file.parser \in Parsers
  BY FileIs, VisitType
<1>2. dropped \in Parsers
  BY <1>1 DEF Parsers
<1>3. key \in Nat \X (Nat \cup {None})
  BY LineIs DEF HeadlessKey
<1>4. met \in Bags /\ marks \in Bags
  BY <1>3, FileIs, BagIs
<1>5. FeedHeadless(file, line) \in
         {file, [read_on EXCEPT !.parser.events = file.parser.events, !.replay_headless = met],
          [read_on EXCEPT !.seen_headless = marks, !.replay_headless = met]}
  <2>1. read_on.seen_headless = file.seen_headless
    BY FileIs
  <2> QED  BY <2>1 DEF FeedHeadless
<1> HIDE DEF key, visited, met, marks
<1>6. read_on \in Files /\ read_on.parser = visited
  <2> QED  BY <1>1 DEF Files
<1>7. [read_on EXCEPT !.parser.events = file.parser.events, !.replay_headless = met] =
         [read_on EXCEPT !.parser = dropped, !.replay_headless = met]
  BY <1>6
<1> HIDE DEF read_on, dropped
<1>8. /\ [read_on EXCEPT !.parser = dropped, !.replay_headless = met] \in Files
      /\ [read_on EXCEPT !.seen_headless = marks, !.replay_headless = met] \in Files
  <2> QED  BY <1>2, <1>4, <1>6 DEF Files
<1> QED  BY <1>5, <1>7, <1>8

LEMMA FeedLineType ==
    ASSUME NEW file \in Files, NEW bytes \in Seq(Line)
    PROVE  FeedLine(file, bytes) \in Files
<1>1. CASE Len(bytes) # 1
  BY <1>1 DEF FeedLine
<1>2. CASE Len(bytes) = 1
  <2>1. bytes[1] \in Line
    BY <1>2
  <2>2. FeedLine(file, bytes) \in {FeedMeta(file, bytes[1]), FeedHeadless(file, bytes[1]),
                                   FeedEntry(file, bytes[1])}
    BY <1>2 DEF FeedLine
  <2> QED  BY <2>1, <2>2, FeedMetaType, FeedHeadlessType, FeedEntryType
<1> QED  BY <1>1, <1>2

\* Feeding lines, one after another.
LEMMA LinesType ==
    ASSUME NEW file \in Files, NEW lines \in Seq(Seq(Line))
    PROVE  Folded(FeedLine, file, lines) \in Files
<1> DEFINE N == Len(lines)
           Is(h) == h = [n \in 0 .. N |->
                            IF n = 0 THEN file
                            ELSE CHOOSE r \in {FeedLine(before, lines[n]) :
                                                   before \in {h[n-1]}} : TRUE]
           step == [n \in 1 .. N |-> [x \in Files |-> FeedLine(x, lines[n])]]
           upto == CHOOSE h : Is(h)
<1>1. N \in Nat /\ \A n \in 1 .. N : lines[n] \in Seq(Line)
  OBVIOUS
<1>2. Folded(FeedLine, file, lines) = upto[N]
  BY DEF Folded
<1>3. \A n \in 1 .. N : \A x \in Files : step[n][x] = FeedLine(x, lines[n])
  OBVIOUS
<1>4. \A n \in 1 .. N : \A x \in Files : step[n][x] \in Files
  BY <1>1, <1>3, FeedLineType
<1> HIDE DEF step, N
<1>5. PICK g \in [0 .. N -> Files] : g[0] = file /\ \A n \in 1 .. N : g[n] = step[n][g[n-1]]
  <2>1. Recurs(Files, N, file, step)
    BY <1>1, <1>4, Recursion
  <2> QED  BY <2>1 DEF Recurs
<1>6. \A n \in 1 .. N : g[n-1] \in Files /\ g[n] = FeedLine(g[n-1], lines[n])
  <2> SUFFICES ASSUME NEW n \in 1 .. N
               PROVE  g[n-1] \in Files /\ g[n] = FeedLine(g[n-1], lines[n])
    OBVIOUS
  <2>1. n - 1 \in 0 .. N
    BY <1>1
  <2>2. g[n-1] \in Files
    BY <2>1
  <2> QED  BY <1>3, <1>5, <2>2
<1>7. \A l, x : (CHOOSE r \in {FeedLine(before, l) : before \in {x}} : TRUE) = FeedLine(x, l)
  OBVIOUS
<1>8. Is(g)
  <2>1. \A n \in 0 .. N :
           g[n] = IF n = 0 THEN file
                  ELSE CHOOSE r \in {FeedLine(before, lines[n]) : before \in {g[n-1]}} : TRUE
    <3> SUFFICES ASSUME NEW n \in 0 .. N, n # 0
                 PROVE  g[n] = CHOOSE r \in {FeedLine(before, lines[n]) :
                                                 before \in {g[n-1]}} : TRUE
      BY <1>5
    <3>1. n \in 1 .. N
      BY <1>1
    <3>2. g[n] = FeedLine(g[n-1], lines[n])
      BY <1>6, <3>1
    <3> QED  BY <1>7, <3>2
  <2>2. g = [n \in 0 .. N |-> g[n]]
    OBVIOUS
  <2> QED  BY <2>1, <2>2
<1>9. Is(upto)
  BY <1>8
<1>10. upto[0] = file /\ \A n \in 1 .. N : upto[n] = FeedLine(upto[n-1], lines[n])
  <2> HIDE DEF upto
  <2>1. upto[0] = file
    BY <1>1, <1>9
  <2>2. ASSUME NEW n \in 1 .. N PROVE upto[n] = FeedLine(upto[n-1], lines[n])
    <3>1. n \in 0 .. N /\ n # 0
      BY <1>1
    <3>2. upto[n] = CHOOSE r \in {FeedLine(before, lines[n]) : before \in {upto[n-1]}} : TRUE
      BY <1>9, <3>1
    <3> QED  BY <1>7, <3>2
  <2> QED  BY <2>1, <2>2
<1> HIDE DEF upto
<1> DEFINE T == {n \in 0 .. N : upto[n] \in Files}
<1>11. \A n \in 0 .. N : n \in T
  <2>1. 0 \in T
    BY <1>1, <1>10
  <2>2. ASSUME NEW n \in 1 .. N, n - 1 \in T PROVE n \in T
    <3>1. upto[n-1] \in Files /\ lines[n] \in Seq(Line) /\ n \in 0 .. N
      BY <1>1, <2>2
    <3> QED  BY <1>10, <3>1, FeedLineType
  <2> HIDE DEF T
  <2> QED  BY <1>1, <2>1, <2>2, SetInduction
<1>12. N \in T
  <2> HIDE DEF T
  <2> QED  BY <1>1, <1>11
<1> QED  BY <1>2, <1>12

LEMMA FeedFileType ==
    ASSUME NEW file \in Files, NEW bytes \in Text
    PROVE  FeedFile(file, bytes) \in Files
<1> DEFINE fed == Folded(FeedLine, file, LinesFed(file.cursor, bytes))
           moved == [fed EXCEPT !.cursor = Fed(file.cursor, bytes)]
<1>1. fed \in Files /\ Fed(file.cursor, bytes) \in Cursors
  BY FileIs, FedIs, LinesType
<1> HIDE DEF fed
<1>2. moved \in Files
  BY <1>1 DEF Files
<1>3. FeedFile(file, bytes) = EndReplay(moved)
  BY DEF FeedFile, fed
<1> HIDE DEF moved
<1>4. EndReplay(moved) \in {moved, [moved EXCEPT !.replaying = FALSE, !.replay_headless = <<>>]}
  BY DEF EndReplay
<1>5. [moved EXCEPT !.replaying = FALSE, !.replay_headless = <<>>] \in Files
  BY <1>2, BagIs DEF Files
<1> QED  BY <1>2, <1>3, <1>4, <1>5

----------------------------------------------------------------------------
(***************************************************************************)
(* What writes the logs.                                                   *)
(***************************************************************************)
LEMMA BytesType ==
    ASSUME NEW history \in Histories
    PROVE  Bytes[history] \in Text
<1> DEFINE perLine == [i \in DOMAIN history |-> <<history[i], NL>>]
<1>1. history \in Seq(Line)
  <2>1. PICK c \in Careers : history \in ToSet(c)
    BY DEF Histories
  <2>2. c \in Seq(Seq(Line))
    BY CodexAssumption DEF CodexAssumption
  <2> QED  BY <2>1, <2>2, ElementsType
<1>2. perLine \in Seq(Text)
  <2>1. DOMAIN history = 1 .. Len(history) /\ Len(history) \in Nat
    BY <1>1
  <2>2. \A i \in 1 .. Len(history) : perLine[i] \in Text
    BY <1>1, <2>1 DEF Text
  <2>3. perLine = [i \in 1 .. Len(history) |-> perLine[i]]
    BY <2>1
  <2> HIDE DEF perLine
  <2> QED  BY <2>1, <2>2, <2>3, SeqIs
<1>3. FlattenSeq(perLine) \in Text
  <2> HIDE DEF perLine
  <2> QED  BY <1>2, FlattenType DEF Text
<1>4. Bytes[history] = FlattenSeq(perLine)
  BY DEF Bytes
<1> QED  BY <1>3, <1>4

\* A history of a career.
LEMMA HistoryIs ==
    ASSUME NEW c \in Careers, NEW s \in DOMAIN c
    PROVE  c[s] \in Histories /\ s \in Nat
<1>1. c \in Seq(Seq(Line))
  BY CodexAssumption DEF CodexAssumption
<1>2. c[s] \in ToSet(c) /\ s \in Nat
  BY <1>1 DEF ToSet
<1> QED  BY <1>2 DEF Histories

LEMMA ChangeType ==
    ASSUME LogType, NEW f \in File, NEW s \in DOMAIN career[f], NEW ino \in Nat, NEW n \in Nat,
           n <= Len(Bytes[career[f][s]]), Change(f, s, ino, n)
    PROVE  LogType'
<1> DEFINE image == [ino |-> ino, bytes |-> Upto(Bytes[career[f][s]], n)]
<1>1. image \in Image /\ Len(image.bytes) = n
  <2>1. Bytes[career[f][s]] \in Text
    BY HistoryIs, BytesType DEF LogType
  <2> QED  BY <2>1, PartOfText DEF Image
<1>2. disk' = [disk EXCEPT ![f] = image] /\ nth' = [nth EXCEPT ![f] = s]
  BY DEF Change
<1>3. career' = career /\ changes' = changes + 1 /\ clock' = clock
  BY DEF Change
<1>4. s \in Nat
  BY HistoryIs DEF LogType
<1> HIDE DEF image
<1>7. \A g \in File : Held(g)' <= Len(Bytes[career[g][nth'[g]]])
  <2>1. Held(f)' <= Len(Bytes[career[f][nth'[f]]])
    <3>1. nth'[f] = s /\ disk'[f] = image
      BY <1>2 DEF LogType
    <3>2. Held(f)' \in {0, n}
      BY <1>1, <3>1 DEF Held
    <3> QED  BY <3>1, <3>2
  <2>2. ASSUME NEW g \in File, g # f PROVE Held(g)' = Held(g) /\ nth'[g] = nth[g]
    BY <1>2, <2>2 DEF LogType, Held
  <2> QED  BY <2>1, <2>2 DEF LogType
<1>5. nth' \in [File -> Nat] /\ \A g \in File : nth'[g] \in DOMAIN career[g]
  BY <1>2, <1>4 DEF LogType
<1>6. disk' \in [File -> Image \cup {Gone}]
  BY <1>1, <1>2 DEF LogType
<1> QED  BY <1>3, <1>5, <1>6, <1>7 DEF LogType

LEMMA OutsideKeeps ==
    ASSUME LogType, Outside
    PROVE  LogType' /\ UNCHANGED inside
<1>0. /\ changes + 1 \in Nat
      /\ \A f \in Present : disk[f] \in Image /\ disk[f].ino \in Nat /\ Held(f) \in Nat
      /\ \A f \in File : Held(f) \in Nat /\ nth[f] \in DOMAIN career[f] /\ career[f] \in Careers
  <2>1. ASSUME NEW f \in File, disk[f] # Gone
        PROVE  disk[f] \in Image /\ disk[f].ino \in Nat /\ Len(disk[f].bytes) \in Nat
    BY <2>1 DEF LogType, Image, Text
  <2> QED  BY <2>1 DEF LogType, Present, Held
<1>1. \A f, s, ino, n : Change(f, s, ino, n) => UNCHANGED inside
  BY DEF Change
<1>2. \A f \in File : \A s \in DOMAIN career[f] : Len(Bytes[career[f][s]]) \in Nat
  <2> SUFFICES ASSUME NEW f \in File, NEW s \in DOMAIN career[f]
               PROVE  Len(Bytes[career[f][s]]) \in Nat
    OBVIOUS
  <2>1. Bytes[career[f][s]] \in Text
    BY <1>0, HistoryIs, BytesType
  <2> QED  BY <2>1 DEF Text
<1>3. ASSUME NEW f \in File, Write(f) PROVE LogType' /\ UNCHANGED inside
  <2>1. PICK n \in Held(f) + 1 .. Len(Bytes[career[f][nth[f]]]) :
           Change(f, nth[f], disk[f].ino, n)
    BY <1>3 DEF Write
  <2>2. f \in Present /\ n \in Nat /\ n <= Len(Bytes[career[f][nth[f]]])
    BY <1>0, <1>2, <1>3 DEF Write
  <2> QED  BY <1>0, <1>1, <2>1, <2>2, ChangeType
<1>4. ASSUME NEW f \in File, Truncate(f) PROVE LogType' /\ UNCHANGED inside
  <2>1. PICK n \in 0 .. Held(f) - 1 : Change(f, nth[f], disk[f].ino, n)
    BY <1>4 DEF Truncate
  <2>2. f \in Present /\ n \in Nat /\ n <= Len(Bytes[career[f][nth[f]]])
    <3>1. Held(f) <= Len(Bytes[career[f][nth[f]]]) /\ Len(Bytes[career[f][nth[f]]]) \in Nat
      BY <1>0, <1>2 DEF LogType
    <3>2. Held(f) \in Nat
      BY <1>0
    <3> QED  BY <1>4, <3>1, <3>2 DEF Truncate
  <2> QED  BY <1>0, <1>1, <2>1, <2>2, ChangeType
<1>5. ASSUME NEW f \in File, Replace(f) PROVE LogType' /\ UNCHANGED inside
  <2>1. CASE \E n \in 0 .. Len(Bytes[career[f][nth[f]]]) : Change(f, nth[f], changes + 1, n)
    <3>1. PICK n \in 0 .. Len(Bytes[career[f][nth[f]]]) : Change(f, nth[f], changes + 1, n)
      BY <2>1
    <3>2. n \in Nat /\ n <= Len(Bytes[career[f][nth[f]]])
      BY <1>0, <1>2
    <3> QED  BY <1>0, <1>1, <3>1, <3>2, ChangeType
  <2>2. CASE /\ nth[f] < Len(career[f])
             /\ \E n \in 1 .. Len(Bytes[career[f][nth[f] + 1]]) :
                   Change(f, nth[f] + 1, changes + 1, n)
    <3>1. PICK n \in 1 .. Len(Bytes[career[f][nth[f] + 1]]) :
             Change(f, nth[f] + 1, changes + 1, n)
      BY <2>2
    <3>2. nth[f] + 1 \in DOMAIN career[f]
      <4>1. career[f] \in Seq(Seq(Line))
        BY <1>0, CodexAssumption DEF CodexAssumption
      <4>2. DOMAIN career[f] = 1 .. Len(career[f]) /\ Len(career[f]) \in Nat
        BY <4>1
      <4> QED  BY <1>0, <2>2, <4>2
    <3>3. n \in Nat /\ n <= Len(Bytes[career[f][nth[f] + 1]])
      BY <1>0, <1>2, <3>2
    <3> QED  BY <1>0, <1>1, <3>1, <3>2, <3>3, ChangeType
  <2> QED  BY <1>5, <2>1, <2>2 DEF Replace
<1>6. ASSUME NEW f \in File, Delete(f) PROVE LogType' /\ UNCHANGED inside
  <2>1. /\ disk' = [disk EXCEPT ![f] = Gone] /\ changes' = changes + 1
        /\ UNCHANGED <<career, nth, clock, inside>>
    BY <1>6 DEF Delete
  <2>2. disk' \in [File -> Image \cup {Gone}]
    BY <2>1 DEF LogType
  <2>3. ASSUME NEW g \in File PROVE Held(g)' <= Len(Bytes[career[g][nth[g]]])
    <3>1. CASE g = f
      <4>1. Held(g)' = 0
        BY <2>1, <3>1 DEF LogType, Held
      <4> QED  BY <1>0, <1>2, <4>1
    <3>2. CASE g # f
      <4>1. Held(g)' = Held(g)
        BY <2>1, <3>2 DEF LogType, Held
      <4> QED  BY <4>1 DEF LogType
    <3> QED  BY <3>1, <3>2
  <2>4. career' = career /\ nth' = nth
    BY <2>1
  <2>5. \A g \in File : Held(g)' <= Len(Bytes[career'[g][nth'[g]]])
    BY <2>3, <2>4
  <2> QED  BY <1>0, <2>1, <2>2, <2>5 DEF LogType
<1>7. CASE Midnight
  <2>1. clock' \in Days /\ UNCHANGED <<career, nth, disk, changes, inside>>
    BY <1>7 DEF Midnight
  <2>2. \A g \in File : Held(g)' = Held(g)
    BY <2>1 DEF Held
  <2> QED  BY <2>1, <2>2 DEF LogType
<1> QED  BY <1>3, <1>4, <1>5, <1>6, <1>7 DEF Outside

----------------------------------------------------------------------------
(***************************************************************************)
(* The view.                                                               *)
(***************************************************************************)
LEMMA NothingReadType == NothingRead \in Reads
  BY DEF NothingRead, Reads, Inode, Text

\* What a feed accepts is added to the total it belongs to.
LEMMA FeedBytesKeeps ==
    ASSUME CodexInv, NEW f \in File, NEW file \in Files, NEW bytes \in Text,
           FeedBytes(f, file, bytes)
    PROVE  /\ cursors' \in [File -> Files \cup {Gone}] /\ accepted' \in Seq(Streamed)
           /\ book' \in [today: Days, total: Nat] /\ TotalMatchesStream'
<1> DEFINE fed == FeedFile(file, bytes)
           new == Accepted(f, fed.parser.events)
           emptied == [fed EXCEPT !.parser.events = <<>>]
<1>1. /\ cursors' = [cursors EXCEPT ![f] = emptied]
      /\ accepted' = accepted \o new
      /\ book' = [book EXCEPT !.total = @ + Total(new, book.today)]
  BY DEF FeedBytes
<1>2. fed \in Files
  BY FeedFileType
<1>3. new \in Seq(Streamed)
  <2>1. fed.parser.events \in Seq(Found)
    BY <1>2, FileIs DEF Parsers
  <2> DEFINE es == fed.parser.events
  <2> HIDE DEF es, fed
  <2>2. es \in Seq(Found)
    BY <2>1 DEF es
  <2>3. DOMAIN es = 1 .. Len(es) /\ Len(es) \in Nat /\ \A i \in 1 .. Len(es) : es[i] \in Found
    BY <2>2
  <2>4. \A i \in 1 .. Len(es) : [file |-> f, event |-> es[i]] \in Streamed
    BY <2>3 DEF Streamed
  <2> QED  BY <2>3, <2>4 DEF Accepted, es
<1>4. emptied \in Files
  <2> DEFINE parser == [fed.parser EXCEPT !.events = <<>>]
  <2>1. parser \in Parsers
    <3>1. fed.parser \in Parsers
      BY <1>2, FileIs
    <3>2. ASSUME NEW x \in Parsers PROVE [x EXCEPT !.events = <<>>] \in Parsers
      <4>1. [x EXCEPT !.events = <<>>] =
               [previous_totals |-> x.previous_totals, current_model |-> x.current_model,
                events |-> <<>>]
        BY DEF Parsers
      <4>2. <<>> \in Seq(Found)
        OBVIOUS
      <4> QED  BY <4>1, <4>2 DEF Parsers
    <3> HIDE DEF fed
    <3> QED  BY <3>1, <3>2
  <2>2. emptied = [fed EXCEPT !.parser = parser]
    BY <1>2, FileIs
  <2> HIDE DEF parser, fed
  <2> QED  BY <1>2, <2>1, <2>2 DEF Files
<1> HIDE DEF emptied, new, fed
<1>5. /\ accepted \in Seq(Streamed) /\ book \in [today: Days, total: Nat]
      /\ book.today \in Days /\ book.total = Total(accepted, book.today)
  BY DEF CodexInv, ViewType, TotalMatchesStream
<1>6. /\ accepted' \in Seq(Streamed) /\ Total(new, book.today) \in Nat
      /\ Total(accepted', book.today) = Total(accepted, book.today) + Total(new, book.today)
  BY <1>1, <1>3, <1>5, TotalOfBoth
<1>7. /\ book'.today = book.today /\ book'.total = book.total + Total(new, book.today)
      /\ book' \in [today: Days, total: Nat]
  <2> DEFINE more == Total(new, book.today)
  <2>1. more \in Nat /\ book' = [book EXCEPT !.total = @ + more]
    BY <1>1, <1>6
  <2> HIDE DEF more
  <2>2. book' = [today |-> book.today, total |-> book.total + more]
    BY <1>5, <2>1
  <2>3. book.total + more \in Nat
    BY <1>5, <2>1
  <2> QED  BY <1>5, <2>2, <2>3 DEF more
<1>8. cursors' \in [File -> Files \cup {Gone}]
  BY <1>1, <1>4 DEF CodexInv, ViewType
<1>9. TotalMatchesStream'
  BY <1>5, <1>6, <1>7 DEF TotalMatchesStream
<1> QED  BY <1>6, <1>7, <1>8, <1>9

LEMMA StartPollKeeps == CodexInv /\ StartPoll => CodexInv'
<1> SUFFICES ASSUME CodexInv, StartPoll PROVE CodexInv'
  OBVIOUS
<1>1. /\ todo' = Present /\ pc' = "next" /\ UNCHANGED <<outside, cursors, accepted, read>>
      /\ book' = IF book.today = clock THEN book
                 ELSE [today |-> clock, total |-> Total(accepted, clock)]
  BY DEF StartPoll, RefreshToday
<1>2. LogType'
  BY <1>1 DEF outside, CodexInv, LogType, Held
<1>3. /\ book \in [today: Days, total: Nat] /\ accepted \in Seq(Streamed) /\ clock \in Days
      /\ book.total = Total(accepted, book.today)
  BY DEF CodexInv, LogType, ViewType, TotalMatchesStream
<1>4. Total(accepted, clock) \in Nat
  BY <1>3, TotalOfBoth
<1>5. book' \in [today: Days, total: Nat] /\ book'.total = Total(accepted, book'.today)
  BY <1>1, <1>3, <1>4
<1>6. TotalMatchesStream'
  BY <1>1, <1>5 DEF TotalMatchesStream
<1>7. ViewType'
  BY <1>1, <1>5 DEF CodexInv, ViewType, Present
<1> QED  BY <1>2, <1>6, <1>7 DEF CodexInv

LEMMA StatFileKeeps == CodexInv /\ StatFile => CodexInv'
<1> SUFFICES ASSUME CodexInv, StatFile PROVE CodexInv'
  OBVIOUS
<1>1. PICK f \in todo :
         /\ todo' = todo \ {f}
         /\ IF disk[f] = Gone THEN UNCHANGED <<pc, read>>
            ELSE /\ pc' = IF cursors[f] = Gone THEN "new" ELSE "known"
                 /\ read' = [NothingRead EXCEPT !.file = f, !.size = Held(f),
                                                !.ino = disk[f].ino]
  BY DEF StatFile
<1>2. pc = "next" /\ UNCHANGED <<outside, cursors, accepted, book>>
  BY DEF StatFile
<1>3. LogType' /\ TotalMatchesStream'
  BY <1>2 DEF outside, CodexInv, LogType, Held, TotalMatchesStream
<1>4. f \in File /\ todo' \subseteq File
  BY <1>1 DEF CodexInv, ViewType
<1>5. CASE disk[f] = Gone
  BY <1>1, <1>2, <1>3, <1>4, <1>5 DEF CodexInv, ViewType
<1>6. CASE disk[f] # Gone
  <2>1. disk[f].ino \in Nat /\ Held(f) \in Nat
    BY <1>4, <1>6 DEF CodexInv, LogType, Image, Text, Held
  <2>2. read' \in Reads /\ read'.file = f
    BY <1>1, <1>4, <1>6, <2>1, NothingReadType DEF Reads, Inode
  <2>3. pc' \in {"new", "known"} /\ (pc' = "known" => cursors[f] # Gone)
    BY <1>1, <1>6
  <2> QED  BY <1>2, <1>3, <1>4, <2>2, <2>3 DEF CodexInv, ViewType
<1> QED  BY <1>5, <1>6

LEMMA ReadNewKeeps == CodexInv /\ ReadNew => CodexInv'
<1> SUFFICES ASSUME CodexInv, ReadNew PROVE CodexInv'
  OBVIOUS
<1>1. pc = "new" /\ UNCHANGED <<outside, cursors, accepted, book, todo>> /\ read.file \in File
  BY DEF ReadNew, CodexInv, ViewType
<1>2. LogType' /\ TotalMatchesStream'
  BY <1>1 DEF outside, CodexInv, LogType, Held, TotalMatchesStream
<1>3. CASE disk[read.file] = Gone
  <2>1. pc' = "next" /\ read' \in Reads
    BY <1>3, NothingReadType DEF ReadNew, Passed
  <2> QED  BY <1>1, <1>2, <2>1 DEF CodexInv, ViewType
<1>4. CASE disk[read.file] # Gone
  <2>1. pc' = "feed" /\ read' = [read EXCEPT !.bytes = disk[read.file].bytes]
    BY <1>4 DEF ReadNew
  <2>2. disk[read.file].bytes \in Text
    BY <1>1, <1>4 DEF CodexInv, LogType, Image
  <2>3. read' \in Reads /\ read'.file = read.file
    BY <2>1, <2>2 DEF CodexInv, ViewType, Reads
  <2> QED  BY <1>1, <1>2, <2>1, <2>3 DEF CodexInv, ViewType
<1> QED  BY <1>3, <1>4

LEMMA NewStateType == ASSUME LogType, NEW f \in File PROVE NewState(f) \in Files
<1>1. Fresh \in Cursors
  BY DEF Fresh, Cursors
<1>2. Parser \in Parsers
  BY DEF Parser, Parsers
<1>3. (IF disk[f] = Gone THEN None ELSE disk[f].ino) \in Inode
  BY DEF LogType, Image, Inode
<1>4. {} \in SUBSET Checkpoints
  OBVIOUS
<1> QED  BY <1>1, <1>2, <1>3, <1>4, BagIs DEF NewState, Files

LEMMA FeedNewKeeps == CodexInv /\ FeedNew => CodexInv'
<1> SUFFICES ASSUME CodexInv, FeedNew PROVE CodexInv'
  OBVIOUS
<1>1. /\ FeedBytes(read.file, NewState(read.file), read.bytes)
      /\ pc' = "next" /\ read' = NothingRead /\ UNCHANGED <<outside, todo>>
  BY DEF FeedNew, Passed
<1>2. read.file \in File /\ read.bytes \in Text /\ LogType
  BY DEF FeedNew, CodexInv, ViewType, Reads
<1>3. /\ cursors' \in [File -> Files \cup {Gone}] /\ accepted' \in Seq(Streamed)
      /\ book' \in [today: Days, total: Nat] /\ TotalMatchesStream'
  BY <1>1, <1>2, NewStateType, FeedBytesKeeps
<1>4. LogType'
  BY <1>1 DEF outside, CodexInv, LogType, Held
<1> QED  BY <1>1, <1>3, <1>4, NothingReadType DEF CodexInv, ViewType

LEMMA ReadKnownKeeps == CodexInv /\ ReadKnown => CodexInv'
<1> SUFFICES ASSUME CodexInv, ReadKnown PROVE CodexInv'
  OBVIOUS
<1> DEFINE f == read.file
           file == cursors[f]
           position == Position(file.cursor)
<1>1. pc' = "next" /\ read' = NothingRead /\ UNCHANGED <<outside, todo>>
  BY DEF ReadKnown, Passed
<1>2. f \in File /\ file \in Files /\ read.ino \in Inode
  BY DEF ReadKnown, CodexInv, ViewType, Reads
<1>3. LogType'
  BY <1>1 DEF outside, CodexInv, LogType, Held
<1>4. ASSUME UNCHANGED <<cursors, accepted, book>> PROVE CodexInv'
  BY <1>1, <1>3, <1>4, NothingReadType DEF CodexInv, ViewType, TotalMatchesStream
<1>5. ASSUME NEW g \in Files, NEW bytes \in Text, FeedBytes(f, g, bytes) PROVE CodexInv'
  <2>1. /\ cursors' \in [File -> Files \cup {Gone}] /\ accepted' \in Seq(Streamed)
        /\ book' \in [today: Days, total: Nat] /\ TotalMatchesStream'
    BY <1>2, <1>5, FeedBytesKeeps
  <2> QED  BY <1>1, <1>3, <2>1, NothingReadType DEF CodexInv, ViewType
<1>6. CASE disk[f] = Gone
  BY <1>4, <1>6 DEF ReadKnown
<1>7. CASE disk[f] # Gone
  <2>1. disk[f].bytes \in Text
    BY <1>2, <1>7 DEF CodexInv, LogType, Image
  <2>2. Rewound(file) \in Files
    <3>1. Fresh \in Cursors
      BY DEF Fresh, Cursors
    <3> HIDE DEF file
    <3> QED  BY <1>2, <3>1, BagIs DEF Rewound, Files
  <2>3. position \in Nat
    <3>1. file.cursor \in Cursors
      BY <1>2, FileIs
    <3> HIDE DEF file
    <3> QED  BY <3>1 DEF Position, Cursors
  <2>4. ReadAppended(disk[f].bytes, position) \in Text
    BY <2>1, <2>3, PartOfText
  <2>5. \/ FeedBytes(f, Rewound(file), disk[f].bytes)
        \/ FeedBytes(f, file, ReadAppended(disk[f].bytes, position))
        \/ UNCHANGED <<cursors, accepted, book>>
    BY <1>7 DEF ReadKnown
  <2> HIDE DEF f, file, position
  <2> QED  BY <1>2, <1>4, <1>5, <2>1, <2>2, <2>4, <2>5
<1> QED  BY <1>6, <1>7

LEMMA CodexStep == CodexInv /\ [Next]_vars => CodexInv'
<1> SUFFICES ASSUME CodexInv, [Next]_vars PROVE CodexInv'
  OBVIOUS
<1>1. CASE Outside
  <2>1. LogType' /\ UNCHANGED inside
    BY <1>1, OutsideKeeps DEF CodexInv
  <2> QED  BY <2>1 DEF inside, CodexInv, ViewType, TotalMatchesStream
<1>2. CASE EndPoll
  <2>1. pc' = "asleep" /\ UNCHANGED <<outside, cursors, accepted, book, todo, read>>
    BY <1>2 DEF EndPoll
  <2> QED  BY <2>1 DEF outside, CodexInv, LogType, Held, ViewType, TotalMatchesStream
<1>3. CASE UNCHANGED vars
  BY <1>3 DEF vars, outside, inside, CodexInv, LogType, Held, ViewType, TotalMatchesStream
<1> QED  BY <1>1, <1>2, <1>3, StartPollKeeps, StatFileKeeps, ReadNewKeeps, FeedNewKeeps,
            ReadKnownKeeps DEF Next, View

LEMMA CodexInit == Init => CodexInv
<1> SUFFICES ASSUME Init PROVE CodexInv
  OBVIOUS
<1>1. clock \in Days /\ changes = 0
  BY DEF Init
<1>2. career \in [File -> Careers] /\ nth = [f \in File |-> 1]
  BY DEF Init
<1>3. \A f \in File : nth[f] \in DOMAIN career[f]
  <2> SUFFICES ASSUME NEW f \in File PROVE 1 \in DOMAIN career[f]
    BY <1>2
  <2>1. career[f] \in Seq(Seq(Line)) /\ career[f] # <<>>
    BY <1>2, CodexAssumption DEF CodexAssumption
  <2> QED  BY <2>1
<1>4. disk \in [File -> Image \cup {Gone}] /\ \A f \in File : Held(f) = 0
  <2>1. disk \in [File -> {Gone} \cup {[ino |-> 0, bytes |-> <<>>]}]
    BY DEF Init
  <2>2. [ino |-> 0, bytes |-> <<>>] \in Image
    BY DEF Image, Text
  <2>3. \A f \in File : Held(f) = 0
    BY <2>1 DEF Held
  <2> QED  BY <2>1, <2>2, <2>3
<1>5. \A f \in File : Held(f) <= Len(Bytes[career[f][nth[f]]])
  <2> SUFFICES ASSUME NEW f \in File PROVE Len(Bytes[career[f][nth[f]]]) \in Nat
    BY <1>4
  <2>1. Bytes[career[f][nth[f]]] \in Text
    BY <1>2, <1>3, HistoryIs, BytesType
  <2> QED  BY <2>1 DEF Text
<1>6. LogType
  BY <1>1, <1>2, <1>3, <1>4, <1>5 DEF LogType
<1>7. ViewType
  BY <1>1, NothingReadType DEF Init, Present, ViewType
<1>8. TotalMatchesStream
  BY <1>1, TotalOfNone DEF Init, TotalMatchesStream
<1> QED  BY <1>6, <1>7, <1>8 DEF CodexInv

LEMMA CodexInvariance == Spec => []CodexInv
  BY CodexInit, CodexStep, PTL DEF Spec

\* The total on display is the sum of the events streamed of its day: neither a feed from the
\* start of a rewound log nor the change of the day by the clock lets them part.
THEOREM TotalOfStream == Spec => []TotalMatchesStream
<1>1. CodexInv => TotalMatchesStream
  BY DEF CodexInv
<1> QED  BY <1>1, CodexInvariance, PTL

----------------------------------------------------------------------------
(***************************************************************************)
(* The Grok live view: the turns of a session, by time.                    *)
(***************************************************************************)
\* By time.
Timed(q) == \A i, j \in DOMAIN q : i <= j => q[i].at <= q[j].at

\* How many are no later than some time.
LastBy(q, at) == Cardinality({i \in DOMAIN q : q[i].at <= at})

\* The elements until some time are the first ones.
LEMMA LastByIs ==
    ASSUME NEW S, \A l \in S : l.at \in Nat, NEW q \in Seq(S), Timed(q), NEW at \in Nat
    PROVE  /\ LastBy(q, at) \in 0 .. Len(q)
           /\ \A i \in DOMAIN q : q[i].at <= at <=> i <= LastBy(q, at)
<1> DEFINE D == {i \in DOMAIN q : q[i].at <= at}
           N == Len(q)
           Beyond == {i \in 1 .. N + 1 : i \notin D}
<1>1. N \in Nat /\ DOMAIN q = 1 .. N /\ \A i \in 1 .. N : q[i] \in S /\ q[i].at \in Nat
  OBVIOUS
<1>2. N + 1 \in Beyond /\ Beyond \in SUBSET Nat
  BY <1>1
<1> HIDE DEF Beyond
<1>3. PICK b \in Beyond : \A i \in Beyond : b <= i
  BY <1>2, NatMin
<1> USE DEF Beyond
<1>4. b \in 1 .. N + 1 /\ b \notin D
  BY <1>3
<1>5. \A i \in 1 .. b - 1 : i \in D
  <2> SUFFICES ASSUME NEW i \in 1 .. b - 1, i \notin D PROVE FALSE
    OBVIOUS
  <2>1. i \in 1 .. N + 1
    BY <1>1, <1>4
  <2>2. i \in Beyond
    BY <2>1
  <2>3. b <= i
    BY <1>3, <2>2
  <2> QED  BY <1>1, <1>4, <2>3
<1>6. \A i \in D : i \in 1 .. b - 1
  <2> SUFFICES ASSUME NEW i \in D, b <= i PROVE FALSE
    BY <1>1, <1>4
  <2>1. i \in 1 .. N /\ b \in 1 .. N /\ q[i].at <= at
    BY <1>1, <1>4
  <2>2. q[b].at <= q[i].at
    BY <1>1, <2>1 DEF Timed
  <2>3. q[b].at <= at
    BY <1>1, <2>1, <2>2
  <2> QED  BY <1>1, <1>4, <2>1, <2>3
<1>7. D = 1 .. b - 1
  BY <1>5, <1>6
<1>8. b - 1 \in Int /\ (1 > b - 1 => b - 1 = 0) /\ (b - 1) - 1 + 1 = b - 1
  BY <1>1, <1>4
<1>9. Cardinality(1 .. b - 1) = b - 1
  BY <1>8, FS_Interval
<1>10. LastBy(q, at) = b - 1
  BY <1>7, <1>9 DEF LastBy
<1>11. b - 1 \in 0 .. N
  BY <1>1, <1>4
<1>12. ASSUME NEW i \in 1 .. N PROVE q[i].at <= at <=> i <= b - 1
  BY <1>1, <1>4, <1>7
<1> QED  BY <1>1, <1>10, <1>11, <1>12

\* Recording a turn adds it and keeps the order.
LEMMA RecordKeeps ==
    ASSUME NEW S, \A l \in S : l.at \in Nat, NEW q \in Seq(S), Timed(q), NEW turn \in S
    PROVE  /\ RecordModelEvent(q, turn) \in Seq(S) /\ Timed(RecordModelEvent(q, turn))
           /\ ToSet(RecordModelEvent(q, turn)) = ToSet(q) \cup {turn}
<1>1. CASE turn \in ToSet(q)
  BY <1>1 DEF RecordModelEvent
<1>2. CASE turn \notin ToSet(q)
  <2> DEFINE n == LastBy(q, turn.at)
             a == SubSeq(q, 1, n)
             b == SubSeq(q, n + 1, Len(q))
             r == a \o <<turn>> \o b
  <2>1. /\ Len(q) \in Nat /\ DOMAIN q = 1 .. Len(q) /\ turn.at \in Nat
        /\ \A i \in 1 .. Len(q) : q[i] \in S /\ q[i].at \in Nat
    OBVIOUS
  <2>2. n \in 0 .. Len(q) /\ \A i \in DOMAIN q : q[i].at <= turn.at <=> i <= n
    BY <2>1, LastByIs
  <2>3. RecordModelEvent(q, turn) = r
    <3>1. (n + 1) - 1 = n
      BY <2>2
    <3>2. RecordModelEvent(q, turn) = InsertAt(q, n + 1, turn)
      BY <1>2 DEF RecordModelEvent, LastBy
    <3> QED  BY <3>1, <3>2 DEF InsertAt
  <2> HIDE DEF n
  <2>4. a \in Seq(S) /\ Len(a) = n /\ \A i \in 1 .. n : a[i] = q[i]
    BY <2>1, <2>2
  <2>5. b \in Seq(S) /\ Len(b) = Len(q) - n /\ \A i \in 1 .. Len(q) - n : b[i] = q[n + i]
    <3>1. Len(q) \in n .. Len(q) /\ n \in Nat
      BY <2>1, <2>2
    <3> QED  BY <3>1, PartIs
  <2> HIDE DEF a, b
  <2>6. /\ r \in Seq(S) /\ Len(r) = Len(q) + 1 /\ r[n + 1] = turn
        /\ \A i \in 1 .. n : r[i] = a[i]
        /\ \A i \in 1 .. Len(q) - n : r[n + 1 + i] = b[i]
    BY <2>1, <2>2, <2>4, <2>5
  <2> HIDE DEF r
  <2>7. \A i \in n + 1 .. Len(q) : r[i + 1] = q[i]
    <3> SUFFICES ASSUME NEW i \in n + 1 .. Len(q) PROVE r[i + 1] = q[i]
      OBVIOUS
    <3> DEFINE j == i - n
    <3>1. j \in 1 .. Len(q) - n /\ n + 1 + j = i + 1 /\ n + j = i
      BY <2>1, <2>2
    <3> HIDE DEF j
    <3> QED  BY <2>5, <2>6, <3>1
  <2>8. \A i \in 1 .. n : r[i] = q[i]
    BY <2>4, <2>6
  <2>9. DOMAIN r = 1 .. Len(q) + 1
    BY <2>1, <2>6
  <2>10. \A i \in 1 .. Len(q) + 1 : i \in 1 .. n \/ i = n + 1 \/ i - 1 \in n + 1 .. Len(q)
    BY <2>1, <2>2
  <2>11. \A i \in DOMAIN r : i > n + 1 => i - 1 \in n + 1 .. Len(q) /\ r[i] = q[i - 1]
    <3> SUFFICES ASSUME NEW i \in DOMAIN r, i > n + 1
                 PROVE  i - 1 \in n + 1 .. Len(q) /\ r[i] = q[i - 1]
      OBVIOUS
    <3>1. i - 1 \in n + 1 .. Len(q) /\ (i - 1) + 1 = i
      BY <2>1, <2>2, <2>9
    <3> QED  BY <2>7, <3>1
  <2>12. ToSet(r) = ToSet(q) \cup {turn}
    <3>1. ASSUME NEW i \in DOMAIN r PROVE r[i] \in ToSet(q) \cup {turn}
      <4>1. CASE i \in 1 .. n
        BY <2>1, <2>2, <2>8, <4>1 DEF ToSet
      <4>2. CASE i = n + 1
        BY <2>6, <4>2
      <4>3. CASE i > n + 1
        <5>1. r[i] = q[i - 1] /\ i - 1 \in DOMAIN q
          BY <2>1, <2>2, <2>11, <4>3
        <5> QED  BY <5>1 DEF ToSet
      <4> QED  BY <2>2, <2>9, <4>1, <4>2, <4>3
    <3>2. ASSUME NEW i \in DOMAIN q PROVE q[i] \in ToSet(r)
      <4>1. CASE i <= n
        <5>1. i \in 1 .. n /\ i \in DOMAIN r
          BY <2>1, <2>2, <2>9, <4>1
        <5> QED  BY <2>8, <5>1 DEF ToSet
      <4>2. CASE i > n
        <5>1. i \in n + 1 .. Len(q) /\ i + 1 \in DOMAIN r
          BY <2>1, <2>2, <2>9, <4>2
        <5> QED  BY <2>7, <5>1 DEF ToSet
      <4> QED  BY <2>1, <2>2, <4>1, <4>2
    <3>3. turn \in ToSet(r)
      <4>1. n + 1 \in DOMAIN r
        BY <2>1, <2>2, <2>9
      <4> QED  BY <2>6, <4>1 DEF ToSet
    <3> QED  BY <3>1, <3>2, <3>3 DEF ToSet
  <2>13. Timed(r)
    <3> SUFFICES ASSUME NEW i \in DOMAIN r, NEW j \in DOMAIN r, i <= j PROVE r[i].at <= r[j].at
      BY DEF Timed
    <3>1. CASE j <= n
      <4>1. i \in 1 .. n /\ j \in 1 .. n /\ i \in DOMAIN q /\ j \in DOMAIN q
        BY <2>1, <2>2, <2>9, <3>1
      <4> QED  BY <2>8, <4>1 DEF Timed
    <3>2. CASE i <= n /\ j = n + 1
      <4>1. i \in 1 .. n /\ i \in DOMAIN q
        BY <2>1, <2>2, <2>9, <3>2
      <4> QED  BY <2>2, <2>6, <2>8, <3>2, <4>1
    <3>3. CASE i <= n /\ j > n + 1
      <4>1. i \in 1 .. n /\ i \in DOMAIN q
        BY <2>1, <2>2, <2>9, <3>3
      <4>2. j - 1 \in DOMAIN q /\ r[j] = q[j - 1]
        BY <2>1, <2>2, <2>11, <3>3
      <4>3. i <= j - 1
        BY <2>1, <2>2, <2>9, <3>3
      <4>4. q[i].at <= q[j - 1].at
        BY <4>1, <4>2, <4>3 DEF Timed
      <4> QED  BY <2>8, <4>1, <4>2, <4>4
    <3>4. CASE i = n + 1 /\ j = n + 1
      BY <2>1, <2>6, <3>4
    <3>5. CASE i = n + 1 /\ j > n + 1
      <4>1. j - 1 \in DOMAIN q /\ r[j] = q[j - 1] /\ ~(j - 1 <= n)
        BY <2>1, <2>2, <2>11, <3>5
      <4>2. ~(q[j - 1].at <= turn.at)
        BY <2>2, <4>1
      <4> QED  BY <2>1, <2>6, <3>5, <4>1, <4>2
    <3>6. CASE i > n + 1
      <4>1. /\ i - 1 \in DOMAIN q /\ r[i] = q[i - 1]
            /\ j - 1 \in DOMAIN q /\ r[j] = q[j - 1] /\ i - 1 <= j - 1
        BY <2>1, <2>2, <2>9, <2>11, <3>6
      <4> QED  BY <4>1 DEF Timed
    <3> QED  BY <2>2, <2>9, <3>1, <3>2, <3>3, <3>4, <3>5, <3>6
  <2> QED  BY <2>3, <2>6, <2>12, <2>13
<1> QED  BY <1>1, <1>2

\* Turns are recorded one after another.
LEMMA RecordedIs ==
    ASSUME NEW S, \A l \in S : l.at \in Nat, NEW q \in Seq(S), Timed(q), NEW turns \in Seq(S)
    PROVE  /\ Folded(RecordModelEvent, q, turns) \in Seq(S)
           /\ Timed(Folded(RecordModelEvent, q, turns))
           /\ ToSet(Folded(RecordModelEvent, q, turns)) = ToSet(q) \cup ToSet(turns)
<1> DEFINE N == Len(turns)
           Q == {t \in Seq(S) : Timed(t)}
           Is(h) == h = [n \in 0 .. N |->
                            IF n = 0 THEN q
                            ELSE CHOOSE r \in {RecordModelEvent(before, turns[n]) :
                                                   before \in {h[n-1]}} : TRUE]
           step == [n \in 1 .. N |-> [x \in Q |-> RecordModelEvent(x, turns[n])]]
           upto == CHOOSE h : Is(h)
<1>1. N \in Nat /\ \A n \in 1 .. N : turns[n] \in S
  OBVIOUS
<1>2. Folded(RecordModelEvent, q, turns) = upto[N]
  BY DEF Folded
<1>3. \A n \in 1 .. N : \A x \in Q : step[n][x] = RecordModelEvent(x, turns[n])
  OBVIOUS
<1>4. \A n \in 1 .. N : \A x \in Q : RecordModelEvent(x, turns[n]) \in Q
  <2> SUFFICES ASSUME NEW n \in 1 .. N, NEW x \in Q PROVE RecordModelEvent(x, turns[n]) \in Q
    OBVIOUS
  <2>1. x \in Seq(S) /\ Timed(x) /\ turns[n] \in S
    BY <1>1
  <2>2. /\ RecordModelEvent(x, turns[n]) \in Seq(S)
        /\ Timed(RecordModelEvent(x, turns[n]))
    BY <2>1, RecordKeeps
  <2> QED  BY <2>2
<1> HIDE DEF step, N
<1>5. PICK g \in [0 .. N -> Q] : g[0] = q /\ \A n \in 1 .. N : g[n] = step[n][g[n-1]]
  <2>1. \A n \in 1 .. N : \A x \in Q : step[n][x] \in Q
    BY <1>3, <1>4
  <2>2. q \in Q
    OBVIOUS
  <2> HIDE DEF Q
  <2>3. Recurs(Q, N, q, step)
    BY <1>1, <2>1, <2>2, Recursion
  <2> QED  BY <2>3 DEF Recurs
<1> HIDE DEF Q
<1>6. \A n \in 1 .. N : g[n-1] \in Q /\ g[n] = RecordModelEvent(g[n-1], turns[n])
  <2> SUFFICES ASSUME NEW n \in 1 .. N
               PROVE  g[n-1] \in Q /\ g[n] = RecordModelEvent(g[n-1], turns[n])
    OBVIOUS
  <2>1. n - 1 \in 0 .. N
    BY <1>1
  <2>2. g[n-1] \in Q
    BY <2>1
  <2> QED  BY <1>3, <1>5, <2>2
<1>7. \A t, x : (CHOOSE r \in {RecordModelEvent(before, t) : before \in {x}} : TRUE)
                    = RecordModelEvent(x, t)
  OBVIOUS
<1>8. Is(g)
  <2>1. \A n \in 0 .. N :
           g[n] = IF n = 0 THEN q
                  ELSE CHOOSE r \in {RecordModelEvent(before, turns[n]) :
                                         before \in {g[n-1]}} : TRUE
    <3> SUFFICES ASSUME NEW n \in 0 .. N, n # 0
                 PROVE  g[n] = CHOOSE r \in {RecordModelEvent(before, turns[n]) :
                                                 before \in {g[n-1]}} : TRUE
      BY <1>5
    <3>1. n \in 1 .. N
      BY <1>1
    <3>2. g[n] = RecordModelEvent(g[n-1], turns[n])
      BY <1>6, <3>1
    <3> QED  BY <1>7, <3>2
  <2>2. g = [n \in 0 .. N |-> g[n]]
    OBVIOUS
  <2> QED  BY <2>1, <2>2
<1>9. Is(upto)
  BY <1>8
<1>10. upto[0] = q /\ \A n \in 1 .. N : upto[n] = RecordModelEvent(upto[n-1], turns[n])
  <2> HIDE DEF upto
  <2>1. upto[0] = q
    BY <1>1, <1>9
  <2>2. ASSUME NEW n \in 1 .. N PROVE upto[n] = RecordModelEvent(upto[n-1], turns[n])
    <3>1. n \in 0 .. N /\ n # 0
      BY <1>1
    <3>2. upto[n] = CHOOSE r \in {RecordModelEvent(before, turns[n]) :
                                      before \in {upto[n-1]}} : TRUE
      BY <1>9, <3>1
    <3> QED  BY <1>7, <3>2
  <2> QED  BY <2>1, <2>2
<1> HIDE DEF upto
<1> DEFINE all(n) == ToSet(q) \cup {turns[i] : i \in 1 .. n}
           T == {n \in 0 .. N : upto[n] \in Q /\ ToSet(upto[n]) = all(n)}
<1>11. 0 \in T
  <2>1. q \in Q
    BY DEF Q
  <2>2. 1 .. 0 = {}
    OBVIOUS
  <2>3. all(0) = ToSet(q)
    BY <2>2
  <2> QED  BY <1>1, <1>10, <2>1, <2>3
<1>12. ASSUME NEW n \in 1 .. N, n - 1 \in T PROVE n \in T
  <2>1. upto[n-1] \in Seq(S) /\ Timed(upto[n-1]) /\ ToSet(upto[n-1]) = all(n-1)
    BY <1>12 DEF Q
  <2>2. /\ upto[n] \in Seq(S) /\ Timed(upto[n])
        /\ ToSet(upto[n]) = ToSet(upto[n-1]) \cup {turns[n]}
    <3> DEFINE x == upto[n-1]
               turn == turns[n]
    <3>1. turn \in S /\ upto[n] = RecordModelEvent(x, turn)
      BY <1>1, <1>10
    <3>2. x \in Seq(S) /\ Timed(x)
      BY <2>1
    <3> HIDE DEF x, turn
    <3>3. /\ RecordModelEvent(x, turn) \in Seq(S) /\ Timed(RecordModelEvent(x, turn))
          /\ ToSet(RecordModelEvent(x, turn)) = ToSet(x) \cup {turn}
      BY <3>1, <3>2, RecordKeeps
    <3> QED  BY <3>1, <3>3 DEF x, turn
  <2>3. 1 .. n = (1 .. n - 1) \cup {n}
    BY <1>1
  <2>4. all(n) = all(n-1) \cup {turns[n]}
    BY <2>3
  <2>5. n \in 0 .. N
    BY <1>1
  <2> HIDE DEF all
  <2> QED  BY <2>1, <2>2, <2>4, <2>5 DEF Q
<1>13. N \in T
  <2> HIDE DEF T
  <2>1. \A n \in 0 .. N : n \in T
    BY <1>1, <1>11, <1>12, SetInduction
  <2> QED  BY <1>1, <2>1
<1>14. all(N) = ToSet(q) \cup ToSet(turns)
  BY DEF ToSet, N
<1> QED  BY <1>2, <1>13, <1>14 DEF Q

\* What a view that knows of the turns S makes of a request.
LEMMA ModelAtIs ==
    ASSUME NEW s, NEW q \in Seq(Turns(GrokLine, s)), Timed(q),
           \A l \in GrokLine : l.at \in Nat,
           NEW S \in SUBSET GrokLine, Turns(S, s) \subseteq ToSet(q),
           NEW request \in GrokLine, request.session = s
    PROVE  ModelAt(q, request.at) \in Models(S, GrokLine, request)
<1> DEFINE n == LastBy(q, request.at)
           before == {l \in Turns(GrokLine, s) : l.at <= request.at}
           latest == {l \in before : \A k \in before \cap S : k.at <= l.at}
<1>1. /\ Len(q) \in Nat /\ DOMAIN q = 1 .. Len(q) /\ request.at \in Nat
      /\ \A i \in 1 .. Len(q) : q[i] \in Turns(GrokLine, s)
  OBVIOUS
<1>2. \A l \in Turns(GrokLine, s) : l \in GrokLine /\ l.at \in Nat
  BY DEF Turns
<1>3. n \in 0 .. Len(q) /\ \A i \in DOMAIN q : q[i].at <= request.at <=> i <= n
  BY <1>1, <1>2, LastByIs
<1>4. ModelAt(q, request.at) = IF q = <<>> THEN Unknown
                               ELSE IF n > 0 THEN q[n].model ELSE q[1].model
  BY DEF ModelAt, LastBy
<1>5. Models(S, GrokLine, request) =
         IF before \cap S # {} THEN {l.model : l \in latest}
         ELSE {l.model : l \in Turns(GrokLine, s)}
                  \cup (IF Turns(S, s) = {} THEN {Unknown} ELSE {})
  BY DEF Models
<1>6. ASSUME NEW l \in before \cap S PROVE \E i \in 1 .. Len(q) : q[i] = l /\ i <= n
  <2>1. l \in Turns(S, s) /\ l.at <= request.at
    BY DEF Turns
  <2>2. PICK i \in DOMAIN q : q[i] = l
    BY <2>1 DEF ToSet
  <2> QED  BY <1>1, <1>3, <2>1, <2>2
<1> HIDE DEF n
<1>7. CASE before \cap S # {}
  <2>1. n > 0 /\ q # <<>> /\ n \in 1 .. Len(q)
    <3>1. PICK l \in before \cap S : TRUE
      BY <1>7
    <3>2. PICK i \in 1 .. Len(q) : i <= n
      BY <1>6, <3>1
    <3> QED  BY <1>1, <1>3, <3>2
  <2>2. q[n] \in before
    BY <1>1, <1>3, <2>1
  <2>3. \A k \in before \cap S : k.at <= q[n].at
    <3> SUFFICES ASSUME NEW k \in before \cap S PROVE k.at <= q[n].at
      OBVIOUS
    <3>1. PICK i \in 1 .. Len(q) : q[i] = k /\ i <= n
      BY <1>6
    <3> QED  BY <1>1, <2>1, <3>1 DEF Timed
  <2>4. q[n] \in latest
    BY <2>2, <2>3
  <2> QED  BY <1>4, <1>5, <1>7, <2>1, <2>4
<1>8. CASE before \cap S = {}
  <2>1. CASE q = <<>>
    <3>1. Turns(S, s) = {}
      BY <2>1, EmptyElements
    <3> QED  BY <1>4, <1>5, <1>8, <2>1, <3>1
  <2>2. CASE q # <<>>
    <3>1. 1 \in 1 .. Len(q)
      BY <1>1, <2>2
    <3>2. ModelAt(q, request.at) \in {l.model : l \in Turns(GrokLine, s)}
      <4>1. CASE n > 0
        <5>1. n \in 1 .. Len(q)
          BY <1>1, <1>3, <4>1
        <5>2. q[n] \in Turns(GrokLine, s)
          BY <1>1, <5>1
        <5> QED  BY <1>4, <2>2, <4>1, <5>2
      <4>2. CASE ~(n > 0)
        BY <1>1, <1>4, <2>2, <3>1, <4>2
      <4> QED  BY <4>1, <4>2
    <3> QED  BY <1>5, <1>8, <3>2
  <2> QED  BY <2>1, <2>2
<1> QED  BY <1>7, <1>8

----------------------------------------------------------------------------
(***************************************************************************)
(* What a cursor has passed, and what a timeline has of it.                *)
(***************************************************************************)
GrokCursors(S) == [offset: Nat, tail: Seq(S)]

\* No line of a file runs into another.
Clear(text) == \A i \in 1 .. Len(text) - 1 : text[i] # NL => text[i+1] = NL

\* A cursor is behind a newline, and its tail is what follows it, without one.
Fits(cursor, text) ==
    /\ Position(cursor) <= Len(text)
    /\ \A j \in 1 .. Len(cursor.tail) :
          cursor.tail[j] = text[cursor.offset + j] /\ text[cursor.offset + j] # NL
    /\ cursor.offset > 0 => text[cursor.offset] = NL

\* The lines whose newline is within the first n bytes are among the turns.
Knows(text, n, turns) ==
    \A i \in 1 .. Len(text) - 1 : i < n /\ text[i] # NL /\ text[i+1] = NL => text[i] \in turns

\* Feeding a cursor what follows its position, up to the n-th byte, takes it there, and the whole
\* lines it passes are among those handed on.
LEMMA FedFits ==
    ASSUME NEW S, NEW text \in Seq(S \cup {NL}), Clear(text),
           NEW cursor \in GrokCursors(S), Fits(cursor, text),
           NEW n \in Position(cursor) .. Len(text)
    PROVE  LET bytes == SubSeq(text, Position(cursor) + 1, n) IN
           /\ Fed(cursor, bytes) \in GrokCursors(S) /\ Fits(Fed(cursor, bytes), text)
           /\ Position(Fed(cursor, bytes)) = n
           /\ LinesFed(cursor, bytes) \in Seq(Seq(S))
           /\ \A i \in 1 .. Len(text) - 1 :
                 /\ i >= cursor.offset /\ i < Fed(cursor, bytes).offset
                 /\ text[i] # NL /\ text[i+1] = NL
                 => <<text[i]>> \in ToSet(LinesFed(cursor, bytes))
<1> DEFINE bytes == SubSeq(text, Position(cursor) + 1, n)
           o == cursor.offset
           t == cursor.tail
           p == Position(cursor)
           all == t \o bytes
<1>1. o \in Nat /\ t \in Seq(S) /\ Len(t) \in Nat /\ p = o + Len(t) /\ Len(text) \in Nat
  BY DEF GrokCursors, Position
<1>0. p = o + Len(t) /\ o \in Nat /\ Len(t) \in Nat
  BY <1>1
<1>2. p \in Nat /\ n \in Nat /\ p <= n /\ n <= Len(text) /\ n \in p .. Len(text)
  BY <1>1
<1> HIDE DEF p
<1>3. /\ bytes \in Seq(S \cup {NL}) /\ Len(bytes) = n - p
      /\ \A i \in 1 .. n - p : bytes[i] = text[p + i]
  BY <1>2, PartIs DEF p
<1> HIDE DEF o, t, bytes
<1>4. t \in Seq(S \cup {NL})
  BY <1>1
<1>5. /\ all \in Seq(S \cup {NL}) /\ Len(all) = n - o
      /\ \A j \in 1 .. n - o : all[j] = text[o + j]
  <2>1. /\ all \in Seq(S \cup {NL}) /\ Len(all) = Len(t) + Len(bytes)
        /\ \A j \in 1 .. Len(t) : all[j] = t[j]
        /\ \A j \in 1 .. Len(bytes) : all[Len(t) + j] = bytes[j]
    <3> DEFINE B == S \cup {NL}
    <3>1. t \in Seq(B) /\ bytes \in Seq(B)
      BY <1>3, <1>4
    <3> HIDE DEF B
    <3>2. all \in Seq(B)
      BY <3>1
    <3>3. /\ Len(all) = Len(t) + Len(bytes)
          /\ \A j \in 1 .. Len(t) : all[j] = t[j]
          /\ \A j \in 1 .. Len(bytes) : all[Len(t) + j] = bytes[j]
      BY <3>1, ConcatIs
    <3> QED  BY <3>2, <3>3 DEF B
  <2> HIDE DEF all
  <2>2. Len(all) = n - o
    <3>1. Len(all) = Len(t) + (n - p)
      BY <1>3, <2>1
    <3>2. Len(t) + (n - (o + Len(t))) = n - o
      BY <1>0, <1>2
    <3> QED  BY <1>0, <3>1, <3>2
  <2>3. ASSUME NEW j \in 1 .. n - o PROVE all[j] = text[o + j]
    <3>1. CASE j <= Len(t)
      <4>1. j \in 1 .. Len(t)
        BY <1>1, <3>1
      <4>2. t[j] = text[o + j]
        BY <4>1 DEF Fits, o, t
      <4> QED  BY <2>1, <4>1, <4>2
    <3>2. CASE j > Len(t)
      <4> DEFINE i == j - Len(t)
      <4>1. i \in 1 .. n - p /\ Len(t) + i = j /\ p + i = o + j
        BY <1>0, <1>2, <3>2
      <4> HIDE DEF i
      <4>2. all[Len(t) + i] = bytes[i] /\ bytes[i] = text[p + i]
        BY <1>3, <2>1, <4>1
      <4> QED  BY <4>1, <4>2
    <3> QED  BY <1>0, <3>1, <3>2
  <2> QED  BY <2>1, <2>2, <2>3
<1>6. /\ Fed(cursor, bytes) = [offset |-> o + Len(all) - Len(Split(all).tail),
                               tail |-> Split(all).tail]
      /\ LinesFed(cursor, bytes) = Split(all).lines
  BY DEF Fed, LinesFed, o, t
<1> HIDE DEF all
<1>7. Split(all) \in Splits(S)
  BY <1>5, SplitCloses
<1>8. PICK k \in 0 .. Len(all) : /\ Rest(all, Len(all), k, Split(all).tail)
                                 /\ Closed(all, k, Split(all).lines)
  BY <1>5, SplitCloses
<1> DEFINE N == Len(all)
           tail == Split(all).tail
<1>9. N = n - o /\ N \in Nat /\ k \in 0 .. N /\ tail \in Seq(S) /\ Len(tail) = N - k
      /\ Split(all).lines \in Seq(Seq(S))
  BY <1>1, <1>2, <1>5, <1>7, <1>8 DEF Rest, Splits
<1>10. Fed(cursor, bytes) = [offset |-> o + k, tail |-> tail]
  <2>1. o + N - Len(tail) = o + k
    BY <1>1, <1>9
  <2> QED  BY <1>6, <2>1
<1>11. Fed(cursor, bytes) \in GrokCursors(S)
  BY <1>1, <1>9, <1>10 DEF GrokCursors
<1>12. Position(Fed(cursor, bytes)) = n
  <2>1. Position(Fed(cursor, bytes)) = (o + k) + (N - k)
    BY <1>9, <1>10 DEF Position
  <2> QED  BY <1>0, <1>2, <1>9, <2>1
<1>13. Fits(Fed(cursor, bytes), text)
  <2>1. ASSUME NEW j \in 1 .. Len(tail)
        PROVE  tail[j] = text[(o + k) + j] /\ text[(o + k) + j] # NL
    <3>1. tail[j] = all[k + j] /\ all[k + j] # NL
      BY <1>8, <1>9 DEF Rest
    <3>2. k + j \in 1 .. n - o /\ o + (k + j) = (o + k) + j
      BY <1>1, <1>9
    <3>3. all[k + j] = text[o + (k + j)]
      BY <1>5, <3>2
    <3> QED  BY <3>1, <3>2, <3>3
  <2>2. ASSUME o + k > 0 PROVE text[o + k] = NL
    <3>1. CASE k > 0
      <4>1. all[k] = NL /\ k \in 1 .. n - o
        BY <1>8, <1>9, <3>1 DEF Rest
      <4> QED  BY <1>5, <4>1
    <3>2. CASE k = 0
      <4>1. o > 0 /\ o + k = o
        BY <1>1, <2>2, <3>2
      <4> QED  BY <4>1 DEF Fits, o
    <3> QED  BY <1>9, <3>1, <3>2
  <2> HIDE DEF tail
  <2>3. Fed(cursor, bytes).offset = o + k /\ Fed(cursor, bytes).tail = tail
    BY <1>10
  <2>4. Position(Fed(cursor, bytes)) <= Len(text)
    BY <1>2, <1>12
  <2> QED  BY <2>1, <2>2, <2>3, <2>4 DEF Fits
<1>14. ASSUME NEW i \in 1 .. Len(text) - 1, i >= o, i < o + k, text[i] # NL, text[i+1] = NL
       PROVE  <<text[i]>> \in ToSet(Split(all).lines)
  <2>1. i # o
    <3>1. i = o => text[i] = NL
      BY <1>1 DEF Fits, o
    <3> QED  BY <1>14, <3>1
  <2> DEFINE j == i - o
  <2>2. j \in 1 .. n - o /\ j + 1 \in 1 .. n - o /\ o + j = i /\ o + (j + 1) = i + 1
        /\ j < k /\ j \in 1 .. k
    BY <1>1, <1>2, <1>9, <1>14, <2>1
  <2>3. ASSUME j > 1 PROVE all[j - 1] = NL
    <3>1. j - 1 \in 1 .. n - o /\ o + (j - 1) = i - 1 /\ i - 1 \in 1 .. Len(text) - 1
          /\ (i - 1) + 1 = i
      BY <1>1, <1>14, <2>2, <2>3
    <3>2. text[i - 1] # NL => text[i] = NL
      <4>1. text[i - 1] # NL => text[(i - 1) + 1] = NL
        BY <3>1 DEF Clear
      <4> QED  BY <3>1, <4>1
    <3>3. all[j - 1] = text[o + (j - 1)]
      BY <1>5, <3>1
    <3> QED  BY <1>14, <3>1, <3>2, <3>3
  <2> HIDE DEF j
  <2>4. all[j] = text[i] /\ all[j + 1] = text[i + 1]
    <3>1. all[j] = text[o + j] /\ all[j + 1] = text[o + (j + 1)]
      BY <1>5, <2>2
    <3> QED  BY <2>2, <3>1
  <2>5. <<all[j]>> \in ToSet(Split(all).lines)
    BY <1>8, <1>14, <2>2, <2>3, <2>4 DEF Closed
  <2> QED  BY <2>4, <2>5
<1>15. /\ Fed(cursor, bytes).offset = o + k /\ LinesFed(cursor, bytes) = Split(all).lines
       /\ cursor.offset = o
  BY <1>6, <1>10 DEF o
<1> QED  BY <1>9, <1>11, <1>12, <1>13, <1>14, <1>15 DEF bytes

\* What is said in a file whose lines are of a kind.
LEMMA SaidIs ==
    ASSUME NEW S, NEW kind, \A l \in S : l.kind = kind,
           NEW cursor, NEW bytes, LinesFed(cursor, bytes) \in Seq(Seq(S))
    PROVE  /\ Said(cursor, bytes, kind) \in Seq(S)
           /\ \A l : <<l>> \in ToSet(LinesFed(cursor, bytes))
                         => l \in ToSet(Said(cursor, bytes, kind))
<1> DEFINE lines == LinesFed(cursor, bytes)
           IsSaid(line) == Len(line) = 1 /\ line[1].kind = kind
           said == [i \in DOMAIN lines |-> IF IsSaid(lines[i]) THEN lines[i] ELSE <<>>]
<1>1. Said(cursor, bytes, kind) = FlattenSeq(said)
  BY DEF Said
<1> HIDE DEF lines
<1>2. lines \in Seq(Seq(S)) /\ Len(lines) \in Nat /\ DOMAIN lines = 1 .. Len(lines)
      /\ \A i \in 1 .. Len(lines) : lines[i] \in Seq(S)
  BY DEF lines
<1>3. \A i \in 1 .. Len(lines) : said[i] \in Seq(S)
  BY <1>2
<1>4. said \in Seq(Seq(S)) /\ DOMAIN said = 1 .. Len(lines)
  BY <1>2, <1>3
<1>5. ASSUME NEW l, <<l>> \in ToSet(lines) PROVE l \in ToSet(FlattenSeq(said))
  <2>1. PICK i \in 1 .. Len(lines) : lines[i] = <<l>>
    BY <1>2, <1>5 DEF ToSet
  <2>2. <<l>> \in Seq(S) /\ Len(<<l>>) = 1 /\ <<l>>[1] = l
    BY <1>2, <2>1
  <2>3. l \in S
    BY <2>2
  <2>4. said[i] = <<l>>
    BY <1>2, <2>1, <2>2, <2>3
  <2>5. l \in ToSet(<<l>>)
    BY DEF ToSet
  <2> HIDE DEF said
  <2>6. l \in UNION {ToSet(said[n]) : n \in DOMAIN said}
    BY <1>4, <2>4, <2>5
  <2> QED  BY <1>4, <2>6, FlattenElements
<1> HIDE DEF said
<1>6. FlattenSeq(said) \in Seq(S)
  BY <1>4, FlattenType
<1> QED  BY <1>1, <1>5, <1>6 DEF lines

\* A timeline that is fed what follows a cursor has the turns up to the cursor it is left with.
LEMMA FedKnows ==
    ASSUME NEW S, \A l \in S : l.at \in Nat /\ l.kind = "turn",
           NEW text \in Seq(S \cup {NL}), Clear(text),
           NEW cursor \in GrokCursors(S), Fits(cursor, text),
           NEW n \in Position(cursor) .. Len(text),
           NEW q \in Seq(S), Timed(q), Knows(text, cursor.offset, ToSet(q))
    PROVE  LET bytes == SubSeq(text, Position(cursor) + 1, n)
               r == Folded(RecordModelEvent, q, Said(cursor, bytes, "turn"))
           IN  /\ r \in Seq(S) /\ Timed(r) /\ ToSet(q) \subseteq ToSet(r)
               /\ Knows(text, Fed(cursor, bytes).offset, ToSet(r))
<1> DEFINE bytes == SubSeq(text, Position(cursor) + 1, n)
           said == Said(cursor, bytes, "turn")
           r == Folded(RecordModelEvent, q, said)
<1>1. /\ Fed(cursor, bytes) \in GrokCursors(S)
      /\ LinesFed(cursor, bytes) \in Seq(Seq(S))
      /\ \A i \in 1 .. Len(text) - 1 :
            /\ i >= cursor.offset /\ i < Fed(cursor, bytes).offset
            /\ text[i] # NL /\ text[i+1] = NL
            => <<text[i]>> \in ToSet(LinesFed(cursor, bytes))
  BY FedFits
<1> HIDE DEF bytes
<1>2. /\ said \in Seq(S)
      /\ \A l : <<l>> \in ToSet(LinesFed(cursor, bytes)) => l \in ToSet(said)
  BY <1>1, SaidIs
<1> HIDE DEF said
<1>3. r \in Seq(S) /\ Timed(r) /\ ToSet(r) = ToSet(q) \cup ToSet(said)
  BY <1>2, RecordedIs
<1> HIDE DEF r
<1>4. ASSUME NEW i \in 1 .. Len(text) - 1, i < Fed(cursor, bytes).offset,
             text[i] # NL, text[i+1] = NL
      PROVE  text[i] \in ToSet(r)
  <2>1. cursor.offset \in Nat
    BY DEF GrokCursors
  <2>2. CASE i < cursor.offset
    <3>1. text[i] \in ToSet(q)
      BY <1>4, <2>2 DEF Knows
    <3> QED  BY <1>3, <3>1
  <2>3. CASE i >= cursor.offset
    <3>1. <<text[i]>> \in ToSet(LinesFed(cursor, bytes))
      BY <1>1, <1>4, <2>3
    <3> QED  BY <1>2, <1>3, <3>1
  <2> QED  BY <2>1, <2>2, <2>3
<1> QED  BY <1>3, <1>4 DEF Knows, bytes, said, r

\* What is before a position that a cursor has reached is before the newline it is behind.
LEMMA BehindIs ==
    ASSUME NEW S, NEW text \in Seq(S \cup {NL}), NEW cursor \in GrokCursors(S),
           Fits(cursor, text), NEW turns, Knows(text, cursor.offset, turns),
           NEW i \in 1 .. Len(text) - 1, i + 1 <= Position(cursor), text[i] # NL, text[i+1] = NL
    PROVE  text[i] \in turns
<1>1. cursor.offset \in Nat /\ Len(cursor.tail) \in Nat /\ Len(text) \in Nat
      /\ Position(cursor) = cursor.offset + Len(cursor.tail)
  BY DEF GrokCursors, Position
<1>2. i < cursor.offset
  <2> SUFFICES ASSUME i >= cursor.offset PROVE FALSE
    BY <1>1
  <2> DEFINE j == i + 1 - cursor.offset
  <2>1. j \in 1 .. Len(cursor.tail) /\ cursor.offset + j = i + 1
    BY <1>1
  <2> HIDE DEF j
  <2>2. text[cursor.offset + j] # NL
    BY <2>1 DEF Fits
  <2> QED  BY <2>1, <2>2
<1> QED  BY <1>2 DEF Knows

\* What is read behind a position.
LEMMA AppendedIs ==
    ASSUME NEW S, NEW text \in Seq(S), NEW m \in 0 .. Len(text), NEW p \in 0 .. Len(text)
    PROVE  \E n \in p .. Len(text) :
              n >= m /\ ReadAppended(SubSeq(text, 1, m), p) = SubSeq(text, p + 1, n)
<1> DEFINE b == SubSeq(text, 1, m)
<1>1. b \in Seq(S) /\ Len(b) = m /\ \A i \in 1 .. m : b[i] = text[i]
  <2>1. m \in 0 .. Len(text) /\ 0 \in Nat /\ 0 + 1 = 1 /\ m - 0 = m
        /\ \A i \in 1 .. m : 0 + i = i
    OBVIOUS
  <2>2. /\ SubSeq(text, 0 + 1, m) \in Seq(S) /\ Len(SubSeq(text, 0 + 1, m)) = m - 0
        /\ \A i \in 1 .. m - 0 : SubSeq(text, 0 + 1, m)[i] = text[0 + i]
    BY <2>1, PartIs
  <2> QED  BY <2>1, <2>2
<1> HIDE DEF b
<1>2. ReadAppended(b, p) = SubSeq(b, p + 1, m)
  BY <1>1 DEF ReadAppended
<1>3. CASE p <= m
  <2>1. m \in p .. Len(b) /\ m \in p .. Len(text) /\ p \in Nat
    BY <1>1, <1>3
  <2>2. /\ SubSeq(b, p + 1, m) \in Seq(S) /\ Len(SubSeq(b, p + 1, m)) = m - p
        /\ \A i \in 1 .. m - p : SubSeq(b, p + 1, m)[i] = b[p + i]
    BY <1>1, <2>1, PartIs
  <2>3. /\ SubSeq(text, p + 1, m) \in Seq(S) /\ Len(SubSeq(text, p + 1, m)) = m - p
        /\ \A i \in 1 .. m - p : SubSeq(text, p + 1, m)[i] = text[p + i]
    BY <2>1, PartIs
  <2>4. \A i \in 1 .. m - p : p + i \in 1 .. m
    BY <2>1
  <2>5. SubSeq(b, p + 1, m) = SubSeq(text, p + 1, m)
    <3> DEFINE x == SubSeq(b, p + 1, m)
               y == SubSeq(text, p + 1, m)
    <3>1. x \in Seq(S) /\ y \in Seq(S) /\ Len(x) = m - p /\ Len(y) = m - p
      BY <2>2, <2>3
    <3>2. \A i \in 1 .. m - p : x[i] = y[i]
      BY <1>1, <2>2, <2>3, <2>4
    <3> HIDE DEF x, y
    <3>3. x = y
      BY <3>1, <3>2
    <3> QED  BY <3>3 DEF x, y
  <2> QED  BY <1>2, <2>1, <2>5 DEF b
<1>4. CASE p > m
  <2>1. SubSeq(b, p + 1, m) = <<>> /\ SubSeq(text, p + 1, p) = <<>> /\ p \in p .. Len(text)
        /\ p >= m
    BY <1>1, <1>4
  <2> QED  BY <1>2, <2>1 DEF b
<1> QED  BY <1>3, <1>4

----------------------------------------------------------------------------
(***************************************************************************)
(* What is streamed.                                                       *)
(***************************************************************************)
Requests == {l \in GrokLine : l.kind = "request"}

GrokModels == {l.model : l \in GrokLine} \cup {Unknown}

GrokStreamed == [usage: [request: Requests, model: GrokModels], noted: SUBSET GrokLine]

GrokViews == [seen: SUBSET (Requests \X GrokModels), accepted: Seq(GrokStreamed)]

\* The timelines have the turns of a set.
TurnsHeld(turns, lines) == \A s \in Session : Turns(turns, s) \subseteq ToSet(lines[s])

TimelinesType(lines) ==
    /\ lines \in [Session -> Seq(GrokLine)]
    /\ \A s \in Session : lines[s] \in Seq(Turns(GrokLine, s)) /\ Timed(lines[s])

\* What is streamed has the model of a turn it knows of, was marked, and no request has a model
\* for the second time.
StreamedRight(view, lines) ==
    /\ \A i \in DOMAIN view.accepted : LET e == view.accepted[i] IN
          /\ TurnsHeld(e.noted, lines)
          /\ GrokEntryKey(e.usage) \in view.seen
          /\ e.usage.model \in Models(e.noted, GrokLine, e.usage.request)
    /\ \A i, j \in DOMAIN view.accepted : LET e == view.accepted[i] f == view.accepted[j] IN
          i < j /\ e.usage.request = f.usage.request
              => /\ e.usage.model # f.usage.model
                 /\ f.usage.model \in Models(e.noted, GrokLine, e.usage.request)

\* A request is given the model of a turn that one may give it who knows no more than the timelines.
LEMMA UsageIs ==
    ASSUME TimelinesType(timelines), NEW request \in Requests
    PROVE  /\ UsageOf(request) \in [request: Requests, model: GrokModels]
           /\ UsageOf(request).request = request
           /\ \A S \in SUBSET GrokLine :
                 TurnsHeld(S, timelines) => UsageOf(request).model \in Models(S, GrokLine, request)
<1> DEFINE s == request.session
           q == timelines[s]
<1>1. /\ request \in GrokLine /\ s \in Session /\ request.at \in Nat
      /\ \A l \in GrokLine : l.at \in Nat
  BY GrokAssumption DEF GrokAssumption, Requests
<1>2. q \in Seq(Turns(GrokLine, s)) /\ Timed(q)
  BY <1>1 DEF TimelinesType
<1>3. UsageOf(request) = [request |-> request, model |-> ModelAt(q, request.at)]
  BY DEF UsageOf
<1> HIDE DEF q, s
<1>4. ASSUME NEW S \in SUBSET GrokLine, Turns(S, s) \subseteq ToSet(q)
      PROVE  ModelAt(q, request.at) \in Models(S, GrokLine, request)
  <2>1. request.session = s
    BY DEF s
  <2> QED  BY <1>1, <1>2, <1>4, <2>1, ModelAtIs
<1>5. ModelAt(q, request.at) \in GrokModels
  <2>1. Turns({}, s) \subseteq ToSet(q)
    BY DEF Turns
  <2>2. ModelAt(q, request.at) \in Models({}, GrokLine, request)
    BY <1>4, <2>1
  <2>3. \A l \in Turns(GrokLine, request.session) : l \in GrokLine
    BY DEF Turns
  <2> QED  BY <2>2, <2>3 DEF Models, GrokModels
<1>6. ASSUME NEW S \in SUBSET GrokLine, TurnsHeld(S, timelines)
      PROVE  ModelAt(q, request.at) \in Models(S, GrokLine, request)
  <2>1. Turns(S, s) \subseteq ToSet(q)
    BY <1>1, <1>6 DEF TurnsHeld, q
  <2> QED  BY <1>4, <2>1
<1> QED  BY <1>3, <1>5, <1>6

\* A request that is accepted is streamed right; a second time it has another model, which the
\* turns noted the first time leave open.
LEMMA AcceptKeeps ==
    ASSUME TimelinesType(timelines), noted \in SUBSET GrokLine, TurnsHeld(noted, timelines),
           NEW view \in GrokViews, StreamedRight(view, timelines), NEW request \in Requests
    PROVE  /\ AcceptUsage(view, UsageOf(request)) \in GrokViews
           /\ StreamedRight(AcceptUsage(view, UsageOf(request)), timelines)
<1> DEFINE usage == UsageOf(request)
           key == GrokEntryKey(usage)
           entry == [usage |-> usage, noted |-> noted]
           a == view.accepted
           b == Append(a, entry)
           next == [seen |-> view.seen \cup {key}, accepted |-> b]
<1>1. CASE key \in view.seen
  BY <1>1 DEF AcceptUsage
<1>2. CASE key \notin view.seen
  <2>1. AcceptUsage(view, usage) = next
    BY <1>2 DEF AcceptUsage, Taken
  <2>2. /\ usage \in [request: Requests, model: GrokModels] /\ usage.request = request
        /\ \A S \in SUBSET GrokLine :
              TurnsHeld(S, timelines) => usage.model \in Models(S, GrokLine, request)
    BY UsageIs
  <2> HIDE DEF usage
  <2>3. key = <<usage.request, usage.model>> /\ key \in Requests \X GrokModels
    BY <2>2 DEF GrokEntryKey
  <2>4. entry \in GrokStreamed /\ entry.usage = usage /\ entry.noted = noted
    BY <2>2 DEF GrokStreamed
  <2> HIDE DEF key, entry
  <2>5. a \in Seq(GrokStreamed) /\ view.seen \in SUBSET (Requests \X GrokModels)
    BY DEF GrokViews
  <2> HIDE DEF a
  <2>6. /\ b \in Seq(GrokStreamed) /\ Len(a) \in Nat
        /\ DOMAIN a = 1 .. Len(a) /\ DOMAIN b = 1 .. Len(a) + 1
        /\ b[Len(a) + 1] = entry /\ \A i \in 1 .. Len(a) : b[i] = a[i] /\ a[i] \in GrokStreamed
    BY <2>4, <2>5
  <2> HIDE DEF b
  <2>7. next \in GrokViews
    BY <2>3, <2>5, <2>6 DEF GrokViews
  <2>8. \A i \in 1 .. Len(a) + 1 : i \in 1 .. Len(a) \/ i = Len(a) + 1
    BY <2>6
  <2>9. ASSUME NEW i \in 1 .. Len(a)
        PROVE  /\ TurnsHeld(a[i].noted, timelines) /\ GrokEntryKey(a[i].usage) \in view.seen
               /\ a[i].usage.model \in Models(a[i].noted, GrokLine, a[i].usage.request)
    BY <2>6 DEF StreamedRight, a
  <2>10. ASSUME NEW i \in 1 .. Len(a) + 1
         PROVE  /\ TurnsHeld(b[i].noted, timelines) /\ GrokEntryKey(b[i].usage) \in next.seen
                /\ b[i].usage.model \in Models(b[i].noted, GrokLine, b[i].usage.request)
    <3>1. CASE i \in 1 .. Len(a)
      BY <2>6, <2>9, <3>1
    <3>2. CASE i = Len(a) + 1
      <4>1. b[i] = entry
        BY <2>6, <3>2
      <4>2. usage.model \in Models(noted, GrokLine, usage.request)
        BY <2>2
      <4> QED  BY <2>4, <4>1, <4>2 DEF key
    <3> QED  BY <2>8, <3>1, <3>2
  <2>11. ASSUME NEW i \in 1 .. Len(a) + 1, NEW j \in 1 .. Len(a) + 1, i < j,
                b[i].usage.request = b[j].usage.request
         PROVE  /\ b[i].usage.model # b[j].usage.model
                /\ b[j].usage.model \in Models(b[i].noted, GrokLine, b[i].usage.request)
    <3>1. i \in 1 .. Len(a) /\ b[i] = a[i]
      BY <2>6, <2>11
    <3>2. CASE j \in 1 .. Len(a)
      <4>1. b[j] = a[j]
        BY <2>6, <3>2
      <4> QED  BY <2>6, <2>11, <3>1, <3>2, <4>1 DEF StreamedRight, a
    <3>3. CASE j = Len(a) + 1
      <4>1. b[j] = entry
        BY <2>6, <3>3
      <4>2. a[i].usage.request = request
        BY <2>2, <2>4, <2>11, <3>1, <4>1
      <4>3. a[i].noted \in SUBSET GrokLine /\ TurnsHeld(a[i].noted, timelines)
        BY <2>6, <2>9, <3>1 DEF GrokStreamed
      <4>4. usage.model \in Models(a[i].noted, GrokLine, request)
        BY <2>2, <4>3
      <4>5. a[i].usage.model # usage.model
        <5> SUFFICES ASSUME a[i].usage.model = usage.model PROVE FALSE
          OBVIOUS
        <5>1. GrokEntryKey(a[i].usage) = key
          BY <2>2, <2>3, <4>2 DEF GrokEntryKey
        <5> QED  BY <1>2, <2>9, <3>1, <5>1
      <4> QED  BY <2>4, <3>1, <4>1, <4>2, <4>4, <4>5
    <3> QED  BY <2>8, <3>2, <3>3
  <2>12. next.accepted = b
    OBVIOUS
  <2> HIDE DEF next
  <2>13. StreamedRight(next, timelines)
    BY <2>6, <2>10, <2>11, <2>12 DEF StreamedRight
  <2> QED  BY <2>1, <2>7, <2>13 DEF usage
<1> QED  BY <1>1, <1>2

\* Requests are streamed one after another.
LEMMA AcceptedIs ==
    ASSUME TimelinesType(timelines), noted \in SUBSET GrokLine, TurnsHeld(noted, timelines),
           NEW view \in GrokViews, StreamedRight(view, timelines),
           NEW requests \in Seq(Requests),
           NEW usages, usages = [i \in DOMAIN requests |-> UsageOf(requests[i])]
    PROVE  /\ Folded(AcceptUsage, view, usages) \in GrokViews
           /\ StreamedRight(Folded(AcceptUsage, view, usages), timelines)
<1> DEFINE N == Len(usages)
           V == {v \in GrokViews : StreamedRight(v, timelines)}
           Is(h) == h = [n \in 0 .. N |->
                            IF n = 0 THEN view
                            ELSE CHOOSE r \in {AcceptUsage(before, usages[n]) :
                                                   before \in {h[n-1]}} : TRUE]
           step == [n \in 1 .. N |-> [x \in V |-> AcceptUsage(x, usages[n])]]
           upto == CHOOSE h : Is(h)
<1>1. N \in Nat /\ \A n \in 1 .. N : requests[n] \in Requests /\ usages[n] = UsageOf(requests[n])
  <2>1. Len(requests) \in Nat /\ DOMAIN requests = 1 .. Len(requests)
        /\ \A n \in 1 .. Len(requests) : requests[n] \in Requests
    OBVIOUS
  <2>2. N = Len(requests)
    BY <2>1
  <2> QED  BY <2>1, <2>2
<1>2. Folded(AcceptUsage, view, usages) = upto[N]
  BY DEF Folded
<1>3. \A n \in 1 .. N : \A x \in V : step[n][x] = AcceptUsage(x, usages[n])
  OBVIOUS
<1>4. \A n \in 1 .. N : \A x \in V : AcceptUsage(x, usages[n]) \in V
  <2> SUFFICES ASSUME NEW n \in 1 .. N, NEW x \in V PROVE AcceptUsage(x, usages[n]) \in V
    OBVIOUS
  <2>1. x \in GrokViews /\ StreamedRight(x, timelines)
    OBVIOUS
  <2>2. requests[n] \in Requests /\ usages[n] = UsageOf(requests[n])
    BY <1>1
  <2> HIDE DEF V, N
  <2>3. /\ AcceptUsage(x, UsageOf(requests[n])) \in GrokViews
        /\ StreamedRight(AcceptUsage(x, UsageOf(requests[n])), timelines)
    BY <2>1, <2>2, AcceptKeeps
  <2> QED  BY <2>2, <2>3 DEF V
<1>5. view \in V
  OBVIOUS
<1> HIDE DEF step, N, V
<1>6. PICK g \in [0 .. N -> V] : g[0] = view /\ \A n \in 1 .. N : g[n] = step[n][g[n-1]]
  <2>1. \A n \in 1 .. N : \A x \in V : step[n][x] \in V
    BY <1>3, <1>4
  <2>2. Recurs(V, N, view, step)
    BY <1>1, <1>5, <2>1, Recursion
  <2> QED  BY <2>2 DEF Recurs
<1>7. \A n \in 1 .. N : g[n-1] \in V /\ g[n] = AcceptUsage(g[n-1], usages[n])
  <2> SUFFICES ASSUME NEW n \in 1 .. N
               PROVE  g[n-1] \in V /\ g[n] = AcceptUsage(g[n-1], usages[n])
    OBVIOUS
  <2>1. n - 1 \in 0 .. N
    BY <1>1
  <2>2. g[n-1] \in V
    BY <2>1
  <2> QED  BY <1>3, <1>6, <2>2
<1>8. \A u, x : (CHOOSE r \in {AcceptUsage(before, u) : before \in {x}} : TRUE) = AcceptUsage(x, u)
  OBVIOUS
<1>9. Is(g)
  <2>1. \A n \in 0 .. N :
           g[n] = IF n = 0 THEN view
                  ELSE CHOOSE r \in {AcceptUsage(before, usages[n]) : before \in {g[n-1]}} : TRUE
    <3> SUFFICES ASSUME NEW n \in 0 .. N, n # 0
                 PROVE  g[n] = CHOOSE r \in {AcceptUsage(before, usages[n]) :
                                                 before \in {g[n-1]}} : TRUE
      BY <1>6
    <3>1. n \in 1 .. N
      BY <1>1
    <3>2. g[n] = AcceptUsage(g[n-1], usages[n])
      BY <1>7, <3>1
    <3> QED  BY <1>8, <3>2
  <2>2. g = [n \in 0 .. N |-> g[n]]
    OBVIOUS
  <2> QED  BY <2>1, <2>2
<1>10. Is(upto)
  BY <1>9
<1>11. upto[0] = view /\ \A n \in 1 .. N : upto[n] = AcceptUsage(upto[n-1], usages[n])
  <2> HIDE DEF upto
  <2>1. upto[0] = view
    BY <1>1, <1>10
  <2>2. ASSUME NEW n \in 1 .. N PROVE upto[n] = AcceptUsage(upto[n-1], usages[n])
    <3>1. n \in 0 .. N /\ n # 0
      BY <1>1
    <3>2. upto[n] = CHOOSE r \in {AcceptUsage(before, usages[n]) : before \in {upto[n-1]}} : TRUE
      BY <1>10, <3>1
    <3> QED  BY <1>8, <3>2
  <2> QED  BY <2>1, <2>2
<1> HIDE DEF upto
<1> DEFINE T == {n \in 0 .. N : upto[n] \in V}
<1>12. \A n \in 0 .. N : n \in T
  <2>1. 0 \in T
    BY <1>1, <1>5, <1>11
  <2>2. ASSUME NEW n \in 1 .. N, n - 1 \in T PROVE n \in T
    <3>1. upto[n-1] \in V
      BY <2>2
    <3>2. upto[n] = AcceptUsage(upto[n-1], usages[n])
      BY <1>11
    <3>3. upto[n] \in V
      BY <1>4, <3>1, <3>2
    <3>4. n \in 0 .. N
      BY <1>1
    <3> QED  BY <3>3, <3>4
  <2> HIDE DEF T
  <2> QED  BY <1>1, <2>1, <2>2, SetInduction
<1>13. upto[N] \in V
  <2>1. N \in T
    <3> HIDE DEF T
    <3> QED  BY <1>1, <1>12
  <2> QED  BY <2>1
<1>14. Folded(AcceptUsage, view, usages) \in V
  BY <1>2, <1>13
<1> QED  BY <1>14 DEF V

----------------------------------------------------------------------------
(***************************************************************************)
(* The files, the cursors and the pass that is under way.                  *)
(***************************************************************************)
\* A file has lines of its own kind.
LinesOf(f) == IF f = Log THEN Requests ELSE Turns(GrokLine, f)

\* The bytes written to a file are whole lines but for the last one's newline.
DiskType ==
    /\ written \in [Session -> Nat]
    /\ whole \in [Path -> GrokText \cup {Gone}]
    /\ shown \in [Path -> Nat]
    /\ \A f \in Path :
          IF whole[f] = Gone THEN shown[f] = 0
          ELSE /\ whole[f] \in Seq(LinesOf(f) \cup {NL}) /\ Clear(whole[f])
               /\ shown[f] <= Len(whole[f])

\* A cursor stands in its file, and a timeline has the turns before it.
CursorsKnow ==
    /\ grok_cursors \in [Path -> GrokCursors(GrokLine) \cup {Gone}]
    /\ TimelinesType(timelines)
    /\ \A f \in Path : grok_cursors[f] # Gone =>
          /\ whole[f] # Gone /\ grok_cursors[f] \in GrokCursors(LinesOf(f))
          /\ Fits(grok_cursors[f], whole[f])
          /\ f # Log => Knows(whole[f], grok_cursors[f].offset, ToSet(timelines[f]))

\* The turns are read before the requests.
PollType ==
    /\ grok_pc \in {"asleep", "turns", "requests"}
    /\ grok_read \in [file: Path \cup {None}, size: Nat]
    /\ grok_todo \subseteq GrokPresent
    /\ IF grok_read.file \in Path THEN whole[grok_read.file] # Gone
       ELSE grok_read = GrokNothingRead
    /\ grok_pc = "asleep" => grok_todo = {} /\ grok_read.file = None
    /\ grok_pc = "turns" => grok_todo \subseteq Session /\ grok_read.file # Log
    /\ grok_pc = "requests" => grok_todo \subseteq {Log} /\ grok_read.file \in {Log, None}

\* Of a file that is neither to be looked at nor to be read, what was noted is known.
NotedKnown ==
    /\ noted \in SUBSET GrokLine
    /\ grok_pc = "turns" =>
          /\ noted \subseteq TurnsOnDisk
          /\ \A s \in Session :
                /\ s \notin grok_todo
                /\ grok_read.file = s => /\ grok_cursors[s] # Gone
                                         /\ grok_read.size = Position(grok_cursors[s])
                => Turns(noted, s) \subseteq ToSet(timelines[s])
    /\ grok_pc = "requests" => TurnsHeld(noted, timelines)

\* What accept_usage folds over.
GrokSeen == [seen |-> seen, accepted |-> grok_accepted]

\* The inductive invariant.
GrokInv ==
    /\ DiskType /\ CursorsKnow /\ PollType /\ NotedKnown
    /\ GrokSeen \in GrokViews /\ StreamedRight(GrokSeen, timelines)

\* The files' first bytes, and the turns in what is shown of them.
OnDisk(files, sizes) ==
    {l \in GrokLine : /\ l.kind = "turn" /\ files[l.session] # Gone
                      /\ \E i \in 1 .. sizes[l.session] - 1 :
                            files[l.session][i] = l /\ files[l.session][i + 1] = NL}

\* The same, as TurnsOnDisk has it.
FoundIn(files, sizes) ==
    {l \in GrokLine :
        /\ l.kind = "turn" /\ l.session \in {f \in Path : files[f] # Gone}
        /\ \E i \in 1 .. Len(SubSeq(files[l.session], 1, sizes[l.session])) - 1 :
              /\ SubSeq(files[l.session], 1, sizes[l.session])[i] = l
              /\ SubSeq(files[l.session], 1, sizes[l.session])[i + 1] = NL}

\* They are the same.
LEMMA FoundIs ==
    ASSUME NEW files \in [Path -> GrokText \cup {Gone}], NEW sizes \in [Path -> Nat],
           \A f \in Path : files[f] # Gone => sizes[f] <= Len(files[f])
    PROVE  FoundIn(files, sizes) = OnDisk(files, sizes)
<1> SUFFICES ASSUME NEW l \in GrokLine, l.kind = "turn"
             PROVE  l \in FoundIn(files, sizes) <=> l \in OnDisk(files, sizes)
  BY DEF FoundIn, OnDisk
<1> DEFINE s == l.session
           text == files[s]
           n == sizes[s]
           b == SubSeq(text, 1, n)
<1>1. s \in Path /\ s \in Session
  BY GrokAssumption DEF GrokAssumption, Path
<1>2. CASE text = Gone
  BY <1>1, <1>2 DEF FoundIn, OnDisk
<1>3. CASE text # Gone
  <2>1. text \in Seq(GrokLine \cup {NL}) /\ n \in 0 .. Len(text)
    BY <1>1, <1>3 DEF GrokText
  <2> HIDE DEF text, n
  <2>2. Len(b) = n /\ n \in Nat /\ \A i \in 1 .. n : b[i] = text[i]
    BY <2>1, BeginIs
  <2> HIDE DEF b
  <2>3. \A i \in 1 .. n - 1 : b[i] = text[i] /\ b[i + 1] = text[i + 1]
    BY <2>2
  <2>4. (\E i \in 1 .. Len(b) - 1 : b[i] = l /\ b[i + 1] = NL)
           <=> (\E i \in 1 .. n - 1 : text[i] = l /\ text[i + 1] = NL)
    BY <2>2, <2>3
  <2>5. l \in FoundIn(files, sizes) <=> \E i \in 1 .. Len(b) - 1 : b[i] = l /\ b[i + 1] = NL
    BY <1>1, <1>3 DEF FoundIn, text, n, b
  <2>6. l \in OnDisk(files, sizes) <=> \E i \in 1 .. n - 1 : text[i] = l /\ text[i + 1] = NL
    BY <1>3 DEF OnDisk, text, n
  <2> QED  BY <2>4, <2>5, <2>6
<1> QED  BY <1>2, <1>3

\* A text that begins with another.
Begins(text, more) ==
    Len(text) <= Len(more) /\ \A i \in 1 .. Len(text) : more[i] = text[i]

\* A cursor that fits a file fits it when it has grown.
LEMMA BeginsKeeps ==
    ASSUME NEW S, NEW text \in Seq(S \cup {NL}), NEW more \in Seq(S \cup {NL}), Begins(text, more),
           NEW cursor \in GrokCursors(S), Fits(cursor, text)
    PROVE  /\ Fits(cursor, more)
           /\ \A turns : Knows(text, cursor.offset, turns) => Knows(more, cursor.offset, turns)
<1>1. /\ Len(text) \in Nat /\ Len(more) \in Nat /\ Len(text) <= Len(more)
      /\ cursor.offset \in Nat /\ Len(cursor.tail) \in Nat
      /\ Position(cursor) = cursor.offset + Len(cursor.tail) /\ Position(cursor) <= Len(text)
  BY DEF Begins, GrokCursors, Position, Fits
<1>2. Position(cursor) <= Len(more) /\ cursor.offset <= Len(text)
  BY <1>1
<1>3. ASSUME NEW j \in 1 .. Len(cursor.tail)
      PROVE  /\ cursor.tail[j] = more[cursor.offset + j] /\ more[cursor.offset + j] # NL
  <2>1. cursor.offset + j \in 1 .. Len(text)
    BY <1>1
  <2> QED  BY <2>1 DEF Fits, Begins
<1>4. cursor.offset > 0 => more[cursor.offset] = NL
  BY <1>1, <1>2 DEF Fits, Begins
<1>5. ASSUME NEW turns, Knows(text, cursor.offset, turns),
             NEW i \in 1 .. Len(more) - 1, i < cursor.offset, more[i] # NL, more[i+1] = NL
      PROVE  more[i] \in turns
  <2>1. i \in 1 .. Len(text) - 1 /\ i \in 1 .. Len(text) /\ i + 1 \in 1 .. Len(text)
    BY <1>1, <1>2, <1>5
  <2>2. more[i] = text[i] /\ more[i+1] = text[i+1]
    BY <2>1 DEF Begins
  <2> QED  BY <1>5, <2>1, <2>2 DEF Knows
<1> QED  BY <1>2, <1>3, <1>4, <1>5 DEF Fits, Knows

\* Whatever is written to the files, the cursors fit.
LEMMA GrownKeeps ==
    ASSUME GrokInv, DiskType', UNCHANGED grokInside, noted' \subseteq noted,
           \A f \in Path : whole[f] # Gone => whole'[f] # Gone /\ Begins(whole[f], whole'[f]),
           grok_pc = "turns" => noted' \subseteq TurnsOnDisk'
    PROVE  GrokInv'
<1>1. CursorsKnow'
  <2> SUFFICES ASSUME NEW f \in Path, grok_cursors[f] # Gone
               PROVE  /\ whole'[f] # Gone /\ Fits(grok_cursors[f], whole'[f])
                      /\ f # Log =>
                            Knows(whole'[f], grok_cursors[f].offset, ToSet(timelines[f]))
    BY DEF GrokInv, CursorsKnow, grokInside
  <2>1. /\ whole[f] # Gone /\ grok_cursors[f] \in GrokCursors(LinesOf(f))
        /\ Fits(grok_cursors[f], whole[f])
        /\ f # Log => Knows(whole[f], grok_cursors[f].offset, ToSet(timelines[f]))
    BY DEF GrokInv, CursorsKnow
  <2>2. whole'[f] # Gone /\ Begins(whole[f], whole'[f])
    BY <2>1
  <2>3. whole[f] \in Seq(LinesOf(f) \cup {NL}) /\ whole'[f] \in Seq(LinesOf(f) \cup {NL})
    BY <2>1, <2>2 DEF GrokInv, DiskType
  <2> QED  BY <2>1, <2>2, <2>3, BeginsKeeps
<1>2. GrokPresent \subseteq GrokPresent'
  BY DEF GrokPresent
<1>3. PollType'
  BY <1>2 DEF GrokInv, PollType, grokInside
<1>4. NotedKnown'
  BY DEF GrokInv, NotedKnown, grokInside, TurnsHeld, Turns
<1>5. GrokSeen' = GrokSeen /\ timelines' = timelines
  BY DEF grokInside, GrokSeen
<1> QED  BY <1>1, <1>3, <1>4, <1>5 DEF GrokInv

\* What is on disk stays there as the files grow.
LEMMA OnDiskIs == ASSUME DiskType PROVE TurnsOnDisk = OnDisk(whole, shown)
<1>1. TurnsOnDisk = FoundIn(whole, shown)
  BY DEF TurnsOnDisk, GrokBytes, GrokPresent, FoundIn
<1>2. FoundIn(whole, shown) = OnDisk(whole, shown)
  BY FoundIs DEF DiskType
<1> QED  BY <1>1, <1>2

\* While no file shrinks, no turn leaves the disk.
LEMMA StillOnDisk ==
    ASSUME GrokInv, DiskType',
           \A f \in Path : whole[f] # Gone => /\ whole'[f] # Gone /\ Begins(whole[f], whole'[f])
                                             /\ shown[f] <= shown'[f]
    PROVE  TurnsOnDisk \subseteq TurnsOnDisk'
<1>1. TurnsOnDisk = OnDisk(whole, shown)
  BY OnDiskIs DEF GrokInv
<1>2. TurnsOnDisk' = OnDisk(whole', shown')
  <2>1. TurnsOnDisk' = FoundIn(whole', shown')
    BY DEF TurnsOnDisk, GrokBytes, GrokPresent, FoundIn
  <2>2. FoundIn(whole', shown') = OnDisk(whole', shown')
    BY FoundIs DEF DiskType
  <2> QED  BY <2>1, <2>2
<1>3. OnDisk(whole, shown) \subseteq OnDisk(whole', shown')
  <2> SUFFICES ASSUME NEW l \in OnDisk(whole, shown) PROVE l \in OnDisk(whole', shown')
    OBVIOUS
  <2> DEFINE s == l.session
  <2>1. l \in GrokLine /\ l.kind = "turn" /\ whole[s] # Gone
    BY DEF OnDisk
  <2>2. PICK i \in 1 .. shown[s] - 1 : whole[s][i] = l /\ whole[s][i + 1] = NL
    BY DEF OnDisk
  <2>3. s \in Path
    BY <2>1, GrokAssumption DEF GrokAssumption, Path
  <2> HIDE DEF s
  <2>4. /\ whole'[s] # Gone /\ Begins(whole[s], whole'[s])
        /\ shown[s] <= Len(whole[s]) /\ Len(whole[s]) \in Nat
        /\ shown[s] \in Nat /\ shown'[s] \in Nat /\ shown[s] <= shown'[s]
    <3>1. whole[s] \in Seq(LinesOf(s) \cup {NL}) /\ shown[s] <= Len(whole[s])
      BY <2>1, <2>3 DEF GrokInv, DiskType
    <3> QED  BY <2>1, <2>3, <3>1 DEF GrokInv, DiskType
  <2>5. i \in 1 .. Len(whole[s]) /\ i + 1 \in 1 .. Len(whole[s]) /\ i \in 1 .. shown'[s] - 1
    BY <2>2, <2>4
  <2>6. whole'[s][i] = l /\ whole'[s][i + 1] = NL
    BY <2>2, <2>4, <2>5 DEF Begins
  <2> QED  BY <2>1, <2>4, <2>5, <2>6 DEF OnDisk, s
<1> QED  BY <1>1, <1>2, <1>3

\* Bytes behind what is there.
LEMMA PutKeeps ==
    ASSUME GrokInv, written' \in [Session -> Nat], NEW f \in Path, IsShown(f), NEW bytes \in Seq(LinesOf(f) \cup {NL}),
           bytes # <<>>, Clear(bytes), AtLineEnd(f) \/ bytes[1] = NL, Put(f, bytes)
    PROVE  GrokInv'
<1> DEFINE before == IF whole[f] = Gone THEN <<>> ELSE whole[f]
           text == before \o bytes
<1>1. /\ whole' = [whole EXCEPT ![f] = text]
      /\ shown' = [shown EXCEPT ![f] = @ + Len(bytes)]
      /\ UNCHANGED <<grokInside, noted>>
  BY DEF Put
<1>2. /\ before \in Seq(LinesOf(f) \cup {NL}) /\ Clear(before)
      /\ shown[f] = Len(before) /\ Len(before) \in Nat
      /\ before # <<>> => before[Len(before)] = NL \/ bytes[1] = NL
  <2>1. CASE whole[f] = Gone
    <3>1. Len(<<>>) = 0 /\ <<>> \in Seq(LinesOf(f) \cup {NL})
      OBVIOUS
    <3> QED  BY <2>1, <3>1 DEF GrokInv, DiskType, Clear
  <2>2. CASE whole[f] # Gone
    <3>1. before = whole[f]
      BY <2>2
    <3>2. whole[f] \in Seq(LinesOf(f) \cup {NL}) /\ Clear(whole[f])
      BY <2>2 DEF GrokInv, DiskType
    <3>3. shown[f] = Len(whole[f])
      BY <2>2 DEF IsShown
    <3>4. whole[f][Len(whole[f])] = NL \/ bytes[1] = NL
      BY <2>2 DEF AtLineEnd, Last
    <3> QED  BY <3>1, <3>2, <3>3, <3>4
  <2> QED  BY <2>1, <2>2
<1> DEFINE N == Len(before)
           M == Len(bytes)
<1>3. /\ text \in Seq(LinesOf(f) \cup {NL}) /\ Len(text) = N + M
      /\ \A i \in 1 .. N : text[i] = before[i]
      /\ \A i \in 1 .. M : text[N + i] = bytes[i]
  BY <1>2, ConcatIs
<1>4. N \in Nat /\ M \in Nat \ {0}
  BY <1>2
<1> HIDE DEF text
<1>5. Clear(text)
  <2> SUFFICES ASSUME NEW i \in 1 .. (N + M) - 1, text[i] # NL PROVE text[i + 1] = NL
    BY <1>3 DEF Clear
  <2> HIDE DEF before
  <2>1. CASE i < N
    <3>1. i \in 1 .. N /\ i + 1 \in 1 .. N /\ i \in 1 .. N - 1
      BY <1>4, <2>1
    <3> QED  BY <1>2, <1>3, <3>1 DEF Clear
  <2>2. CASE i = N
    <3>1. i \in 1 .. N /\ 1 \in 1 .. M /\ N > 0
      BY <1>4, <2>2
    <3>2. text[i] = before[i] /\ text[N + 1] = bytes[1]
      BY <1>3, <3>1
    <3>3. before # <<>>
      BY <3>1
    <3> QED  BY <1>2, <2>2, <3>2, <3>3
  <2>3. CASE i > N
    <3> DEFINE j == i - N
    <3>1. j \in 1 .. M - 1 /\ j \in 1 .. M /\ j + 1 \in 1 .. M /\ N + j = i /\ N + (j + 1) = i + 1
      BY <1>4, <2>3
    <3> HIDE DEF j
    <3>2. text[i] = bytes[j] /\ text[i + 1] = bytes[j + 1]
      BY <1>3, <3>1
    <3> QED  BY <3>1, <3>2 DEF Clear
  <2> QED  BY <1>4, <2>1, <2>2, <2>3
<1>6. LinesOf(f) \subseteq GrokLine
  BY DEF LinesOf, Requests, Turns
<1>7. text \in GrokText
  BY <1>3, <1>6 DEF GrokText
<1>8. text # Gone
  BY <1>7, GrokAssumption DEF GrokAssumption
<1>9. shown[f] + M = Len(text) /\ shown[f] + M \in Nat
  BY <1>2, <1>3, <1>4
<1>10. /\ whole'[f] = text /\ shown'[f] = shown[f] + M
       /\ \A g \in Path : g # f => whole'[g] = whole[g] /\ shown'[g] = shown[g]
  BY <1>1 DEF GrokInv, DiskType
<1> HIDE DEF M, N, before
<1>11. DiskType'
  <2>1. whole' \in [Path -> GrokText \cup {Gone}] /\ shown' \in [Path -> Nat]
    BY <1>1, <1>7, <1>9 DEF GrokInv, DiskType, M
  <2>2. ASSUME NEW g \in Path
        PROVE  IF whole'[g] = Gone THEN shown'[g] = 0
               ELSE /\ whole'[g] \in Seq(LinesOf(g) \cup {NL}) /\ Clear(whole'[g])
                    /\ shown'[g] <= Len(whole'[g])
    <3>1. CASE g = f
      BY <1>3, <1>5, <1>8, <1>9, <1>10, <3>1
    <3>2. CASE g # f
      BY <1>10, <3>2 DEF GrokInv, DiskType
    <3> QED  BY <3>1, <3>2
  <2> QED  BY <2>1, <2>2 DEF DiskType
<1>12. ASSUME NEW g \in Path, whole[g] # Gone
       PROVE  /\ whole'[g] # Gone /\ Begins(whole[g], whole'[g])
              /\ shown[g] <= shown'[g]
  <2>0. whole[g] \in Seq(LinesOf(g) \cup {NL}) /\ shown[g] <= Len(whole[g])
        /\ shown[g] \in Nat /\ shown'[g] \in Nat
    BY <1>11, <1>12 DEF GrokInv, DiskType
  <2>1. CASE g = f
    <3>1. before = whole[g]
      BY <1>12, <2>1 DEF before
    <3> QED  BY <1>2, <1>3, <1>4, <1>8, <1>9, <1>10, <2>0, <2>1, <3>1 DEF Begins, M, N
  <2>2. CASE g # f
    <3>1. whole'[g] = whole[g] /\ shown'[g] = shown[g]
      BY <1>10, <2>2
    <3> QED  BY <1>12, <2>0, <3>1 DEF Begins
  <2> QED  BY <2>1, <2>2
<1>13. TurnsOnDisk \subseteq TurnsOnDisk'
  BY <1>11, <1>12, StillOnDisk
<1>16. noted' = noted /\ (grok_pc = "turns" => noted' \subseteq TurnsOnDisk')
  BY <1>1, <1>13 DEF GrokInv, NotedKnown
<1>17. UNCHANGED grokInside
  BY <1>1
<1> QED  BY <1>11, <1>12, <1>16, <1>17, GrownKeeps

----------------------------------------------------------------------------
(***************************************************************************)
(* The sessions, and the view.                                             *)
(***************************************************************************)
\* A line, with its newline or not yet.
LEMMA LineAndEnd ==
    ASSUME NEW S, NEW x \in S, NEW end \in {<<>>, <<NL>>}
    PROVE  /\ <<x>> \o end \in Seq(S \cup {NL}) /\ <<x>> \o end # <<>>
           /\ Clear(<<x>> \o end)
<1> DEFINE a == <<x>>
           nl == <<NL>>
           b == a \o nl
<1>1. a \in Seq(S \cup {NL}) /\ Len(a) = 1 /\ a # <<>> /\ a \o <<>> = a
  OBVIOUS
<1>2. b \in Seq(S \cup {NL}) /\ Len(b) = 2 /\ b # <<>> /\ b[2] = NL
  <2>1. nl \in Seq(S \cup {NL}) /\ Len(nl) = 1 /\ nl[1] = NL
    OBVIOUS
  <2> HIDE DEF a, nl
  <2>2. /\ b \in Seq(S \cup {NL}) /\ Len(b) = Len(a) + Len(nl)
        /\ \A i \in 1 .. Len(nl) : b[Len(a) + i] = nl[i]
    BY <1>1, <2>1, ConcatIs
  <2> HIDE DEF b
  <2>3. Len(b) = 2 /\ b[1 + 1] = NL
    BY <1>1, <2>1, <2>2
  <2>4. b[2] = NL
    <3>1. 1 + 1 = 2
      OBVIOUS
    <3> QED  BY <2>3, <3>1
  <2>5. b # <<>>
    BY <2>3
  <2> QED  BY <2>2, <2>3, <2>4, <2>5
<1> HIDE DEF a, b
<1>3. Clear(a)
  BY <1>1 DEF Clear
<1>4. Clear(b)
  <2>1. \A i \in 1 .. Len(b) - 1 : i + 1 = 2
    BY <1>2
  <2> QED  BY <1>2, <2>1 DEF Clear
<1>5. CASE end = <<>>
  BY <1>1, <1>3, <1>5 DEF a
<1>6. CASE end = <<NL>>
  BY <1>2, <1>4, <1>6 DEF a, b
<1> QED  BY <1>5, <1>6

\* The sessions' steps.
LEMMA WriteLineKeeps == ASSUME GrokInv, NEW s \in Session, WriteLine(s) PROVE GrokInv'
<1> DEFINE line == Script(s)[written[s] + 1]
           f == FileOf(line)
<1>1. PICK end \in {<<>>, <<NL>>} : Put(f, <<line>> \o end)
  BY DEF WriteLine
<1>2. line \in GrokLine /\ line.session = s /\ line.kind \in {"turn", "request"}
  <2>1. Script(s) \in Seq({l \in GrokLine : l.session = s})
    BY GrokAssumption DEF GrokAssumption
  <2>2. written[s] + 1 \in 1 .. Len(Script(s))
    <3>1. written[s] < Len(Script(s)) /\ Len(Script(s)) \in Nat
      BY <2>1 DEF WriteLine
    <3>2. written[s] \in Nat
      BY DEF GrokInv, DiskType
    <3> QED  BY <3>1, <3>2
  <2>3. line \in {l \in GrokLine : l.session = s}
    <3> DEFINE script == Script(s)
    <3>1. script \in Seq({l \in GrokLine : l.session = s}) /\ written[s] + 1 \in 1 .. Len(script)
      BY <2>1, <2>2
    <3> HIDE DEF script
    <3>2. script[written[s] + 1] \in {l \in GrokLine : l.session = s}
      BY <3>1
    <3> QED  BY <3>2 DEF script
  <2> QED  BY <2>3, GrokAssumption DEF GrokAssumption
<1>3. IsShown(f) /\ AtLineEnd(f)
  BY DEF WriteLine
<1> HIDE DEF line
<1>4. f \in Path /\ line \in LinesOf(f)
  BY <1>2, GrokAssumption DEF GrokAssumption, FileOf, Path, LinesOf, Turns, Requests
<1> HIDE DEF f
<1> DEFINE bytes == <<line>> \o end
<1>6. bytes \in Seq(LinesOf(f) \cup {NL}) /\ bytes # <<>> /\ Clear(bytes)
  BY <1>1, <1>4, LineAndEnd
<1> HIDE DEF bytes
<1>7. Put(f, bytes)
  BY <1>1 DEF bytes
<1>8. written' \in [Session -> Nat]
  <2>1. written' = [written EXCEPT ![s] = @ + 1] /\ written[s] \in Nat
    BY DEF WriteLine, GrokInv, DiskType
  <2> QED  BY <2>1 DEF GrokInv, DiskType
<1> QED  BY <1>3, <1>4, <1>6, <1>7, <1>8, PutKeeps

LEMMA WriteNewlineKeeps == ASSUME GrokInv, NEW f \in Path, WriteNewline(f) PROVE GrokInv'
<1>1. IsShown(f) /\ Put(f, <<NL>>)
  BY DEF WriteNewline
<1>2. <<NL>> \in Seq(LinesOf(f) \cup {NL}) /\ <<NL>> # <<>> /\ <<NL>>[1] = NL /\ Clear(<<NL>>)
  BY DEF Clear
<1>3. written' \in [Session -> Nat]
  BY DEF WriteNewline, GrokInv, DiskType
<1> QED  BY <1>1, <1>2, <1>3, PutKeeps

\* What is shown of a file.
LEMMA ShownKeeps ==
    ASSUME GrokInv, NEW f \in Path, whole[f] # Gone, NEW n \in 0 .. Len(whole[f]),
           shown' = [shown EXCEPT ![f] = n], UNCHANGED <<written, whole, grokInside>>,
           noted' \subseteq noted, grok_pc = "turns" => noted' \subseteq TurnsOnDisk'
    PROVE  GrokInv'
<1>1. DiskType'
  <2>1. whole[f] \in Seq(LinesOf(f) \cup {NL}) /\ n \in Nat /\ n <= Len(whole[f])
    BY DEF GrokInv, DiskType
  <2>2. whole' = whole /\ shown' \in [Path -> Nat] /\ written' = written
    BY <2>1 DEF GrokInv, DiskType
  <2>3. ASSUME NEW g \in Path
        PROVE  IF whole[g] = Gone THEN shown'[g] = 0
               ELSE /\ whole[g] \in Seq(LinesOf(g) \cup {NL}) /\ Clear(whole[g])
                    /\ shown'[g] <= Len(whole[g])
    <3>1. CASE g = f
      <4>1. shown'[g] = n
        BY <3>1 DEF GrokInv, DiskType
      <4> QED  BY <2>1, <3>1, <4>1 DEF GrokInv, DiskType
    <3>2. CASE g # f
      <4>1. shown'[g] = shown[g]
        BY <3>2 DEF GrokInv, DiskType
      <4> QED  BY <4>1 DEF GrokInv, DiskType
    <3> QED  BY <3>1, <3>2
  <2> QED  BY <2>2, <2>3 DEF GrokInv, DiskType
<1>2. ASSUME NEW g \in Path, whole[g] # Gone PROVE whole'[g] # Gone /\ Begins(whole[g], whole'[g])
  <2>1. Len(whole[g]) \in Nat
    BY <1>2 DEF GrokInv, DiskType
  <2> QED  BY <1>2, <2>1 DEF Begins
<1> QED  BY <1>1, <1>2, GrownKeeps

LEMMA CutShortKeeps == ASSUME GrokInv, NEW f \in Path, CutShort(f) PROVE GrokInv'
<1>1. /\ whole[f] # Gone /\ UNCHANGED <<written, whole, grokInside>>
      /\ noted' = IF grok_pc = "turns" THEN noted \cap TurnsOnDisk' ELSE noted
  BY DEF CutShort, GrokPresent
<1>2. PICK n \in 0 .. shown[f] - 1 : shown' = [shown EXCEPT ![f] = n]
  BY DEF CutShort
<1>3. n \in 0 .. Len(whole[f])
  <2>1. whole[f] \in Seq(LinesOf(f) \cup {NL}) /\ shown[f] <= Len(whole[f]) /\ shown[f] \in Nat
    BY <1>1 DEF GrokInv, DiskType
  <2>2. Len(whole[f]) \in Nat
    BY <2>1
  <2> QED  BY <2>1, <2>2
<1> QED  BY <1>1, <1>2, <1>3, ShownKeeps

LEMMA RestoreKeeps == ASSUME GrokInv, NEW f \in Path, Restore(f) PROVE GrokInv'
<1>1. /\ whole[f] # Gone /\ shown' = [shown EXCEPT ![f] = Len(whole[f])]
      /\ UNCHANGED <<written, whole, cuts, grokInside, noted>>
  BY DEF Restore, IsShown
<1>2. /\ Len(whole[f]) \in Nat /\ shown[f] <= Len(whole[f])
      /\ whole[f] \in Seq(LinesOf(f) \cup {NL})
  <2>1. whole[f] \in Seq(LinesOf(f) \cup {NL}) /\ shown[f] <= Len(whole[f])
    BY <1>1 DEF GrokInv, DiskType
  <2> QED  BY <2>1
<1>3. DiskType'
  <2>1. shown' \in [Path -> Nat]
    BY <1>1, <1>2 DEF GrokInv, DiskType
  <2>2. ASSUME NEW g \in Path
        PROVE  IF whole[g] = Gone THEN shown'[g] = 0
               ELSE /\ whole[g] \in Seq(LinesOf(g) \cup {NL}) /\ Clear(whole[g])
                    /\ shown'[g] <= Len(whole[g])
    <3>1. CASE g = f
      <4>1. shown'[g] = Len(whole[f])
        BY <1>1, <3>1 DEF GrokInv, DiskType
      <4> QED  BY <1>1, <1>2, <3>1, <4>1 DEF GrokInv, DiskType
    <3>2. CASE g # f
      <4>1. shown'[g] = shown[g]
        BY <1>1, <3>2 DEF GrokInv, DiskType
      <4> QED  BY <4>1 DEF GrokInv, DiskType
    <3> QED  BY <3>1, <3>2
  <2> QED  BY <1>1, <2>1, <2>2 DEF GrokInv, DiskType
<1>4. ASSUME NEW g \in Path, whole[g] # Gone
      PROVE  whole'[g] # Gone /\ Begins(whole[g], whole'[g]) /\ shown[g] <= shown'[g]
  <2>1. whole'[g] = whole[g] /\ Len(whole[g]) \in Nat /\ shown[g] \in Nat
        /\ shown'[g] = IF g = f THEN Len(whole[f]) ELSE shown[g]
    BY <1>1, <1>4 DEF GrokInv, DiskType
  <2>2. shown[g] <= shown'[g]
    BY <1>2, <2>1
  <2> QED  BY <1>4, <2>1, <2>2 DEF Begins
<1>5. TurnsOnDisk \subseteq TurnsOnDisk'
  BY <1>3, <1>4, StillOnDisk
<1>6. Len(whole[f]) \in 0 .. Len(whole[f])
  BY <1>2
<1>7. grok_pc = "turns" => noted' \subseteq TurnsOnDisk'
  BY <1>1, <1>5 DEF GrokInv, NotedKnown
<1> QED  BY <1>1, <1>6, <1>7, ShownKeeps

LEMMA SessionsKeep == ASSUME GrokInv, Sessions PROVE GrokInv'
  BY WriteLineKeeps, WriteNewlineKeeps, CutShortKeeps, RestoreKeeps DEF Sessions

\* A cursor that has come as far as what is shown has passed the turns on disk.
LEMMA ReachedKnows ==
    ASSUME NEW s \in Session, NEW text \in Seq(LinesOf(s) \cup {NL}),
           NEW cursor \in GrokCursors(LinesOf(s)), Fits(cursor, text),
           NEW turns, Knows(text, cursor.offset, turns),
           NEW n \in 0 .. Len(text), n <= Position(cursor),
           NEW l \in GrokLine, NEW i \in 1 .. n - 1, text[i] = l, text[i + 1] = NL
    PROVE  l \in turns
<1>1. Len(text) \in Nat /\ Position(cursor) \in Nat
  BY DEF GrokCursors, Position
<1>2. i \in 1 .. Len(text) - 1 /\ i + 1 <= Position(cursor)
  BY <1>1
<1>3. text[i] # NL
  BY GrokAssumption DEF GrokAssumption
<1> QED  BY <1>2, <1>3, BehindIs

\* The view's steps.
LEMMA GrokStartPollKeeps == ASSUME GrokInv, GrokStartPoll PROVE GrokInv'
<1>1. /\ grok_pc = "asleep" /\ grok_pc' = "turns" /\ grok_todo' = GrokPresent \ {Log}
      /\ noted' = TurnsOnDisk
      /\ UNCHANGED <<grokOutside, grok_cursors, timelines, seen, grok_accepted, grok_read>>
  BY DEF GrokStartPoll
<1>2. UNCHANGED <<written, whole, shown>>
  BY <1>1 DEF grokOutside
<1>3. DiskType' /\ CursorsKnow' /\ GrokSeen' = GrokSeen /\ GrokPresent' = GrokPresent
      /\ TurnsOnDisk' = TurnsOnDisk
  BY <1>1, <1>2 DEF GrokInv, DiskType, CursorsKnow, GrokSeen, GrokPresent, TurnsOnDisk, GrokBytes
<1>4. grok_read.file = None
  BY <1>1 DEF GrokInv, PollType
<1>5. PollType'
  BY <1>1, <1>2, <1>3, <1>4, GrokAssumption
     DEF GrokAssumption, GrokInv, PollType, GrokPresent, Path
<1>6. noted' \in SUBSET GrokLine /\ noted' = OnDisk(whole, shown)
  BY <1>1, OnDiskIs DEF GrokInv, OnDisk
<1>7. ASSUME NEW s \in Session, s \notin grok_todo' PROVE Turns(noted', s) = {}
  <2>1. whole[s] = Gone
    BY <1>1, <1>7, GrokAssumption DEF GrokAssumption, GrokPresent, Path
  <2> QED  BY <1>6, <2>1 DEF OnDisk, Turns
<1>8. NotedKnown'
  BY <1>1, <1>3, <1>6, <1>7 DEF NotedKnown
<1> QED  BY <1>1, <1>3, <1>5, <1>8 DEF GrokInv

LEMMA StartUsageKeeps == ASSUME GrokInv, StartUsage PROVE GrokInv'
<1>1. /\ grok_pc = "turns" /\ grok_todo = {} /\ grok_read = GrokNothingRead
      /\ grok_pc' = "requests" /\ grok_todo' = GrokPresent \cap {Log}
      /\ UNCHANGED <<grokOutside, grok_cursors, timelines, seen, grok_accepted, grok_read, noted>>
  BY DEF StartUsage
<1>2. UNCHANGED <<written, whole, shown>> /\ grok_read.file = None
  BY <1>1 DEF grokOutside, GrokNothingRead
<1>3. DiskType' /\ CursorsKnow' /\ GrokSeen' = GrokSeen /\ GrokPresent' = GrokPresent
  BY <1>1, <1>2 DEF GrokInv, DiskType, CursorsKnow, GrokSeen, GrokPresent
<1>4. PollType'
  BY <1>1, <1>2, <1>3 DEF GrokInv, PollType
<1>5. TurnsHeld(noted, timelines)
  <2> SUFFICES ASSUME NEW s \in Session PROVE Turns(noted, s) \subseteq ToSet(timelines[s])
    BY DEF TurnsHeld
  <2>1. s # None
    BY GrokAssumption DEF GrokAssumption, Path
  <2> QED  BY <1>1, <1>2, <2>1 DEF GrokInv, NotedKnown
<1>6. NotedKnown'
  BY <1>1, <1>5 DEF GrokInv, NotedKnown
<1> QED  BY <1>1, <1>3, <1>4, <1>6 DEF GrokInv

LEMMA GrokEndPollKeeps == ASSUME GrokInv, GrokEndPoll PROVE GrokInv'
<1>1. /\ grok_todo = {} /\ grok_read = GrokNothingRead /\ grok_pc' = "asleep"
      /\ UNCHANGED <<grokOutside, grok_cursors, timelines, seen, grok_accepted, grok_todo,
                     grok_read, noted>>
  BY DEF GrokEndPoll
<1>2. UNCHANGED <<written, whole, shown>> /\ grok_read.file = None
  BY <1>1 DEF grokOutside, GrokNothingRead
<1>3. DiskType' /\ CursorsKnow' /\ GrokSeen' = GrokSeen /\ GrokPresent' = GrokPresent
  BY <1>1, <1>2 DEF GrokInv, DiskType, CursorsKnow, GrokSeen, GrokPresent
<1>4. PollType'
  BY <1>1, <1>2, <1>3 DEF GrokInv, PollType
<1>5. NotedKnown'
  BY <1>1 DEF GrokInv, NotedKnown
<1> QED  BY <1>1, <1>3, <1>4, <1>5 DEF GrokInv

LEMMA GrokStatFileKeeps == ASSUME GrokInv, GrokStatFile PROVE GrokInv'
<1>1. PICK f \in grok_todo :
         grok_todo' = grok_todo \ {f} /\ grok_read' = [file |-> f, size |-> shown[f]]
  BY DEF GrokStatFile
<1>2. /\ grok_pc \in {"turns", "requests"} /\ grok_read = GrokNothingRead
      /\ UNCHANGED <<grokOutside, grok_cursors, timelines, seen, grok_accepted, grok_pc, noted>>
  BY DEF GrokStatFile
<1>3. UNCHANGED <<written, whole, shown>> /\ grok_read.file = None
  BY <1>2 DEF grokOutside, GrokNothingRead
<1>4. /\ DiskType' /\ CursorsKnow' /\ GrokSeen' = GrokSeen /\ GrokPresent' = GrokPresent
      /\ TurnsOnDisk' = TurnsOnDisk
  BY <1>2, <1>3 DEF GrokInv, DiskType, CursorsKnow, GrokSeen, GrokPresent, TurnsOnDisk, GrokBytes
<1>5. f \in Path /\ whole[f] # Gone /\ shown[f] \in Nat
  BY DEF GrokInv, PollType, GrokPresent, DiskType
<1>6. PollType'
  <2>1. grok_read' \in [file: Path \cup {None}, size: Nat] /\ grok_read'.file = f
    BY <1>1, <1>5
  <2>2. grok_pc = "turns" => f # Log
    BY GrokAssumption DEF GrokAssumption, GrokInv, PollType
  <2>3. grok_pc = "requests" => f = Log
    BY DEF GrokInv, PollType
  <2> QED  BY <1>1, <1>2, <1>3, <1>4, <1>5, <2>1, <2>2, <2>3 DEF GrokInv, PollType
<1>7. ASSUME grok_pc = "turns", NEW s \in Session, s \notin grok_todo',
             grok_read'.file = s => /\ grok_cursors[s] # Gone
                                    /\ grok_read'.size = Position(grok_cursors[s])
      PROVE  Turns(noted, s) \subseteq ToSet(timelines[s])
  <2>1. CASE s = f
    <3>1. grok_cursors[s] # Gone /\ shown[s] = Position(grok_cursors[s])
      BY <1>1, <1>7, <2>1
    <3>2. s \in Path /\ s # Log
      BY GrokAssumption DEF GrokAssumption, Path
    <3>3. /\ whole[s] \in Seq(LinesOf(s) \cup {NL}) /\ shown[s] \in 0 .. Len(whole[s])
          /\ grok_cursors[s] \in GrokCursors(LinesOf(s)) /\ Fits(grok_cursors[s], whole[s])
          /\ Knows(whole[s], grok_cursors[s].offset, ToSet(timelines[s]))
          /\ shown[s] <= Position(grok_cursors[s])
      <4>1. /\ whole[s] # Gone /\ grok_cursors[s] \in GrokCursors(LinesOf(s))
            /\ Fits(grok_cursors[s], whole[s])
            /\ Knows(whole[s], grok_cursors[s].offset, ToSet(timelines[s]))
        BY <3>1, <3>2 DEF GrokInv, CursorsKnow
      <4>2. whole[s] \in Seq(LinesOf(s) \cup {NL}) /\ shown[s] <= Len(whole[s])
        BY <3>2, <4>1 DEF GrokInv, DiskType
      <4>3. Len(whole[s]) \in Nat /\ shown[s] \in Nat
        BY <3>2, <4>2 DEF GrokInv, DiskType
      <4>4. shown[s] \in 0 .. Len(whole[s]) /\ shown[s] <= Position(grok_cursors[s])
        BY <3>1, <4>2, <4>3
      <4> QED  BY <4>1, <4>2, <4>4
    <3>4. noted \subseteq OnDisk(whole, shown)
      BY <1>7, OnDiskIs DEF GrokInv, NotedKnown
    <3>5. ASSUME NEW l \in Turns(noted, s) PROVE l \in ToSet(timelines[s])
      <4>1. l \in OnDisk(whole, shown) /\ l.session = s /\ l \in GrokLine
        BY <3>4 DEF Turns, OnDisk
      <4>2. PICK i \in 1 .. shown[s] - 1 : whole[s][i] = l /\ whole[s][i + 1] = NL
        BY <4>1 DEF OnDisk
      <4> QED  BY <3>3, <4>1, <4>2, ReachedKnows
    <3> QED  BY <3>5
  <2>2. CASE s # f
    <3>1. s \notin grok_todo /\ s # None
      BY <1>1, <1>7, <2>2, GrokAssumption DEF GrokAssumption, Path
    <3> QED  BY <1>3, <1>7, <3>1 DEF GrokInv, NotedKnown
  <2> QED  BY <2>1, <2>2
<1>8. NotedKnown'
  BY <1>2, <1>4, <1>7 DEF GrokInv, NotedKnown
<1> QED  BY <1>2, <1>4, <1>6, <1>8 DEF GrokInv

LEMMA GrokInitial == GrokInit => GrokInv
<1> SUFFICES ASSUME GrokInit PROVE GrokInv
  OBVIOUS
<1>1. DiskType
  BY DEF GrokInit, DiskType
<1>2. CursorsKnow
  <2>1. \A s \in Session : timelines[s] = <<>>
    BY DEF GrokInit
  <2>2. <<>> \in Seq(GrokLine) /\ \A s : <<>> \in Seq(Turns(GrokLine, s))
    OBVIOUS
  <2>3. Timed(<<>>)
    BY DEF Timed
  <2>4. TimelinesType(timelines)
    BY <2>1, <2>2, <2>3 DEF GrokInit, TimelinesType
  <2> QED  BY <2>4 DEF GrokInit, CursorsKnow
<1>3. grok_read \in [file: Path \cup {None}, size: Nat] /\ grok_read.file = None
  BY DEF GrokInit, GrokNothingRead
<1>4. PollType
  BY <1>3, GrokAssumption DEF GrokAssumption, GrokInit, PollType
<1>5. NotedKnown
  BY DEF GrokInit, NotedKnown
<1>6. GrokSeen = [seen |-> {}, accepted |-> <<>>]
  BY DEF GrokInit, GrokSeen
<1>7. GrokSeen \in GrokViews /\ StreamedRight(GrokSeen, timelines)
  BY <1>6 DEF GrokViews, StreamedRight
<1> QED  BY <1>1, <1>2, <1>4, <1>5, <1>7 DEF GrokInv

\* A file is read to where it ends, from where its cursor stood or from the start.
LEMMA GrokFeedKeeps ==
    ASSUME GrokInv, NEW f \in Path, grok_read.file = f,
           NEW cursor \in GrokCursors(LinesOf(f)), Fits(cursor, whole[f]),
           f # Log => Knows(whole[f], cursor.offset, ToSet(timelines[f])),
           NEW n \in Position(cursor) .. Len(whole[f]), n >= shown[f],
           NEW bytes, bytes = SubSeq(whole[f], Position(cursor) + 1, n),
           GrokFeedBytes(f, cursor, bytes),
           grok_read' = GrokNothingRead, UNCHANGED <<grokOutside, grok_todo, grok_pc, noted>>
    PROVE  GrokInv'
<1> DEFINE S == LinesOf(f)
           text == whole[f]
           fed == Fed(cursor, bytes)
<1>1. /\ whole[f] # Gone /\ text \in Seq(S \cup {NL}) /\ Clear(text)
      /\ shown[f] \in 0 .. Len(text) /\ n \in 0 .. Len(text) /\ Len(text) \in Nat
  <2>1. whole[f] # Gone
    BY DEF GrokInv, PollType
  <2>2. text \in Seq(S \cup {NL}) /\ Clear(text) /\ shown[f] <= Len(text) /\ shown[f] \in Nat
    BY <2>1 DEF GrokInv, DiskType
  <2>3. Len(text) \in Nat
    BY <2>2
  <2>4. Position(cursor) \in Nat
    BY DEF Position, GrokCursors
  <2> QED  BY <2>1, <2>2, <2>3, <2>4
<1>2. /\ fed \in GrokCursors(S) /\ Fits(fed, text) /\ Position(fed) = n
      /\ LinesFed(cursor, bytes) \in Seq(Seq(S))
  <2>1. /\ cursor \in GrokCursors(S) /\ Fits(cursor, text)
        /\ n \in Position(cursor) .. Len(text)
        /\ bytes = SubSeq(text, Position(cursor) + 1, n)
        /\ text \in Seq(S \cup {NL}) /\ Clear(text)
    BY <1>1
  <2> HIDE DEF S, text, fed
  <2>2. LET b == SubSeq(text, Position(cursor) + 1, n) IN
        /\ Fed(cursor, b) \in GrokCursors(S) /\ Fits(Fed(cursor, b), text)
        /\ Position(Fed(cursor, b)) = n /\ LinesFed(cursor, b) \in Seq(Seq(S))
    BY <2>1, FedFits
  <2> QED  BY <2>1, <2>2 DEF fed
<1>3. /\ UNCHANGED <<written, whole, shown, grok_todo, grok_pc, noted>>
      /\ grok_cursors' = [grok_cursors EXCEPT ![f] = fed]
  BY DEF grokOutside, GrokFeedBytes
<1> HIDE DEF fed
<1>4. /\ DiskType' /\ GrokPresent' = GrokPresent /\ TurnsOnDisk' = TurnsOnDisk
      /\ grok_read'.file = None
  BY <1>3 DEF GrokInv, DiskType, GrokPresent, TurnsOnDisk, GrokBytes, GrokNothingRead
<1>5. PollType'
  <2>1. GrokNothingRead \in [file: Path \cup {None}, size: Nat] /\ None # Log /\ None \notin Path
    BY GrokAssumption DEF GrokAssumption, GrokNothingRead, Path
  <2> QED  BY <1>3, <1>4, <2>1 DEF GrokInv, PollType
<1>6. /\ grok_cursors' \in [Path -> GrokCursors(GrokLine) \cup {Gone}]
      /\ grok_cursors'[f] = fed
      /\ \A g \in Path : g # f => grok_cursors'[g] = grok_cursors[g]
  <2>1. S \subseteq GrokLine
    BY DEF LinesOf, Requests, Turns
  <2>2. fed \in GrokCursors(GrokLine)
    BY <1>2, <2>1 DEF GrokCursors
  <2> QED  BY <1>3, <2>2 DEF GrokInv, CursorsKnow
<1>7. \A g \in Path : grok_cursors'[g] # Gone =>
         /\ whole[g] # Gone /\ grok_cursors'[g] \in GrokCursors(LinesOf(g))
         /\ Fits(grok_cursors'[g], whole[g])
  <2> SUFFICES ASSUME NEW g \in Path, grok_cursors'[g] # Gone
               PROVE  /\ whole[g] # Gone /\ grok_cursors'[g] \in GrokCursors(LinesOf(g))
                      /\ Fits(grok_cursors'[g], whole[g])
    OBVIOUS
  <2>1. CASE g = f
    BY <1>1, <1>2, <1>6, <2>1
  <2>2. CASE g # f
    BY <1>6, <2>2 DEF GrokInv, CursorsKnow
  <2> QED  BY <2>1, <2>2
<1>8. CASE f = Log
  <2>1. grok_pc = "requests"
    BY <1>8, GrokAssumption DEF GrokAssumption, GrokInv, PollType, Path
  <2>2. \A l \in S : l.kind = "request"
    BY <1>8 DEF LinesOf, Requests
  <2> DEFINE requests == Said(cursor, bytes, "request")
             usages == [i \in DOMAIN requests |-> UsageOf(requests[i])]
             view == Folded(AcceptUsage, GrokSeen, usages)
  <2>3. requests \in Seq(Requests)
    <3>1. requests \in Seq(S)
      BY <1>2, <2>2, SaidIs
    <3> QED  BY <1>8, <3>1 DEF LinesOf
  <2>4. timelines' = timelines /\ seen' = view.seen /\ grok_accepted' = view.accepted
    BY <1>8 DEF GrokFeedBytes, GrokSeen
  <2> HIDE DEF requests
  <2>5. view \in GrokViews /\ StreamedRight(view, timelines)
    <3>1. /\ TimelinesType(timelines) /\ noted \in SUBSET GrokLine /\ TurnsHeld(noted, timelines)
          /\ GrokSeen \in GrokViews /\ StreamedRight(GrokSeen, timelines)
      BY <2>1 DEF GrokInv, CursorsKnow, NotedKnown
    <3> HIDE DEF usages
    <3>2. usages = [i \in DOMAIN requests |-> UsageOf(requests[i])]
      BY DEF usages
    <3> QED  BY <2>3, <3>1, <3>2, AcceptedIs
  <2> HIDE DEF view
  <2>6. GrokSeen' = view
    BY <2>4, <2>5 DEF GrokSeen, GrokViews
  <2>7. CursorsKnow'
    <3>1. \A g \in Path : g # Log => grok_cursors'[g] = grok_cursors[g]
      BY <1>6, <1>8
    <3> QED  BY <1>3, <1>6, <1>7, <2>4, <3>1 DEF GrokInv, CursorsKnow
  <2>8. NotedKnown'
    BY <1>3, <2>1, <2>4 DEF GrokInv, NotedKnown
  <2> QED  BY <1>4, <1>5, <2>4, <2>5, <2>6, <2>7, <2>8 DEF GrokInv
<1>9. CASE f # Log
  <2>1. f \in Session /\ S = Turns(GrokLine, f) /\ grok_pc = "turns"
    BY <1>9, GrokAssumption DEF GrokAssumption, GrokInv, PollType, Path, LinesOf
  <2> DEFINE q == timelines[f]
             r == Folded(RecordModelEvent, q, Said(cursor, bytes, "turn"))
  <2>2. timelines' = [timelines EXCEPT ![f] = r] /\ GrokSeen' = GrokSeen
    BY <1>9 DEF GrokFeedBytes, GrokSeen
  <2>3. /\ \A l \in S : l.at \in Nat /\ l.kind = "turn"
        /\ NL \notin S
        /\ q \in Seq(S) /\ Timed(q) /\ Knows(text, cursor.offset, ToSet(q))
        /\ timelines \in [Session -> Seq(GrokLine)]
    BY <1>9, <2>1, GrokAssumption
       DEF GrokAssumption, Turns, GrokInv, CursorsKnow, TimelinesType
  <2> HIDE DEF r, q, S
  <2>4. /\ r \in Seq(S) /\ Timed(r) /\ ToSet(q) \subseteq ToSet(r)
        /\ Knows(text, fed.offset, ToSet(r))
    <3>1. /\ cursor \in GrokCursors(S) /\ Fits(cursor, text)
          /\ n \in Position(cursor) .. Len(text)
          /\ bytes = SubSeq(text, Position(cursor) + 1, n)
          /\ text \in Seq(S \cup {NL}) /\ Clear(text)
      BY <1>1 DEF S
    <3>2. r = Folded(RecordModelEvent, q, Said(cursor, bytes, "turn"))
      BY DEF r
    <3> HIDE DEF text, fed
    <3>3. LET b == SubSeq(text, Position(cursor) + 1, n)
              x == Folded(RecordModelEvent, q, Said(cursor, b, "turn"))
          IN  /\ x \in Seq(S) /\ Timed(x) /\ ToSet(q) \subseteq ToSet(x)
              /\ Knows(text, Fed(cursor, b).offset, ToSet(x))
      BY <2>3, <3>1, FedKnows
    <3> QED  BY <3>1, <3>2, <3>3 DEF fed
  <2>5. /\ timelines'[f] = r /\ timelines' \in [Session -> Seq(GrokLine)]
        /\ \A s \in Session : s # f => timelines'[s] = timelines[s]
    <3>1. r \in Seq(GrokLine)
      BY <2>1, <2>4 DEF Turns
    <3> QED  BY <2>1, <2>2, <2>3, <3>1
  <2>6. TimelinesType(timelines')
    <3> SUFFICES ASSUME NEW s \in Session
                 PROVE  timelines'[s] \in Seq(Turns(GrokLine, s)) /\ Timed(timelines'[s])
      BY <2>5 DEF TimelinesType
    <3>1. CASE s = f
      BY <2>1, <2>4, <2>5, <3>1
    <3>2. CASE s # f
      BY <2>5, <3>2 DEF GrokInv, CursorsKnow, TimelinesType
    <3> QED  BY <3>1, <3>2
  <2>7. \A s \in Session : ToSet(timelines[s]) \subseteq ToSet(timelines'[s])
    <3> SUFFICES ASSUME NEW s \in Session PROVE ToSet(timelines[s]) \subseteq ToSet(timelines'[s])
      OBVIOUS
    <3>1. CASE s = f
      BY <2>4, <2>5, <3>1 DEF q
    <3>2. CASE s # f
      BY <2>5, <3>2
    <3> QED  BY <3>1, <3>2
  <2>8. CursorsKnow'
    <3>1. ASSUME NEW g \in Path, grok_cursors'[g] # Gone, g # Log
          PROVE  Knows(whole[g], grok_cursors'[g].offset, ToSet(timelines'[g]))
      <4>1. CASE g = f
        BY <1>6, <2>4, <2>5, <4>1
      <4>2. CASE g # f
        <5>1. g \in Session /\ timelines'[g] = timelines[g] /\ grok_cursors'[g] = grok_cursors[g]
          BY <1>6, <2>5, <3>1, <4>2 DEF Path
        <5> QED  BY <3>1, <5>1 DEF GrokInv, CursorsKnow
      <4> QED  BY <4>1, <4>2
    <3> QED  BY <1>3, <1>6, <1>7, <2>6, <3>1 DEF CursorsKnow
  <2>9. StreamedRight(GrokSeen, timelines')
    <3>1. \A turns : TurnsHeld(turns, timelines) => TurnsHeld(turns, timelines')
      BY <2>7 DEF TurnsHeld
    <3> QED  BY <3>1 DEF GrokInv, StreamedRight
  <2>10. Turns(noted, f) \subseteq ToSet(r)
    <3> SUFFICES ASSUME NEW l \in Turns(noted, f) PROVE l \in ToSet(r)
      OBVIOUS
    <3>1. l \in OnDisk(whole, shown) /\ l.session = f /\ l \in GrokLine
      BY <2>1, OnDiskIs DEF GrokInv, NotedKnown, Turns
    <3>2. PICK i \in 1 .. shown[f] - 1 : text[i] = l /\ text[i + 1] = NL
      BY <3>1 DEF OnDisk
    <3>3. i \in 1 .. n - 1 /\ n <= Position(fed)
      BY <1>1, <1>2
    <3>4. text \in Seq(LinesOf(f) \cup {NL}) /\ fed \in GrokCursors(LinesOf(f))
      BY <1>1, <1>2 DEF S
    <3> HIDE DEF text
    <3> QED  BY <1>1, <1>2, <2>1, <2>4, <3>1, <3>2, <3>3, <3>4, ReachedKnows
  <2>11. NotedKnown'
    <3>1. ASSUME NEW s \in Session, s \notin grok_todo
          PROVE  Turns(noted, s) \subseteq ToSet(timelines'[s])
      <4>1. CASE s = f
        BY <2>5, <2>10, <4>1
      <4>2. CASE s # f
        <5>1. Turns(noted, s) \subseteq ToSet(timelines[s])
          BY <2>1, <3>1, <4>2 DEF GrokInv, NotedKnown
        <5> QED  BY <2>7, <5>1
      <4> QED  BY <4>1, <4>2
    <3> QED  BY <1>3, <1>4, <2>1, <3>1 DEF GrokInv, NotedKnown
  <2> QED  BY <1>4, <1>5, <2>2, <2>8, <2>9, <2>11 DEF GrokInv
<1> QED  BY <1>8, <1>9

LEMMA PollFileKeeps == ASSUME GrokInv, PollFile PROVE GrokInv'
<1> DEFINE f == grok_read.file
           cursor == grok_cursors[f]
           text == whole[f]
<1>1. /\ grok_read # GrokNothingRead /\ grok_read' = GrokNothingRead
      /\ UNCHANGED <<grokOutside, grok_todo, grok_pc, noted>>
  BY DEF PollFile
<1>2. f \in Path /\ whole[f] # Gone
  BY <1>1 DEF GrokInv, PollType
<1>3. /\ text \in Seq(LinesOf(f) \cup {NL}) /\ shown[f] \in 0 .. Len(text) /\ Len(text) \in Nat
      /\ GrokBytes(f) = SubSeq(text, 1, shown[f])
  <2>1. text \in Seq(LinesOf(f) \cup {NL}) /\ shown[f] <= Len(text) /\ shown[f] \in Nat
    BY <1>2 DEF GrokInv, DiskType
  <2> QED  BY <2>1 DEF GrokBytes
<1>4. grok_read.size \in Nat
  BY DEF GrokInv, PollType
<1>5. cursor # Gone =>
         /\ cursor \in GrokCursors(LinesOf(f)) /\ Fits(cursor, text)
         /\ f # Log => Knows(text, cursor.offset, ToSet(timelines[f]))
         /\ Position(cursor) \in 0 .. Len(text)
  <2> SUFFICES ASSUME cursor # Gone
               PROVE  /\ cursor \in GrokCursors(LinesOf(f)) /\ Fits(cursor, text)
                      /\ f # Log => Knows(text, cursor.offset, ToSet(timelines[f]))
                      /\ Position(cursor) \in 0 .. Len(text)
    OBVIOUS
  <2>1. /\ cursor \in GrokCursors(LinesOf(f)) /\ Fits(cursor, text)
        /\ f # Log => Knows(text, cursor.offset, ToSet(timelines[f]))
    BY <1>2 DEF GrokInv, CursorsKnow
  <2>2. Position(cursor) \in Nat /\ Position(cursor) <= Len(text)
    BY <2>1 DEF GrokCursors, Position, Fits
  <2> QED  BY <1>3, <2>1, <2>2
<1>6. ASSUME GrokFeedBytes(f, Fresh, GrokBytes(f)) PROVE GrokInv'
  <2>1. Fresh \in GrokCursors(LinesOf(f)) /\ Position(Fresh) = 0
    BY DEF Fresh, GrokCursors, Position
  <2>2. Fits(Fresh, text)
    BY <1>3, <2>1 DEF Fresh, Fits
  <2>3. Knows(text, Fresh.offset, ToSet(timelines[f]))
    BY DEF Fresh, Knows
  <2> DEFINE n == shown[f]
  <2>4. n \in Position(Fresh) .. Len(text) /\ n >= shown[f]
    BY <1>3, <2>1
  <2>5. GrokBytes(f) = SubSeq(text, Position(Fresh) + 1, n)
    <3>1. Position(Fresh) + 1 = 1
      BY <2>1
    <3> QED  BY <1>3, <3>1
  <2> HIDE DEF n, f
  <2> QED  BY <1>1, <1>2, <1>6, <2>1, <2>2, <2>3, <2>4, <2>5, GrokFeedKeeps DEF f
<1>7. ASSUME cursor # Gone,
             GrokFeedBytes(f, cursor, ReadAppended(GrokBytes(f), Position(cursor)))
      PROVE  GrokInv'
  <2>1. PICK n \in Position(cursor) .. Len(text) :
           /\ n >= shown[f]
           /\ ReadAppended(GrokBytes(f), Position(cursor)) = SubSeq(text, Position(cursor) + 1, n)
    BY <1>3, <1>5, <1>7, AppendedIs
  <2> HIDE DEF cursor, f
  <2> QED  BY <1>1, <1>2, <1>5, <1>7, <2>1, GrokFeedKeeps DEF f
<1>8. ASSUME cursor # Gone, grok_read.size = Position(cursor),
             UNCHANGED <<grok_cursors, timelines, seen, grok_accepted>>
      PROVE  GrokInv'
  <2>1. UNCHANGED <<written, whole, shown, noted, grok_todo, grok_pc>> /\ grok_read'.file = None
    BY <1>1 DEF grokOutside, GrokNothingRead
  <2>2. /\ DiskType' /\ CursorsKnow' /\ GrokSeen' = GrokSeen /\ GrokPresent' = GrokPresent
        /\ TurnsOnDisk' = TurnsOnDisk
    BY <1>8, <2>1
       DEF GrokInv, DiskType, CursorsKnow, GrokSeen, GrokPresent, TurnsOnDisk, GrokBytes
  <2>3. PollType'
    <3>1. GrokNothingRead \in [file: Path \cup {None}, size: Nat] /\ None # Log /\ None \notin Path
      BY GrokAssumption DEF GrokAssumption, GrokNothingRead, Path
    <3> QED  BY <1>1, <2>1, <2>2, <3>1 DEF GrokInv, PollType
  <2>4. NotedKnown'
    BY <1>8, <2>1, <2>2 DEF GrokInv, NotedKnown
  <2> QED  BY <1>8, <2>2, <2>3, <2>4 DEF GrokInv
<1>9. \/ GrokFeedBytes(f, Fresh, GrokBytes(f))
      \/ /\ cursor # Gone
         /\ GrokFeedBytes(f, cursor, ReadAppended(GrokBytes(f), Position(cursor)))
      \/ /\ cursor # Gone
         /\ ~(grok_read.size < Position(cursor)) /\ ~(grok_read.size > Position(cursor))
         /\ UNCHANGED <<grok_cursors, timelines, seen, grok_accepted>>
  BY DEF PollFile
<1>10. ASSUME cursor # Gone,
              ~(grok_read.size < Position(cursor)), ~(grok_read.size > Position(cursor))
       PROVE  grok_read.size = Position(cursor)
  <2>1. Position(cursor) \in Nat
    BY <1>3, <1>5, <1>10
  <2> HIDE DEF cursor
  <2> QED  BY <1>4, <1>10, <2>1
<1> HIDE DEF f, cursor
<1> QED  BY <1>6, <1>7, <1>8, <1>9, <1>10

LEMMA GrokStep == GrokInv /\ [GrokNext]_grokVars => GrokInv'
<1> SUFFICES ASSUME GrokInv, [GrokNext]_grokVars PROVE GrokInv'
  OBVIOUS
<1>1. CASE UNCHANGED grokVars
  <2>1. UNCHANGED <<written, whole, shown, grok_cursors, timelines, seen, grok_accepted,
                    grok_todo, grok_pc, grok_read, noted>>
    BY <1>1 DEF grokVars, grokOutside, grokInside
  <2>2. /\ DiskType' /\ CursorsKnow' /\ GrokSeen' = GrokSeen /\ GrokPresent' = GrokPresent
        /\ TurnsOnDisk' = TurnsOnDisk
    BY <2>1 DEF GrokInv, DiskType, CursorsKnow, GrokSeen, GrokPresent, TurnsOnDisk, GrokBytes
  <2> QED  BY <2>1, <2>2 DEF GrokInv, PollType, NotedKnown
<1> QED  BY <1>1, SessionsKeep, GrokStartPollKeeps, StartUsageKeeps, GrokStatFileKeeps,
            PollFileKeeps, GrokEndPollKeeps DEF GrokNext, GrokView

LEMMA GrokInvariance == GrokSpec => []GrokInv
  BY GrokInitial, GrokStep, PTL DEF GrokSpec

\* A request is streamed with the model of the last turn that was on disk when the pass began, or
\* of a later turn: reading the turns before the requests is enough, whatever is written, cut short
\* or restored meanwhile (run_live, TurnTimeline::model_at).
THEOREM ModelKnownInTime == GrokSpec => []ModelInTime
<1>1. GrokInv => ModelInTime
  BY DEF GrokInv, StreamedRight, GrokSeen, ModelInTime
<1> QED  BY <1>1, GrokInvariance, PTL

\* A request of a log that is read again is streamed again only if its turns were not all on disk
\* the first time: the keys name the model, and it can change for no other reason (accept_usage).
THEOREM AgainOnlyOnNews == GrokSpec => []StreamedAgainOnNews
<1>1. GrokInv => StreamedAgainOnNews
  BY DEF GrokInv, StreamedRight, GrokSeen, StreamedAgainOnNews
<1> QED  BY <1>1, GrokInvariance, PTL

=============================================================================
