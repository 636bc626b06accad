---------------------------- MODULE SequenceFacts ----------------------------
(***************************************************************************)
(* What the proofs need of naturals and of the sequence operators the      *)
(* modules are built from.  Induction is stated over sets of naturals.     *)
(***************************************************************************)
EXTENDS Naturals, Sequences, SequencesExt, WellFoundedInduction, TLAPS

\* A function over 1 .. N with values in S is a sequence over S.
LEMMA SeqIs ==
    ASSUME NEW S, NEW N \in Nat, NEW f, f = [i \in 1 .. N |-> f[i]],
           \A i \in 1 .. N : f[i] \in S
    PROVE  f \in Seq(S)
  OBVIOUS

\* Head and tail of a non-empty sequence over S.
LEMMA HeadTailType ==
    ASSUME NEW S, NEW q \in Seq(S), q # <<>>
    PROVE  Head(q) \in S /\ Tail(q) \in Seq(S)
  OBVIOUS

\* Elements of one sequence after another.
LEMMA ConcatIs ==
    ASSUME NEW S, NEW a \in Seq(S), NEW b \in Seq(S)
    PROVE  /\ Len(a \o b) = Len(a) + Len(b)
           /\ \A i \in 1 .. Len(a) : (a \o b)[i] = a[i]
           /\ \A i \in 1 .. Len(b) : (a \o b)[Len(a) + i] = b[i]
  OBVIOUS

\* The elements of a sequence from behind the m-th up to the k-th.
LEMMA PartIs ==
    ASSUME NEW S, NEW q \in Seq(S), NEW m \in Nat, NEW k \in m .. Len(q)
    PROVE  /\ SubSeq(q, m + 1, k) \in Seq(S) /\ Len(SubSeq(q, m + 1, k)) = k - m
           /\ \A i \in 1 .. k - m : SubSeq(q, m + 1, k)[i] = q[m + i]
<1>1. /\ Len(q) \in Nat /\ k \in Nat /\ m <= k /\ k <= Len(q)
      /\ \A i \in m + 1 .. k : q[i] \in S
  OBVIOUS
<1> DEFINE p == SubSeq(q, m + 1, k)
<1>2. p = [i \in 1 .. k - m |-> q[m + i]]
  <2>1. p = [i \in 1 .. (k - (m + 1)) + 1 |-> q[((m + 1) + i) - 1]]
    BY <1>1
  <2>2. (k - (m + 1)) + 1 = k - m
    BY <1>1
  <2>3. \A i \in 1 .. k - m : ((m + 1) + i) - 1 = m + i
    BY <1>1
  <2> QED  BY <2>1, <2>2, <2>3
<1> HIDE DEF p
<1>3. k - m \in Nat /\ \A i \in 1 .. k - m : m + i \in m + 1 .. k /\ q[m + i] \in S
  BY <1>1
<1>4. p \in Seq(S) /\ Len(p) = k - m
  <2> DEFINE n == k - m
  <2>1. n \in Nat /\ p = [i \in 1 .. n |-> p[i]] /\ \A i \in 1 .. n : p[i] \in S
    BY <1>2, <1>3
  <2>2. DOMAIN p = 1 .. n
    BY <2>1
  <2> HIDE DEF n
  <2>3. p \in Seq(S)
    BY <2>1, SeqIs
  <2>4. Len(p) = n
    BY <2>1, <2>2, <2>3
  <2> QED  BY <2>3, <2>4 DEF n
<1>5. \A i \in 1 .. k - m : p[i] = q[m + i]
  BY <1>2
<1> QED  BY <1>4, <1>5 DEF p

\* The beginning of a sequence.
LEMMA BeginIs ==
    ASSUME NEW S, NEW q \in Seq(S), NEW n \in 0 .. Len(q)
    PROVE  /\ SubSeq(q, 1, n) \in Seq(S) /\ Len(SubSeq(q, 1, n)) = n
           /\ \A i \in 1 .. n : SubSeq(q, 1, n)[i] = q[i]
<1>1. n \in 0 .. Len(q) /\ 0 \in Nat /\ 0 + 1 = 1 /\ n - 0 = n /\ \A i \in 1 .. n : 0 + i = i
  OBVIOUS
<1>2. /\ SubSeq(q, 0 + 1, n) \in Seq(S) /\ Len(SubSeq(q, 0 + 1, n)) = n - 0
      /\ \A i \in 1 .. n - 0 : SubSeq(q, 0 + 1, n)[i] = q[0 + i]
  BY <1>1, PartIs
<1> QED  BY <1>1, <1>2

\* Replacing an element of a sequence over S by one of S.
LEMMA SeqUpdateType ==
    ASSUME NEW S, NEW q \in Seq(S), NEW i, NEW x \in S
    PROVE  /\ [q EXCEPT ![i] = x] \in Seq(S) /\ Len([q EXCEPT ![i] = x]) = Len(q)
           /\ Append(q, x) \in Seq(S) /\ Len(Append(q, x)) = Len(q) + 1
<1> DEFINE r == [q EXCEPT ![i] = x]
<1>1. Len(q) \in Nat /\ DOMAIN q = 1 .. Len(q) /\ \A j \in 1 .. Len(q) : q[j] \in S
  OBVIOUS
<1>2. DOMAIN r = 1 .. Len(q) /\ \A j \in 1 .. Len(q) : r[j] \in S
  BY <1>1
<1>3. r = [j \in 1 .. Len(q) |-> r[j]]
  BY <1>1
<1> HIDE DEF r
<1>4. r \in Seq(S)
  BY <1>1, <1>2, <1>3, SeqIs
<1>5. Len(r) = Len(q)
  BY <1>1, <1>2, <1>4
<1>6. Append(q, x) \in Seq(S) /\ Len(Append(q, x)) = Len(q) + 1
  OBVIOUS
<1> QED  BY <1>4, <1>5, <1>6 DEF r

\* A sequence over S holds elements of S; the empty one none.
LEMMA ElementsType == ASSUME NEW S, NEW s \in Seq(S) PROVE ToSet(s) \subseteq S
<1> SUFFICES ASSUME NEW i \in DOMAIN s PROVE s[i] \in S
  BY DEF ToSet
<1> QED  OBVIOUS

\* The empty sequence has no elements ...
LEMMA EmptyElements == ToSet(<<>>) = {}
<1>1. DOMAIN <<>> = {}
  OBVIOUS
<1> QED  BY <1>1 DEF ToSet

\* The elements of one sequence after another are those of both.
LEMMA ElementsOfBoth ==
    ASSUME NEW S, NEW a \in Seq(S), NEW b \in Seq(S)
    PROVE  ToSet(a \o b) = ToSet(a) \cup ToSet(b)
<1> DEFINE c == a \o b
<1>1. /\ c \in Seq(S) /\ Len(c) = Len(a) + Len(b)
      /\ \A i \in DOMAIN a : i \in DOMAIN c /\ c[i] = a[i]
      /\ \A i \in DOMAIN b : Len(a) + i \in DOMAIN c /\ c[Len(a) + i] = b[i]
      /\ \A i \in DOMAIN c : i \notin DOMAIN a => i - Len(a) \in DOMAIN b /\ c[i] = b[i - Len(a)]
  OBVIOUS
<1> HIDE DEF c
<1>2. ASSUME NEW x \in ToSet(c) PROVE x \in ToSet(a) \cup ToSet(b)
  BY <1>1, <1>2 DEF ToSet
<1>3. ASSUME NEW x \in ToSet(a) \cup ToSet(b) PROVE x \in ToSet(c)
  BY <1>1, <1>3 DEF ToSet
<1> QED  BY <1>2, <1>3 DEF c

\* ... and none of them twice.
LEMMA EmptyInjective == IsInjective(<<>>)
<1>1. DOMAIN <<>> = {}
  OBVIOUS
<1> QED  BY <1>1 DEF IsInjective

\* What a sequence holds, and that it holds it once, as elements come and go.
LEMMA Enqueued ==
    ASSUME NEW S, NEW s \in Seq(S), NEW c \in S
    PROVE  /\ Append(s, c) \in Seq(S)
           /\ ToSet(Append(s, c)) = ToSet(s) \cup {c}
           /\ IsInjective(s) /\ c \notin ToSet(s) => IsInjective(Append(s, c))
<1> DEFINE t == Append(s, c)
<1>1. Len(s) \in Nat /\ DOMAIN s = 1 .. Len(s) /\ t \in Seq(S) /\ DOMAIN t = 1 .. Len(s) + 1
  OBVIOUS
<1>2. t[Len(s) + 1] = c /\ \A i \in DOMAIN s : t[i] = s[i]
  OBVIOUS
<1>3. DOMAIN t = DOMAIN s \cup {Len(s) + 1}
  BY <1>1
<1> HIDE DEF t
<1>4. ToSet(t) = ToSet(s) \cup {c}
  BY <1>2, <1>3 DEF ToSet
<1>5. IsInjective(s) /\ c \notin ToSet(s) => IsInjective(t)
  BY <1>2, <1>3 DEF ToSet, IsInjective
<1> QED  BY <1>1, <1>4, <1>5 DEF t

\* The first element of a queue, and the others.
LEMMA Dequeued ==
    ASSUME NEW S, NEW s \in Seq(S), s # <<>>
    PROVE  /\ Head(s) \in S /\ Tail(s) \in Seq(S)
           /\ ToSet(s) = ToSet(Tail(s)) \cup {Head(s)}
           /\ IsInjective(s) => IsInjective(Tail(s)) /\ Head(s) \notin ToSet(Tail(s))
<1> DEFINE t == Tail(s)
<1>1. Len(s) \in Nat \ {0} /\ DOMAIN s = 1 .. Len(s) /\ t \in Seq(S)
      /\ DOMAIN t = 1 .. Len(s) - 1
  OBVIOUS
<1>2. Head(s) = s[1] /\ s[1] \in S /\ \A i \in DOMAIN t : t[i] = s[i + 1]
  OBVIOUS
<1>3. \A i \in DOMAIN s : i = 1 \/ i - 1 \in DOMAIN t
  BY <1>1
<1>4. \A i \in DOMAIN t : i + 1 \in DOMAIN s /\ i + 1 # 1 /\ i \in Nat
  BY <1>1
<1> HIDE DEF t
<1>5. ToSet(s) \subseteq ToSet(t) \cup {s[1]}
  <2> SUFFICES ASSUME NEW i \in DOMAIN s, i # 1 PROVE s[i] \in ToSet(t)
    BY DEF ToSet
  <2>1. i - 1 \in DOMAIN t /\ t[i - 1] = s[(i - 1) + 1] /\ (i - 1) + 1 = i
    BY <1>1, <1>2, <1>3
  <2> QED  BY <2>1 DEF ToSet
<1>6. ToSet(t) \cup {s[1]} \subseteq ToSet(s)
  BY <1>1, <1>2, <1>4 DEF ToSet
<1>7. IsInjective(s) => IsInjective(t)
  BY <1>2, <1>4 DEF IsInjective
<1>8. IsInjective(s) => s[1] \notin ToSet(t)
  BY <1>1, <1>2, <1>4 DEF IsInjective, ToSet
<1> QED  BY <1>1, <1>2, <1>5, <1>6, <1>7, <1>8 DEF t

\* Replacing a value of a function by one of its range.
LEMMA ExceptType ==
    ASSUME NEW D, NEW R, NEW f \in [D -> R], NEW k, NEW v, k \in D => v \in R
    PROVE  [f EXCEPT ![k] = v] \in [D -> R]
  OBVIOUS

\* A set of naturals that has elements has a least one ...
LEMMA NatMin ==
    ASSUME NEW T \in SUBSET Nat, T # {}
    PROVE  \E x \in T : \A y \in T : x <= y
<1>1. IsWellFoundedOn(OpToRel(<, Nat), Nat)
  BY NatLessThanWellFounded
<1>2. PICK x \in T : \A y \in T : <<y, x>> \notin OpToRel(<, Nat)
  BY <1>1, WFMin
<1>3. \A y \in T : ~(y < x)
  BY <1>2 DEF OpToRel
<1> QED BY <1>3

\* ... and Min chooses it.
LEMMA MinIs ==
    ASSUME NEW T \in SUBSET Nat, T # {}
    PROVE  Min(T) \in T /\ \A y \in T : Min(T) <= y
<1>1. PICK x \in T : \A y \in T : x <= y
  BY NatMin
<1> QED  BY <1>1 DEF Min

\* The larger of two naturals is one of them.
LEMMA MaxOfTwo == \A a, b \in Nat : Max({a, b}) \in {a, b}
<1> SUFFICES ASSUME NEW a \in Nat, NEW b \in Nat PROVE Max({a, b}) \in {a, b}
  OBVIOUS
<1>1. \E x \in {a, b} : \A y \in {a, b} : x >= y
  OBVIOUS
<1> QED  BY <1>1 DEF Max

\* Induction over 0 .. N, with the set T for the predicate.
LEMMA SetInduction ==
    ASSUME NEW T, NEW N \in Nat, 0 \in T, \A n \in 1 .. N : n - 1 \in T => n \in T
    PROVE  \A n \in 0 .. N : n \in T
<1> SUFFICES ASSUME NEW m \in 0 .. N, m \notin T PROVE FALSE
  OBVIOUS
<1> DEFINE Rest == (0 .. N) \ T
<1>1. Rest \in SUBSET Nat /\ Rest # {}
  OBVIOUS
<1>2. PICK n \in Rest : \A k \in Rest : n <= k
  <2> HIDE DEF Rest
  <2> QED BY <1>1, NatMin
<1>3. n \in 1 .. N /\ n - 1 \notin Rest
  BY <1>2
<1> QED BY <1>2, <1>3

\* There is a function over 0 .. N with values in T whose values follow from their predecessors.
Recurs(T, N, base, step) ==
    \E h \in [0 .. N -> T] : h[0] = base /\ \A n \in 1 .. N : h[n] = step[n][h[n-1]]

\* What is defined from each place's predecessor is defined for every place.
LEMMA Recursion ==
    ASSUME NEW T, NEW N \in Nat, NEW base \in T, NEW step,
           \A n \in 1 .. N : \A t \in T : step[n][t] \in T
    PROVE  Recurs(T, N, base, step)
<1> DEFINE Def(h, m) == h[0] = base /\ \A n \in 1 .. m : h[n] = step[n][h[n-1]]
           Defined == {m \in 0 .. N : \E h \in [0 .. m -> T] : Def(h, m)}
<1>1. 0 \in Defined
  <2> DEFINE g == [n \in 0 .. 0 |-> base]
  <2>1. g \in [0 .. 0 -> T] /\ Def(g, 0)
    OBVIOUS
  <2> HIDE DEF g
  <2> QED  BY <2>1
<1>2. ASSUME NEW m \in 1 .. N, m - 1 \in Defined PROVE m \in Defined
  <2>1. PICK h \in [0 .. m - 1 -> T] : Def(h, m - 1)
    BY <1>2
  <2> DEFINE next == step[m][h[m - 1]]
             g == [n \in 0 .. m |-> IF n = m THEN next ELSE h[n]]
  <2>2. next \in T
    BY <2>1
  <2> HIDE DEF next
  <2>3. g \in [0 .. m -> T]
    BY <2>2
  <2>4. ASSUME NEW n \in 1 .. m PROVE g[n] = step[n][g[n-1]]
    <3>1. CASE n = m
      <4>1. g[n] = next /\ g[n-1] = h[m-1]
        BY <3>1
      <4> QED  BY <3>1, <4>1 DEF next
    <3>2. CASE n # m
      <4>1. n \in 1 .. m - 1 /\ g[n] = h[n] /\ g[n-1] = h[n-1]
        BY <3>2
      <4> QED  BY <2>1, <4>1
    <3> QED  BY <3>1, <3>2
  <2>5. g[0] = base
    BY <2>1
  <2> HIDE DEF g
  <2> QED  BY <2>3, <2>4, <2>5
<1> HIDE DEF Defined
<1>3. \A n \in 0 .. N : n \in Defined
  BY <1>1, <1>2, SetInduction
<1>4. N \in Defined
  BY <1>3
<1> QED  BY <1>4 DEF Defined, Recurs

\* FlattenSeq concatenates one sequence after another: its recursive function exists, and the
\* prefixes it makes begin with none.
LEMMA FlattenIs ==
    ASSUME NEW S, NEW s \in Seq(Seq(S))
    PROVE  \E h \in [0 .. Len(s) -> Seq(S)] :
              /\ h[0] = <<>> /\ \A n \in 1 .. Len(s) : h[n] = h[n-1] \o s[n]
              /\ FlattenSeq(s) = h[Len(s)]
<1> DEFINE N == Len(s)
           Is(h) == h = [i \in 1 .. N |-> IF i = 1 THEN s[i] ELSE h[i-1] \o s[i]]
           flatten == CHOOSE h : Is(h)
           step == [n \in 1 .. N |-> [t \in Seq(S) |-> t \o s[n]]]
<1>1. N \in Nat /\ \A n \in 1 .. N : s[n] \in Seq(S)
  OBVIOUS
<1>2. \A n \in 1 .. N : \A t \in Seq(S) : step[n][t] = t \o s[n]
  OBVIOUS
<1>3. \A n \in 1 .. N : \A t \in Seq(S) : step[n][t] \in Seq(S)
  BY <1>1, <1>2
<1>4. N = 0 => FlattenSeq(s) = <<>>
  BY DEF FlattenSeq
<1>5. N # 0 => FlattenSeq(s) = flatten[N]
  BY DEF FlattenSeq
<1> HIDE DEF step, N
<1>6. PICK g \in [0 .. N -> Seq(S)] : g[0] = <<>> /\ \A n \in 1 .. N : g[n] = step[n][g[n-1]]
  <2>1. <<>> \in Seq(S)
    OBVIOUS
  <2>2. Recurs(Seq(S), N, <<>>, step)
    BY <1>1, <1>3, <2>1, Recursion
  <2> QED  BY <2>2 DEF Recurs
<1>7. \A n \in 1 .. N : g[n-1] \in Seq(S) /\ g[n] = g[n-1] \o s[n]
  <2> SUFFICES ASSUME NEW n \in 1 .. N PROVE g[n-1] \in Seq(S) /\ g[n] = g[n-1] \o s[n]
    OBVIOUS
  <2>1. n - 1 \in 0 .. N
    BY <1>1
  <2>2. g[n-1] \in Seq(S)
    BY <2>1
  <2> QED  BY <1>2, <1>6, <2>2
<1>0. ASSUME 1 \in 1 .. N PROVE g[1] = s[1]
  <2>1. g[1] = g[0] \o s[1]
    <3>1. g[1] = g[1-1] \o s[1]
      BY <1>0, <1>7
    <3>2. 1 - 1 = 0
      OBVIOUS
    <3> QED  BY <3>1, <3>2
  <2>2. s[1] \in Seq(S) /\ g[0] = <<>>
    BY <1>0, <1>1, <1>6
  <2> QED  BY <2>1, <2>2
<1>8. Is(flatten)
  <2> DEFINE f == [i \in 1 .. N |-> g[i]]
  <2>1. ASSUME NEW i \in 1 .. N PROVE f[i] = IF i = 1 THEN s[i] ELSE f[i-1] \o s[i]
    <3>1. CASE i = 1
      BY <1>0, <3>1
    <3>2. CASE i # 1
      <4>1. i - 1 \in 1 .. N
        BY <1>1, <3>2
      <4> QED  BY <1>7, <3>2, <4>1
    <3> QED  BY <3>1, <3>2
  <2>2. f = [i \in 1 .. N |-> f[i]]
    OBVIOUS
  <2> HIDE DEF f
  <2>3. Is(f)
    BY <2>1, <2>2
  <2> QED  BY <2>3
<1>9. \A i \in 1 .. N : flatten[i] = IF i = 1 THEN s[i] ELSE flatten[i-1] \o s[i]
  <2> HIDE DEF flatten
  <2> QED  BY <1>8
<1> HIDE DEF flatten
<1> DEFINE T == {n \in 0 .. N : n = 0 \/ flatten[n] = g[n]}
<1>10. \A n \in 0 .. N : n \in T
  <2>1. 0 \in T
    BY <1>1
  <2>2. ASSUME NEW n \in 1 .. N, n - 1 \in T PROVE n \in T
    <3>1. CASE n = 1
      BY <1>0, <1>9, <3>1
    <3>2. CASE n # 1
      <4>1. flatten[n-1] = g[n-1]
        BY <1>1, <2>2, <3>2
      <4>2. flatten[n] = flatten[n-1] \o s[n]
        BY <1>9, <3>2
      <4>3. g[n] = g[n-1] \o s[n]
        BY <1>7
      <4>4. n \in 0 .. N
        BY <1>1
      <4> QED  BY <4>1, <4>2, <4>3, <4>4
    <3> QED  BY <3>1, <3>2
  <2> HIDE DEF T
  <2> QED  BY <1>1, <2>1, <2>2, SetInduction
<1>11. N \in T
  <2> HIDE DEF T
  <2> QED  BY <1>1, <1>10
<1>12. FlattenSeq(s) = g[N]
  BY <1>4, <1>5, <1>6, <1>11
<1> QED  BY <1>6, <1>7, <1>12 DEF N

\* What it makes of sequences over S is one over S, of the elements of all of them.
LEMMA FlattenType ==
    ASSUME NEW S, NEW s \in Seq(Seq(S))
    PROVE  FlattenSeq(s) \in Seq(S)
<1>1. PICK h \in [0 .. Len(s) -> Seq(S)] : FlattenSeq(s) = h[Len(s)]
  BY FlattenIs
<1> QED  BY <1>1

\* Sequences one after another have the elements of all of them.
LEMMA FlattenElements ==
    ASSUME NEW S, NEW s \in Seq(Seq(S))
    PROVE  ToSet(FlattenSeq(s)) = UNION {ToSet(s[n]) : n \in DOMAIN s}
<1>1. PICK h \in [0 .. Len(s) -> Seq(S)] :
         /\ h[0] = <<>> /\ \A n \in 1 .. Len(s) : h[n] = h[n-1] \o s[n]
         /\ FlattenSeq(s) = h[Len(s)]
  BY FlattenIs
<1> DEFINE all(n) == UNION {ToSet(s[i]) : i \in 1 .. n}
           T == {n \in 0 .. Len(s) : ToSet(h[n]) = all(n)}
<1>2. 0 \in T
  BY <1>1, EmptyElements
<1>3. ASSUME NEW n \in 1 .. Len(s), n - 1 \in T PROVE n \in T
  <2>1. h[n-1] \in Seq(S) /\ s[n] \in Seq(S) /\ h[n] = h[n-1] \o s[n]
    <3>1. n - 1 \in 0 .. Len(s)
      OBVIOUS
    <3>2. h[n-1] \in Seq(S)
      BY <3>1
    <3>3. s[n] \in Seq(S)
      OBVIOUS
    <3> HIDE DEF T
    <3> QED  BY <1>1, <3>2, <3>3
  <2>2. ToSet(h[n]) = ToSet(h[n-1]) \cup ToSet(s[n])
    BY <2>1, ElementsOfBoth
  <2>3. all(n) = all(n - 1) \cup ToSet(s[n])
    <3>1. 1 .. n = (1 .. n - 1) \cup {n}
      OBVIOUS
    <3> QED  BY <3>1
  <2>4. ToSet(h[n - 1]) = all(n - 1)
    BY <1>3
  <2>5. ToSet(h[n]) = all(n)
    BY <2>2, <2>3, <2>4
  <2>6. n \in 0 .. Len(s)
    OBVIOUS
  <2> HIDE DEF all
  <2> QED  BY <2>5, <2>6
<1>4. Len(s) \in T
  <2> HIDE DEF T
  <2>1. Len(s) \in Nat
    OBVIOUS
  <2>2. \A n \in 0 .. Len(s) : n \in T
    BY <1>2, <1>3, <2>1, SetInduction
  <2> QED  BY <2>1, <2>2
<1>5. DOMAIN s = 1 .. Len(s)
  OBVIOUS
<1> QED  BY <1>1, <1>4, <1>5

=============================================================================
