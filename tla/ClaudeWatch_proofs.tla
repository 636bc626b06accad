-------------------------- MODULE ClaudeWatch_proofs --------------------------
(***************************************************************************)
(* For all logs, agents and sessions, and without a bound on what the logs *)
(* hold: the index's state keeps its shape, and no API response is counted *)
(* twice.  Offering an entry keeps one entry per response only if the      *)
(* index files each entry under its own key and under its message: a copy  *)
(* is looked up in those two lists only.  That is what GoodIndex adds.     *)
(*                                                                         *)
(* And the index keeps what a scan of the logs from their start keeps,     *)
(* however the polls cut them into pieces and in whichever order they are  *)
(* read.  What an index keeps depends only on how often each entry was     *)
(* offered to it (Keeps); a cursor's prefix cut in two holds what both     *)
(* parts hold; and the entries offered are those under the cursors, the    *)
(* fed ones less those still waiting (KeepsOffered).                       *)
(***************************************************************************)
EXTENDS ClaudeWatch, SequenceFacts, FiniteSetTheorems

----------------------------------------------------------------------------
(***************************************************************************)
(* Sums.                                                                   *)
(***************************************************************************)
\* SumTo adds up the numbers one after another.
LEMMA SumToIs ==
    ASSUME NEW N \in Nat, NEW numbers \in [1 .. N -> Nat]
    PROVE  /\ SumTo(numbers, 0) = 0
           /\ \A n \in 0 .. N : SumTo(numbers, n) \in Nat
           /\ \A n \in 1 .. N : SumTo(numbers, n) = SumTo(numbers, n - 1) + numbers[n]
<1> DEFINE Is(h, n) == h = [i \in 0 .. n |-> IF i = 0 THEN 0 ELSE h[i-1] + numbers[i]]
           S(n) == CHOOSE h : Is(h, n)
<1>1. ASSUME NEW n \in 0 .. N PROVE \E h \in [0 .. n -> Nat] : Is(h, n)
  <2> DEFINE step == [i \in 1 .. n |-> [t \in Nat |-> t + numbers[i]]]
  <2>1. \A i \in 1 .. n : \A t \in Nat : step[i][t] = t + numbers[i]
    OBVIOUS
  <2>2. \A i \in 1 .. n : \A t \in Nat : step[i][t] \in Nat
    BY <2>1
  <2> HIDE DEF step
  <2>3. \E h \in [0 .. n -> Nat] : h[0] = 0 /\ \A i \in 1 .. n : h[i] = step[i][h[i-1]]
    <3>1. n \in Nat /\ 0 \in Nat
      OBVIOUS
    <3>2. Recurs(Nat, n, 0, step)
      BY <2>2, <3>1, Recursion
    <3> QED  BY <3>2 DEF Recurs
  <2>4. PICK h \in [0 .. n -> Nat] : h[0] = 0 /\ \A i \in 1 .. n : h[i] = step[i][h[i-1]]
    BY <2>3
  <2>5. \A i \in 1 .. n : h[i] = h[i-1] + numbers[i]
    <3> SUFFICES ASSUME NEW i \in 1 .. n PROVE h[i] = h[i-1] + numbers[i]
      OBVIOUS
    <3>1. i - 1 \in 0 .. n /\ h[i-1] \in Nat
      OBVIOUS
    <3> QED  BY <2>1, <2>4, <3>1
  <2>6. \A i \in 0 .. n : h[i] = IF i = 0 THEN 0 ELSE h[i-1] + numbers[i]
    BY <2>4, <2>5
  <2>7. h = [i \in 0 .. n |-> h[i]]
    OBVIOUS
  <2>8. h = [i \in 0 .. n |-> IF i = 0 THEN 0 ELSE h[i-1] + numbers[i]]
    BY <2>6, <2>7
  <2> QED  BY <2>8
<1>2. ASSUME NEW n \in 0 .. N PROVE Is(S(n), n)
  BY <1>1
<1>3. \A n \in 0 .. N : SumTo(numbers, n) = S(n)[n]
  BY DEF SumTo
<1>4. ASSUME NEW n \in 0 .. N
      PROVE  S(n)[0] = 0 /\ \A i \in 1 .. n : S(n)[i] = S(n)[i-1] + numbers[i]
  <2> DEFINE h == S(n)
  <2>1. h = [i \in 0 .. n |-> IF i = 0 THEN 0 ELSE h[i-1] + numbers[i]]
    BY <1>2
  <2> HIDE DEF h
  <2>2. h[0] = 0 /\ \A i \in 1 .. n : h[i] = h[i-1] + numbers[i]
    BY <2>1
  <2> QED  BY <2>2 DEF h
<1> HIDE DEF S
<1>5. ASSUME NEW n \in 0 .. N, NEW m \in 0 .. n
      PROVE  S(n)[m] = S(m)[m] /\ S(m)[m] \in Nat
  <2> DEFINE T == {i \in 0 .. m : S(n)[i] = S(m)[i] /\ S(m)[i] \in Nat}
  <2>0. m \in 0 .. N
    OBVIOUS
  <2>1. 0 \in T
    BY <1>4, <2>0
  <2>2. ASSUME NEW i \in 1 .. m, i - 1 \in T PROVE i \in T
    <3>1. i \in 1 .. n /\ numbers[i] \in Nat
      OBVIOUS
    <3> QED  BY <1>4, <2>0, <2>2, <3>1
  <2>3. m \in Nat
    OBVIOUS
  <2> HIDE DEF T
  <2>5. \A i \in 0 .. m : i \in T
    BY <2>1, <2>2, <2>3, SetInduction, Zenon
  <2>4. m \in T
    BY <2>3, <2>5
  <2> QED  BY <2>4 DEF T
<1>6. ASSUME NEW n \in 1 .. N PROVE S(n)[n] = S(n - 1)[n - 1] + numbers[n]
  <2>1. n \in 0 .. N /\ n - 1 \in 0 .. n /\ n \in 1 .. n
    OBVIOUS
  <2> QED  BY <1>4, <1>5, <2>1
<1>7. SumTo(numbers, 0) = 0
  <2>1. 0 \in 0 .. N
    OBVIOUS
  <2> QED  BY <1>3, <1>4, <2>1
<1>8. ASSUME NEW n \in 0 .. N PROVE SumTo(numbers, n) \in Nat
  <2>1. n \in 0 .. n
    OBVIOUS
  <2> QED  BY <1>3, <1>5, <2>1
<1>9. ASSUME NEW n \in 1 .. N PROVE SumTo(numbers, n) = SumTo(numbers, n - 1) + numbers[n]
  <2>1. n \in 0 .. N /\ n - 1 \in 0 .. N
    OBVIOUS
  <2> QED  BY <1>3, <1>6, <2>1
<1> QED  BY <1>7, <1>8, <1>9

\* Numbers that agree have the same sum.
LEMMA SumOfSame ==
    ASSUME NEW N \in Nat, NEW M \in Nat, NEW f \in [1 .. N -> Nat], NEW g \in [1 .. M -> Nat],
           NEW n \in Nat, n <= N, n <= M, \A i \in 1 .. n : f[i] = g[i]
    PROVE  SumTo(f, n) = SumTo(g, n)
<1> DEFINE T == {m \in 0 .. n : SumTo(f, m) = SumTo(g, m)}
<1>0. /\ SumTo(f, 0) = 0 /\ SumTo(g, 0) = 0
      /\ \A m \in 0 .. n : SumTo(f, m) \in Nat /\ SumTo(g, m) \in Nat
      /\ \A m \in 1 .. n : /\ SumTo(f, m) = SumTo(f, m - 1) + f[m]
                          /\ SumTo(g, m) = SumTo(g, m - 1) + g[m]
  <2>1. /\ SumTo(f, 0) = 0
        /\ \A m \in 0 .. N : SumTo(f, m) \in Nat
        /\ \A m \in 1 .. N : SumTo(f, m) = SumTo(f, m - 1) + f[m]
    BY SumToIs, Zenon
  <2>2. /\ SumTo(g, 0) = 0
        /\ \A m \in 0 .. M : SumTo(g, m) \in Nat
        /\ \A m \in 1 .. M : SumTo(g, m) = SumTo(g, m - 1) + g[m]
    BY SumToIs, Zenon
  <2> QED  BY <2>1, <2>2
<1>1. 0 \in T
  BY <1>0
<1>2. ASSUME NEW m \in 1 .. n, m - 1 \in T PROVE m \in T
  BY <1>0, <1>2
<1> HIDE DEF T
<1>3. \A m \in 0 .. n : m \in T
  BY <1>1, <1>2, SetInduction, Zenon
<1> QED  BY <1>3 DEF T

\* Replacing one of the numbers changes the sum by as much; a number is at most the sum.
LEMMA SumOfReplaced ==
    ASSUME NEW N \in Nat, NEW f \in [1 .. N -> Nat], NEW g \in [1 .. N -> Nat], NEW k \in 1 .. N,
           \A i \in 1 .. N : i # k => f[i] = g[i]
    PROVE  SumTo(f, N) + g[k] = SumTo(g, N) + f[k] /\ f[k] <= SumTo(f, N)
<1> DEFINE T == {m \in 0 .. N : IF m < k THEN SumTo(f, m) = SumTo(g, m)
                                ELSE /\ SumTo(f, m) + g[k] = SumTo(g, m) + f[k]
                                     /\ f[k] <= SumTo(f, m)}
<1>0. /\ SumTo(f, 0) = 0 /\ SumTo(g, 0) = 0
      /\ \A m \in 0 .. N : SumTo(f, m) \in Nat /\ SumTo(g, m) \in Nat
      /\ \A m \in 1 .. N : /\ SumTo(f, m) = SumTo(f, m - 1) + f[m]
                          /\ SumTo(g, m) = SumTo(g, m - 1) + g[m]
  <2>1. /\ SumTo(f, 0) = 0
        /\ \A m \in 0 .. N : SumTo(f, m) \in Nat
        /\ \A m \in 1 .. N : SumTo(f, m) = SumTo(f, m - 1) + f[m]
    BY SumToIs, Zenon
  <2>2. /\ SumTo(g, 0) = 0
        /\ \A m \in 0 .. N : SumTo(g, m) \in Nat
        /\ \A m \in 1 .. N : SumTo(g, m) = SumTo(g, m - 1) + g[m]
    BY SumToIs, Zenon
  <2> QED  BY <2>1, <2>2
<1>1. 0 \in T
  BY <1>0
<1>2. ASSUME NEW m \in 1 .. N, m - 1 \in T PROVE m \in T
  <2>1. /\ SumTo(f, m) = SumTo(f, m - 1) + f[m] /\ SumTo(g, m) = SumTo(g, m - 1) + g[m]
        /\ SumTo(f, m - 1) \in Nat /\ SumTo(g, m - 1) \in Nat
        /\ f[m] \in Nat /\ g[m] \in Nat /\ f[k] \in Nat /\ g[k] \in Nat
    BY <1>0
  <2>2. CASE m < k
    BY <1>2, <2>1, <2>2
  <2>3. CASE m = k
    BY <1>2, <2>1, <2>3
  <2>4. CASE m > k
    <3>1. ~(m - 1 < k) /\ ~(m < k) /\ f[m] = g[m] /\ m \in 0 .. N
      BY <2>4
    <3>2. SumTo(f, m - 1) + g[k] = SumTo(g, m - 1) + f[k] /\ f[k] <= SumTo(f, m - 1)
      BY <1>2, <3>1
    <3>3. SumTo(f, m) = SumTo(f, m - 1) + f[m] /\ SumTo(g, m) = SumTo(g, m - 1) + f[m]
      BY <2>1, <3>1, Zenon
    <3> DEFINE a == SumTo(f, m - 1)
               c == SumTo(g, m - 1)
               d == f[k]
               e == g[k]
               x == f[m]
    <3>4. /\ a \in Nat /\ c \in Nat /\ d \in Nat /\ e \in Nat /\ x \in Nat
          /\ a + e = c + d /\ d <= a
      BY <2>1, <3>2, Zenon
    <3> HIDE DEF a, c, d, e, x
    <3>5. (a + x) + e = (c + x) + d /\ d <= a + x
      BY <3>4
    <3>6. /\ (SumTo(f, m - 1) + f[m]) + g[k] = (SumTo(g, m - 1) + f[m]) + f[k]
          /\ f[k] <= SumTo(f, m - 1) + f[m]
      BY <3>5, Zenon DEF a, c, d, e, x
    <3>7. SumTo(f, m) + g[k] = SumTo(g, m) + f[k] /\ f[k] <= SumTo(f, m)
      BY <3>6, <3>3, Zenon
    <3> QED  BY <3>1, <3>7
  <2> QED  BY <2>2, <2>3, <2>4
<1> HIDE DEF T
<1>3. \A m \in 0 .. N : m \in T
  BY <1>1, <1>2, SetInduction, Zenon
<1> QED  BY <1>3 DEF T

\* One more number adds itself.
LEMMA SumOfOneMore ==
    ASSUME NEW N \in Nat, NEW f \in [1 .. N -> Nat], NEW g \in [1 .. N + 1 -> Nat],
           \A i \in 1 .. N : f[i] = g[i]
    PROVE  SumTo(g, N + 1) = SumTo(f, N) + g[N + 1]
<1> DEFINE M == N + 1
<1>1. M \in Nat /\ M \in 1 .. M /\ M - 1 = N /\ N <= M /\ N <= N
  OBVIOUS
<1> HIDE DEF M
<1>2. g \in [1 .. M -> Nat]
  BY DEF M
<1>3. SumTo(g, M) = SumTo(g, N) + g[M]
  BY <1>1, <1>2, SumToIs
<1>4. SumTo(f, N) = SumTo(g, N)
  BY <1>1, <1>2, SumOfSame
<1> QED  BY <1>3, <1>4 DEF M

\* Numbers after numbers: the sum of both.
LEMMA SumOfBoth ==
    ASSUME NEW N \in Nat, NEW M \in Nat, NEW f \in [1 .. N -> Nat], NEW g \in [1 .. M -> Nat],
           NEW h \in [1 .. N + M -> Nat],
           \A i \in 1 .. N : h[i] = f[i], \A j \in 1 .. M : h[N + j] = g[j]
    PROVE  SumTo(h, N + M) = SumTo(f, N) + SumTo(g, M)
<1> DEFINE T == {m \in 0 .. M : SumTo(h, N + m) = SumTo(f, N) + SumTo(g, m)}
           L == N + M
<1>0. L \in Nat /\ N <= L /\ N <= N /\ N \in 0 .. N /\ \A m \in 0 .. M : N + m \in 0 .. L
  OBVIOUS
<1>1. /\ SumTo(g, 0) = 0 /\ \A m \in 0 .. M : SumTo(g, m) \in Nat
      /\ \A m \in 1 .. M : SumTo(g, m) = SumTo(g, m - 1) + g[m]
  BY SumToIs, Zenon
<1>2. /\ \A m \in 0 .. L : SumTo(h, m) \in Nat
      /\ \A m \in 1 .. L : SumTo(h, m) = SumTo(h, m - 1) + h[m]
  <2> HIDE DEF L
  <2>1. h \in [1 .. L -> Nat]
    BY DEF L
  <2> QED  BY <1>0, <2>1, SumToIs, Zenon
<1>3. SumTo(h, N) = SumTo(f, N) /\ SumTo(f, N) \in Nat
  <2> HIDE DEF L
  <2>1. h \in [1 .. L -> Nat]
    BY DEF L
  <2>2. SumTo(f, N) = SumTo(h, N)
    BY <1>0, <2>1, SumOfSame
  <2>3. SumTo(f, N) \in Nat
    BY <1>0, SumToIs
  <2> QED  BY <2>2, <2>3
<1>4. 0 \in T
  BY <1>1, <1>3
<1>5. ASSUME NEW m \in 1 .. M, m - 1 \in T PROVE m \in T
  <2>1. N + m \in 1 .. L /\ (N + m) - 1 = N + (m - 1) /\ N + (m - 1) \in 0 .. L /\ m - 1 \in 0 .. M
    OBVIOUS
  <2>2. SumTo(h, N + m) = SumTo(h, N + (m - 1)) + g[m]
    BY <1>2, <2>1
  <2>3. SumTo(h, N + (m - 1)) = SumTo(f, N) + SumTo(g, m - 1)
    BY <1>5
  <2>4. SumTo(g, m - 1) \in Nat /\ g[m] \in Nat
    BY <1>1, <2>1
  <2> QED  BY <1>1, <1>3, <2>2, <2>3, <2>4
<1> HIDE DEF T
<1>6. \A m \in 0 .. M : m \in T
  BY <1>4, <1>5, SetInduction, Zenon
<1> QED  BY <1>6 DEF T

\* Larger numbers have a larger sum.
LEMMA SumOfLarger ==
    ASSUME NEW N \in Nat, NEW f \in [1 .. N -> Nat], NEW g \in [1 .. N -> Nat],
           \A i \in 1 .. N : f[i] <= g[i]
    PROVE  SumTo(f, N) <= SumTo(g, N) /\ SumTo(f, N) \in Nat /\ SumTo(g, N) \in Nat
<1> DEFINE T == {m \in 0 .. N : SumTo(f, m) <= SumTo(g, m)}
<1>0. /\ SumTo(f, 0) = 0 /\ \A m \in 0 .. N : SumTo(f, m) \in Nat
      /\ \A m \in 1 .. N : SumTo(f, m) = SumTo(f, m - 1) + f[m]
  BY SumToIs, Zenon
<1>1. /\ SumTo(g, 0) = 0 /\ \A m \in 0 .. N : SumTo(g, m) \in Nat
      /\ \A m \in 1 .. N : SumTo(g, m) = SumTo(g, m - 1) + g[m]
  BY SumToIs, Zenon
<1>2. 0 \in T
  BY <1>0, <1>1
<1>3. ASSUME NEW m \in 1 .. N, m - 1 \in T PROVE m \in T
  BY <1>0, <1>1, <1>3
<1> HIDE DEF T
<1>4. \A m \in 0 .. N : m \in T
  BY <1>2, <1>3, SetInduction, Zenon
<1>5. N \in 0 .. N
  OBVIOUS
<1> QED  BY <1>0, <1>1, <1>4, <1>5 DEF T

\* The sum of nothing but zeros.
LEMMA SumOfZeros ==
    ASSUME NEW N \in Nat, NEW f \in [1 .. N -> Nat], \A i \in 1 .. N : f[i] = 0
    PROVE  SumTo(f, N) = 0
<1> DEFINE T == {m \in 0 .. N : SumTo(f, m) = 0}
<1>0. /\ SumTo(f, 0) = 0 /\ \A m \in 0 .. N : SumTo(f, m) \in Nat
      /\ \A m \in 1 .. N : SumTo(f, m) = SumTo(f, m - 1) + f[m]
  BY SumToIs, Zenon
<1>1. 0 \in T
  BY <1>0
<1>2. ASSUME NEW m \in 1 .. N, m - 1 \in T PROVE m \in T
  BY <1>0, <1>2
<1> HIDE DEF T
<1>3. \A m \in 0 .. N : m \in T
  BY <1>1, <1>2, SetInduction, Zenon
<1>4. N \in 0 .. N
  OBVIOUS
<1> QED  BY <1>3, <1>4 DEF T

----------------------------------------------------------------------------
(***************************************************************************)
(* Counting.  How many elements of a sequence are in a set.                *)
(***************************************************************************)
HowMany(s, W) == Cardinality({i \in DOMAIN s : s[i] \in W})

\* A sequence has finitely many places.
LEMMA PlacesFinite ==
    ASSUME NEW S, NEW s \in Seq(S), NEW P \in SUBSET DOMAIN s
    PROVE  IsFiniteSet(P) /\ Cardinality(P) \in Nat
<1>1. Len(s) \in Int /\ 1 \in Int /\ DOMAIN s = 1 .. Len(s)
  OBVIOUS
<1>2. IsFiniteSet(DOMAIN s)
  BY <1>1, FS_Interval
<1>3. IsFiniteSet(P)
  BY <1>2, FS_Subset
<1> QED  BY <1>3, FS_CardinalityType

\* The number is a natural one.
LEMMA HowManyType == ASSUME NEW S, NEW s \in Seq(S), NEW W PROVE HowMany(s, W) \in Nat
<1> DEFINE P == {i \in DOMAIN s : s[i] \in W}
<1>1. P \in SUBSET DOMAIN s
  OBVIOUS
<1>2. Cardinality(P) \in Nat
  <2> HIDE DEF P
  <2> QED  BY <1>1, PlacesFinite
<1> QED  BY <1>2 DEF HowMany

\* The empty sequence has none; a sequence that is not empty has some in some set.
LEMMA HowManyOfNothing == \A W : HowMany(<<>>, W) = 0
<1> SUFFICES ASSUME NEW W PROVE HowMany(<<>>, W) = 0
  OBVIOUS
<1>1. {i \in DOMAIN <<>> : <<>>[i] \in W} = {}
  OBVIOUS
<1> QED  BY <1>1, FS_EmptySet DEF HowMany

\* An element that is in the set makes it some; if none is, none.
LEMMA HowManySome ==
    ASSUME NEW S, NEW s \in Seq(S), NEW W
    PROVE  HowMany(s, W) # 0 <=> \E i \in DOMAIN s : s[i] \in W
<1> DEFINE P == {i \in DOMAIN s : s[i] \in W}
<1>1. P \in SUBSET DOMAIN s
  OBVIOUS
<1>2. Cardinality(P) = 0 <=> P = {}
  <2> HIDE DEF P
  <2> QED  BY <1>1, PlacesFinite, FS_EmptySet
<1> QED  BY <1>2 DEF HowMany

\* Sequences whose elements are in their sets at the same places have equally many.
LEMMA HowManySame ==
    ASSUME NEW s, NEW W, NEW t, NEW V, DOMAIN s = DOMAIN t,
           \A i \in DOMAIN s : s[i] \in W <=> t[i] \in V
    PROVE  HowMany(s, W) = HowMany(t, V)
<1>1. {i \in DOMAIN s : s[i] \in W} = {i \in DOMAIN t : t[i] \in V}
  OBVIOUS
<1> QED  BY <1>1 DEF HowMany

\* One sequence after another has as many as both.
LEMMA HowManyOfBoth ==
    ASSUME NEW S, NEW a \in Seq(S), NEW b \in Seq(S), NEW W
    PROVE  HowMany(a \o b, W) = HowMany(a, W) + HowMany(b, W)
<1> DEFINE c == a \o b
           A == {i \in DOMAIN a : a[i] \in W}
           B == {i \in DOMAIN b : b[i] \in W}
           C == {i \in DOMAIN c : c[i] \in W}
           n == Len(a)
           D == {n + i : i \in B}
           shift == [i \in B |-> n + i]
<1>1. /\ c \in Seq(S) /\ n \in Nat /\ DOMAIN a = 1 .. n /\ DOMAIN b \subseteq Nat \ {0}
      /\ \A i \in DOMAIN a : i \in DOMAIN c /\ c[i] = a[i]
      /\ \A i \in DOMAIN b : n + i \in DOMAIN c /\ c[n + i] = b[i]
      /\ \A i \in DOMAIN c : i \in Nat
      /\ \A i \in DOMAIN c : i \notin DOMAIN a => i - n \in DOMAIN b /\ c[i] = b[i - n]
  OBVIOUS
<1> HIDE DEF c, n
<1>2. C = A \cup D
  <2>1. ASSUME NEW i \in C, i \notin DOMAIN a PROVE i \in D
    <3>1. i - n \in B /\ i = n + (i - n)
      BY <1>1, <2>1
    <3> QED  BY <3>1
  <2>2. \A i \in C : i \in DOMAIN a => i \in A
    BY <1>1
  <2>3. A \subseteq C /\ D \subseteq C
    BY <1>1
  <2> QED  BY <2>1, <2>2, <2>3
<1>3. A \cap D = {}
  BY <1>1
<1>4. ExistsBijection(B, D)
  <2>1. shift \in Bijection(B, D)
    <3>1. shift \in [B -> D]
      OBVIOUS
    <3>2. \A i, j \in B : shift[i] = shift[j] => i = j
      BY <1>1
    <3>3. \A d \in D : \E i \in B : shift[i] = d
      OBVIOUS
    <3> QED  BY <3>1, <3>2, <3>3 DEF Bijection, Injection, Surjection, IsInjective
  <2> QED  BY <2>1 DEF ExistsBijection
<1>5. /\ IsFiniteSet(A) /\ Cardinality(A) \in Nat
      /\ IsFiniteSet(B) /\ Cardinality(B) \in Nat
  <2>1. A \in SUBSET DOMAIN a /\ B \in SUBSET DOMAIN b
    OBVIOUS
  <2> HIDE DEF A, B
  <2> QED  BY <2>1, PlacesFinite
<1> HIDE DEF A, B, C, D
<1>6. IsFiniteSet(D) /\ Cardinality(D) = Cardinality(B)
  BY <1>4, <1>5, FS_Bijection
<1>7. Cardinality(A \cup D) = Cardinality(A) + Cardinality(D) - Cardinality(A \cap D)
  BY <1>5, <1>6, FS_Union
<1>8. Cardinality(A \cap D) = 0
  BY <1>3, FS_EmptySet
<1>9. Cardinality(C) = Cardinality(A) + Cardinality(B)
  BY <1>2, <1>5, <1>6, <1>7, <1>8
<1> QED  BY <1>9 DEF HowMany, A, B, C, c

\* A single element.
LEMMA HowManyOfOne == \A x, W : HowMany(<<x>>, W) = IF x \in W THEN 1 ELSE 0
<1> SUFFICES ASSUME NEW x, NEW W PROVE HowMany(<<x>>, W) = IF x \in W THEN 1 ELSE 0
  OBVIOUS
<1>1. {i \in DOMAIN <<x>> : <<x>>[i] \in W} = IF x \in W THEN {1} ELSE {}
  OBVIOUS
<1>2. Cardinality({1}) = 1 /\ Cardinality({}) = 0
  BY FS_Singleton, FS_EmptySet
<1> QED  BY <1>1, <1>2 DEF HowMany

\* The first element and the others; one more element.
LEMMA HowManyOfTail ==
    ASSUME NEW S, NEW s \in Seq(S), s # <<>>, NEW W
    PROVE  /\ HowMany(s, W) = (IF Head(s) \in W THEN 1 ELSE 0) + HowMany(Tail(s), W)
           /\ HowMany(Tail(s), W) \in Nat
<1> DEFINE t == Tail(s)
           one == <<Head(s)>>
<1>1. one \in Seq(S) /\ t \in Seq(S) /\ s = one \o t
  OBVIOUS
<1> HIDE DEF t, one
<1>2. HowMany(s, W) = HowMany(one, W) + HowMany(t, W)
  BY <1>1, HowManyOfBoth
<1>3. HowMany(one, W) = IF Head(s) \in W THEN 1 ELSE 0
  BY HowManyOfOne DEF one
<1>4. HowMany(t, W) \in Nat
  BY <1>1, HowManyType
<1> QED  BY <1>2, <1>3, <1>4 DEF t

\* One element more at the end.
LEMMA HowManyOfMore ==
    ASSUME NEW S, NEW s \in Seq(S), NEW x \in S, NEW W
    PROVE  HowMany(Append(s, x), W) = HowMany(s, W) + IF x \in W THEN 1 ELSE 0
<1> DEFINE one == <<x>>
<1>1. one \in Seq(S) /\ Append(s, x) = s \o one
  OBVIOUS
<1> HIDE DEF one
<1>2. HowMany(s \o one, W) = HowMany(s, W) + HowMany(one, W)
  BY <1>1, HowManyOfBoth
<1>3. HowMany(one, W) = IF x \in W THEN 1 ELSE 0
  BY HowManyOfOne DEF one
<1> QED  BY <1>1, <1>2, <1>3

\* Of sequences one after another: the sum.
LEMMA HowManyOfAll ==
    ASSUME NEW S, NEW s \in Seq(Seq(S)), NEW W, NEW n \in [1 .. Len(s) -> Nat],
           \A i \in 1 .. Len(s) : n[i] = HowMany(s[i], W)
    PROVE  HowMany(FlattenSeq(s), W) = SumTo(n, Len(s))
<1>1. PICK h \in [0 .. Len(s) -> Seq(S)] :
         /\ h[0] = <<>> /\ \A i \in 1 .. Len(s) : h[i] = h[i-1] \o s[i]
         /\ FlattenSeq(s) = h[Len(s)]
  BY FlattenIs
<1> DEFINE N == Len(s)
           T == {m \in 0 .. N : HowMany(h[m], W) = SumTo(n, m)}
<1>2. N \in Nat /\ \A i \in 1 .. N : s[i] \in Seq(S) /\ i - 1 \in 0 .. N /\ i \in 0 .. N
  OBVIOUS
<1> HIDE DEF N
<1>3. SumTo(n, 0) = 0 /\ \A i \in 1 .. N : SumTo(n, i) = SumTo(n, i - 1) + n[i]
  BY <1>2, SumToIs DEF N
<1>4. 0 \in T
  BY <1>1, <1>2, <1>3, HowManyOfNothing
<1>5. ASSUME NEW i \in 1 .. N, i - 1 \in T PROVE i \in T
  <2>1. h[i-1] \in Seq(S) /\ s[i] \in Seq(S) /\ h[i] = h[i-1] \o s[i]
    BY <1>1, <1>2 DEF N
  <2>2. HowMany(h[i], W) = HowMany(h[i-1], W) + HowMany(s[i], W)
    BY <2>1, HowManyOfBoth
  <2>3. n[i] = HowMany(s[i], W)
    BY DEF N
  <2> QED  BY <1>2, <1>3, <1>5, <2>2, <2>3
<1> HIDE DEF T
<1>6. \A i \in 0 .. N : i \in T
  BY <1>2, <1>4, <1>5, SetInduction, Zenon
<1>7. N \in 0 .. N
  BY <1>2
<1> QED  BY <1>1, <1>6, <1>7 DEF T, N
USE NoneAssumption

----------------------------------------------------------------------------
(***************************************************************************)
(* The deduplication, of any index.                                        *)
(***************************************************************************)
Lists(N) == [Key -> Seq(1 .. N)]

IndexType(x) == x.entries \in Seq(Entry) /\ x.indexes \in Lists(Len(x.entries))

\* Every entry with a message id is found under both of its keys.
Filed(x) ==
    \A i \in DOMAIN x.entries : LET e == x.entries[i] IN
        e.id # None => /\ i \in ToSet(x.indexes[<<e.id, e.req>>])
                       /\ i \in ToSet(x.indexes[<<e.id, None>>])

GoodIndex(x) == IndexType(x) /\ Filed(x) /\ OneEach(x)

\* The index a seed or a rebuild starts from is a good one.
LEMMA EmptyGood == GoodIndex(EmptyIndex)
  BY DEF GoodIndex, IndexType, Lists, Filed, OneEach, EmptyIndex

\* FirstOf answers 0 only if no place of the list is wanted.
LEMMA FirstOfIs ==
    ASSUME NEW N \in Nat, NEW places \in Seq(1 .. N), NEW wanted
    PROVE  /\ FirstOf(places, wanted) = 0 => ToSet(places) \cap wanted = {}
           /\ FirstOf(places, wanted) # 0 => FirstOf(places, wanted) \in wanted
<1> DEFINE hits == {p \in DOMAIN places : places[p] \in wanted}
<1>1. CASE hits = {}
  BY <1>1 DEF FirstOf, ToSet
<1>2. CASE hits # {}
  <2>1. hits \in SUBSET Nat
    OBVIOUS
  <2>2. Min(hits) \in hits
    <3> HIDE DEF hits
    <3> QED  BY <1>2, <2>1, MinIs
  <2>3. FirstOf(places, wanted) = places[Min(hits)]
    BY <1>2 DEF FirstOf
  <2> QED  BY <2>2, <2>3
<1> QED  BY <1>1, <1>2

\* Filing a place adds it to the list and keeps what the list holds (push_deduped_daily_index).
LEMMA AddPlaceIs ==
    ASSUME NEW N \in Nat, NEW places \in Seq(1 .. N), NEW i \in 1 .. N
    PROVE  /\ AddPlace(places, i) \in Seq(1 .. N)
           /\ ToSet(AddPlace(places, i)) = ToSet(places) \cup {i}
<1>1. CASE i \in ToSet(places)
  BY <1>1 DEF AddPlace
<1>2. CASE i \notin ToSet(places)
  <2>1. AddPlace(places, i) = Append(places, i)
    BY <1>2 DEF AddPlace
  <2> DEFINE longer == Append(places, i)
  <2>2. /\ DOMAIN longer = (DOMAIN places) \cup {Len(places) + 1}
        /\ \A k \in DOMAIN places : longer[k] = places[k]
        /\ longer[Len(places) + 1] = i
    OBVIOUS
  <2>3. longer \in Seq(1 .. N)
    OBVIOUS
  <2> HIDE DEF longer
  <2>4. ToSet(longer) = ToSet(places) \cup {i}
    BY <2>2 DEF ToSet
  <2> QED  BY <2>1, <2>3, <2>4 DEF longer
<1> QED  BY <1>1, <1>2

\* Filing adds the place under the two keys of its entry and takes no place away.
AddsPlace(indexes, filed, e, i) ==
    /\ \A k \in Key : ToSet(indexes[k]) \subseteq ToSet(filed[k])
    /\ e.id # None => /\ i \in ToSet(filed[<<e.id, e.req>>])
                      /\ i \in ToSet(filed[<<e.id, None>>])

\* Filing an entry loses no place, and both its keys lead to it afterwards.
LEMMA FileUnderIs ==
    ASSUME NEW N \in Nat, NEW indexes \in Lists(N), NEW e \in Entry, NEW i \in 1 .. N
    PROVE  /\ FileUnder(indexes, e, i) \in Lists(N)
           /\ AddsPlace(indexes, FileUnder(indexes, e, i), e, i)
<1> DEFINE filed == FileUnder(indexes, e, i)
<1> USE DEF Lists
<1>1. ASSUME NEW k \in Key
      PROVE  /\ filed[k] \in Seq(1 .. N)
             /\ ToSet(indexes[k]) \subseteq ToSet(filed[k])
  BY AddPlaceIs DEF FileUnder
<1>2. filed \in [Key -> Seq(1 .. N)]
  BY <1>1 DEF FileUnder
<1>3. ASSUME e.id # None, NEW k \in {<<e.id, e.req>>, <<e.id, None>>}
      PROVE  i \in ToSet(filed[k])
  <2>1. k \in Key
    BY <1>3 DEF Key, Entry
  <2>2. filed[k] = AddPlace(indexes[k], i)
    BY <1>3, <2>1 DEF FileUnder
  <2> QED  BY <2>1, <2>2, AddPlaceIs
<1> QED  BY <1>1, <1>2, <1>3 DEF AddsPlace

\* A copy is found if there is one: an entry taken for new shares its ids with no kept entry,
\* and one that meets its message with a sidechain in play is never taken for new.
LEMMA ExistingIs ==
    ASSUME NEW x, GoodIndex(x), NEW e \in Entry
    PROVE  LET at == ExistingIndex(x, e) IN
           /\ at = 0 => \A i \in DOMAIN x.entries :
                 e.id # None /\ x.entries[i].id = e.id
                     => x.entries[i].req # e.req /\ ~e.side /\ ~x.entries[i].side
           /\ at # 0 => /\ at \in DOMAIN x.entries
                        /\ e.id # None /\ x.entries[at].id = e.id
                        /\ x.entries[at].req = e.req \/ e.side \/ x.entries[at].side
<1> USE DEF GoodIndex, IndexType, Lists
<1>1. CASE e.id = None
  BY <1>1 DEF ExistingIndex
<1>2. CASE e.id # None
  <2> DEFINE exact == FirstOf(x.indexes[<<e.id, e.req>>], SameRequest(x, e))
             replay == FirstOf(x.indexes[<<e.id, None>>], SidechainReplay(x, e))
  <2>1. <<e.id, e.req>> \in Key /\ <<e.id, None>> \in Key
    BY <1>2 DEF Key, Entry
  <2>2. Len(x.entries) \in Nat /\ DOMAIN x.entries = 1 .. Len(x.entries)
    OBVIOUS
  <2>3. /\ exact = 0 => ToSet(x.indexes[<<e.id, e.req>>]) \cap SameRequest(x, e) = {}
        /\ exact # 0 => exact \in SameRequest(x, e)
    BY <2>1, <2>2, FirstOfIs
  <2>4. /\ replay = 0 => ToSet(x.indexes[<<e.id, None>>]) \cap SidechainReplay(x, e) = {}
        /\ replay # 0 => replay \in SidechainReplay(x, e)
    BY <2>1, <2>2, FirstOfIs
  <2>5. ExistingIndex(x, e) = IF exact # 0 THEN exact ELSE replay
    BY <1>2 DEF ExistingIndex
  <2> HIDE DEF exact, replay
  <2>6. CASE exact # 0
    BY <1>2, <2>3, <2>5, <2>6 DEF SameRequest
  <2>7. CASE exact = 0 /\ replay # 0
    BY <1>2, <2>4, <2>5, <2>7 DEF SidechainReplay
  <2>8. CASE exact = 0 /\ replay = 0
    <3>1. \A i \in DOMAIN x.entries : x.entries[i].id = e.id =>
              x.entries[i].req # e.req /\ ~e.side /\ ~x.entries[i].side
      BY <1>2, <2>3, <2>4, <2>8 DEF Filed, SameRequest, SidechainReplay
    <3> QED  BY <2>5, <2>8, <3>1
  <2> QED  BY <2>6, <2>7, <2>8
<1> QED  BY <1>1, <1>2

\* One response, one entry: whatever entry is offered to a good index, the index stays good.
THEOREM PushKeepsGood ==
    ASSUME NEW x, GoodIndex(x), NEW e \in Entry
    PROVE  GoodIndex(PushDeduped(x, e))
<1> DEFINE at == ExistingIndex(x, e)
           y == PushDeduped(x, e)
<1>0. /\ x.entries \in Seq(Entry) /\ Len(x.entries) \in Nat
      /\ DOMAIN x.entries = 1 .. Len(x.entries)
      /\ x.indexes \in Lists(Len(x.entries))
  BY DEF GoodIndex, IndexType
<1>1. CASE at = 0
  <2> DEFINE n == Len(x.entries) + 1
  <2>1. /\ y.entries = Append(x.entries, e)
        /\ y.indexes = FileUnder(x.indexes, e, n)
    BY <1>1 DEF PushDeduped, Outcome, Place
  <2>2. /\ n \in 1 .. n /\ n \in Nat
        /\ x.indexes \in Lists(n)
        /\ Len(y.entries) = n /\ DOMAIN y.entries = 1 .. n
    BY <1>0, <2>1 DEF Lists
  <2>3. y.indexes \in Lists(n) /\ AddsPlace(x.indexes, y.indexes, e, n)
    <3> HIDE DEF n, y
    <3> QED  BY <2>1, <2>2, FileUnderIs
  <2>4. /\ y.entries \in Seq(Entry)
        /\ y.entries[n] = e
        /\ \A i \in 1 .. n : i # n => i \in DOMAIN x.entries /\ y.entries[i] = x.entries[i]
    BY <1>0, <2>1
  <2>5. IndexType(y)
    BY <2>2, <2>3, <2>4 DEF IndexType
  <2>6. Filed(y)
    <3>1. ASSUME NEW i \in 1 .. n, i # n, y.entries[i].id # None
          PROVE  /\ i \in ToSet(y.indexes[<<y.entries[i].id, y.entries[i].req>>])
                 /\ i \in ToSet(y.indexes[<<y.entries[i].id, None>>])
      <4>1. y.entries[i] \in Entry /\ y.entries[i] = x.entries[i] /\ i \in DOMAIN x.entries
        BY <1>0, <2>4, <3>1
      <4>2. <<y.entries[i].id, y.entries[i].req>> \in Key /\ <<y.entries[i].id, None>> \in Key
        BY <3>1, <4>1 DEF Key, Entry
      <4> QED  BY <2>3, <3>1, <4>1, <4>2 DEF GoodIndex, Filed, AddsPlace
    <3> QED  BY <2>2, <2>3, <2>4, <3>1 DEF Filed, AddsPlace
  <2>7. OneEach(y)
    <3>1. \A i \in DOMAIN x.entries :
             e.id # None /\ x.entries[i].id = e.id
                 => x.entries[i].req # e.req /\ ~e.side /\ ~x.entries[i].side
      BY <1>1, ExistingIs
    <3> HIDE DEF n, y
    <3>2. ASSUME NEW i \in 1 .. n, NEW j \in 1 .. n, i # j,
                 y.entries[i].id # None, y.entries[i].id = y.entries[j].id
          PROVE  /\ y.entries[i].req # y.entries[j].req
                 /\ ~y.entries[i].side /\ ~y.entries[j].side
      <4>1. CASE i = n
        BY <2>4, <3>1, <3>2, <4>1
      <4>2. CASE j = n
        BY <2>4, <3>1, <3>2, <4>2
      <4>3. CASE i # n /\ j # n
        BY <2>4, <3>2, <4>3 DEF GoodIndex, OneEach
      <4> QED  BY <4>1, <4>2, <4>3
    <3> QED  BY <2>2, <3>2 DEF OneEach
  <2> QED  BY <2>5, <2>6, <2>7 DEF GoodIndex
<1>2. CASE at # 0 /\ ShouldReplace(e, x.entries[at])
  <2>1. /\ y.entries = [x.entries EXCEPT ![at] = e]
        /\ y.indexes = FileUnder(x.indexes, e, at)
    BY <1>2 DEF PushDeduped, Outcome, Place
  <2>2. /\ at \in DOMAIN x.entries
        /\ e.id # None /\ x.entries[at].id = e.id
        /\ x.entries[at].req = e.req \/ e.side \/ x.entries[at].side
    BY <1>2, ExistingIs
  <2>3. x.entries[at] \in Entry
    BY <1>0, <2>2
  <2>4. e.side => x.entries[at].side
    BY <1>2, <2>3 DEF ShouldReplace, Entry
  <2> HIDE DEF at
  <2>5. y.indexes \in Lists(Len(x.entries)) /\ AddsPlace(x.indexes, y.indexes, e, at)
    <3> HIDE DEF y
    <3> QED  BY <1>0, <2>1, <2>2, FileUnderIs
  <2>6. /\ y.entries \in Seq(Entry) /\ Len(y.entries) = Len(x.entries)
        /\ DOMAIN y.entries = DOMAIN x.entries
        /\ y.entries[at] = e
        /\ \A i \in DOMAIN x.entries : i # at => y.entries[i] = x.entries[i]
    BY <1>0, <2>1, <2>2
  <2>7. IndexType(y)
    BY <2>5, <2>6 DEF IndexType
  <2>8. Filed(y)
    <3>1. ASSUME NEW i \in DOMAIN x.entries, i # at, x.entries[i].id # None
          PROVE  /\ i \in ToSet(y.indexes[<<x.entries[i].id, x.entries[i].req>>])
                 /\ i \in ToSet(y.indexes[<<x.entries[i].id, None>>])
      <4>1. x.entries[i] \in Entry
        BY <1>0
      <4>2. <<x.entries[i].id, x.entries[i].req>> \in Key /\ <<x.entries[i].id, None>> \in Key
        BY <3>1, <4>1 DEF Key, Entry
      <4> QED  BY <2>5, <3>1, <4>2 DEF GoodIndex, Filed, AddsPlace
    <3> QED  BY <2>5, <2>6, <3>1 DEF Filed, AddsPlace
  <2>9. OneEach(y)
    <3>1. \A i \in DOMAIN x.entries : i # at /\ x.entries[i].id = e.id =>
              x.entries[at].req # x.entries[i].req /\ ~x.entries[at].side /\ ~x.entries[i].side
      BY <2>2 DEF GoodIndex, OneEach
    <3>2. \A i \in DOMAIN x.entries : i # at /\ x.entries[i].id = e.id =>
              e.req # x.entries[i].req /\ ~e.side /\ ~x.entries[i].side
      BY <2>2, <2>4, <3>1
    <3> QED  BY <2>6, <3>2 DEF GoodIndex, OneEach
  <2> QED  BY <2>7, <2>8, <2>9 DEF GoodIndex
<1>3. CASE at # 0 /\ ~ShouldReplace(e, x.entries[at])
  BY <1>3 DEF PushDeduped, Outcome
<1> QED  BY <1>1, <1>2, <1>3

----------------------------------------------------------------------------
(***************************************************************************)
(* What an index keeps of the entries offered to it, in whatever order     *)
(* they come.                                                              *)
(***************************************************************************)
\* Two entries are copies of each other: of one response, or of one message and a sidechain's.
AreCopies(a, b) == a.id = b.id /\ (a.side \/ b.side \/ a.req = b.req)

Offers == [Entry -> Nat]

\* The index x keeps what it should of the entries offered to it, the entry e O[e] times: every
\* one without a message id, and of the others the best of the copies of each.
Keeps(x, O) ==
    /\ \A e \in Entry : e.id = None => HowMany(x.entries, {e}) = O[e]
    /\ \A i \in DOMAIN x.entries : LET kept == x.entries[i] IN
          kept.id # None =>
              /\ O[kept] > 0
              /\ \A e \in Entry : O[e] > 0 /\ AreCopies(e, kept) => ~ShouldReplace(e, kept)
    /\ \A e \in Entry : O[e] > 0 /\ e.id # None =>
          \E i \in DOMAIN x.entries : AreCopies(e, x.entries[i])

OneMore(O, e) == [O EXCEPT ![e] = @ + 1]

\* ShouldReplace orders entries, and those that tie agree in what it looks at.
LEMMA Ranks ==
    /\ \A a \in Entry : ~ShouldReplace(a, a)
    /\ \A a, b, c \in Entry : ~ShouldReplace(a, b) /\ ShouldReplace(c, b) => ~ShouldReplace(a, c)
    /\ \A a, b \in Entry : ~ShouldReplace(a, b) /\ ~ShouldReplace(b, a) =>
          a.side = b.side /\ a.tokens = b.tokens /\ a.cost = b.cost /\ a.speed = b.speed
<1>1. \A a \in Entry : /\ a.side \in BOOLEAN /\ a.speed \in BOOLEAN
                       /\ a.tokens \in Nat /\ a.cost \in Nat
  BY DEF Entry
<1> QED  BY <1>1 DEF ShouldReplace

\* No two kept entries with a message id are copies of each other.
LEMMA KeptAreNoCopies ==
    ASSUME NEW x, OneEach(x), NEW i \in DOMAIN x.entries, NEW j \in DOMAIN x.entries, i # j,
           x.entries[i].id # None
    PROVE  ~AreCopies(x.entries[i], x.entries[j])
  BY DEF OneEach, AreCopies

\* An index that was offered nothing keeps nothing.
LEMMA EmptyKeeps == ASSUME NEW O \in Offers, \A e \in Entry : O[e] = 0 PROVE Keeps(EmptyIndex, O)
<1>1. EmptyIndex.entries = <<>> /\ DOMAIN <<>> = {}
  BY DEF EmptyIndex
<1> QED  BY <1>1, HowManyOfNothing DEF Keeps

\* Offering an entry: of the entries without an id all are kept, of the others the best.
THEOREM PushKeepsBest ==
    ASSUME NEW x, GoodIndex(x), NEW O \in Offers, Keeps(x, O), NEW e \in Entry
    PROVE  Keeps(PushDeduped(x, e), OneMore(O, e))
<1> DEFINE at == ExistingIndex(x, e)
           y == PushDeduped(x, e)
           P == OneMore(O, e)
<1>0. /\ x.entries \in Seq(Entry) /\ DOMAIN x.entries = 1 .. Len(x.entries) /\ Len(x.entries) \in Nat
      /\ \A i \in DOMAIN x.entries : x.entries[i] \in Entry
      /\ OneEach(x)
  BY DEF GoodIndex, IndexType
<1>1. /\ P \in Offers /\ P[e] > 0
      /\ \A d \in Entry : d # e => P[d] = O[d]
      /\ P[e] = O[e] + 1
      /\ \A d \in Entry : (P[d] > 0 <=> O[d] > 0 \/ d = e)
  <2>1. \A d \in Entry : O[d] \in Nat /\ P[d] = IF d = e THEN O[d] + 1 ELSE O[d]
    BY DEF Offers, OneMore
  <2>2. P \in Offers
    BY DEF Offers, OneMore
  <2> HIDE DEF P
  <2> QED  BY <2>1, <2>2
<1>2. /\ \A d \in Entry : d.id = None => HowMany(x.entries, {d}) = O[d]
      /\ \A i \in DOMAIN x.entries : x.entries[i].id # None =>
            /\ O[x.entries[i]] > 0
            /\ \A d \in Entry : O[d] > 0 /\ AreCopies(d, x.entries[i])
                                    => ~ShouldReplace(d, x.entries[i])
      /\ \A d \in Entry : O[d] > 0 /\ d.id # None =>
            \E i \in DOMAIN x.entries : AreCopies(d, x.entries[i])
  BY DEF Keeps
<1> HIDE DEF P
<1>3. CASE at = 0
  <2> DEFINE n == Len(x.entries) + 1
  <2>1. y.entries = Append(x.entries, e)
    BY <1>3 DEF PushDeduped, Outcome, Place
  <2>2. /\ DOMAIN y.entries = DOMAIN x.entries \cup {n} /\ n \notin DOMAIN x.entries
        /\ y.entries[n] = e /\ \A i \in DOMAIN x.entries : y.entries[i] = x.entries[i]
    BY <1>0, <2>1
  <2>3. \A i \in DOMAIN x.entries : e.id # None => ~AreCopies(e, x.entries[i])
    BY <1>3, ExistingIs DEF AreCopies
  <2> HIDE DEF n, at, y
  <2>4. ASSUME NEW d \in Entry, d.id = None PROVE HowMany(y.entries, {d}) = P[d]
    <3>1. HowMany(y.entries, {d}) = HowMany(x.entries, {d}) + IF e \in {d} THEN 1 ELSE 0
      BY <1>0, <2>1, HowManyOfMore
    <3>2. HowMany(x.entries, {d}) = O[d] /\ O[d] \in Nat
      BY <1>2, <2>4 DEF Offers
    <3> QED  BY <1>1, <3>1, <3>2
  <2>5. ASSUME NEW i \in DOMAIN y.entries, y.entries[i].id # None
        PROVE  /\ P[y.entries[i]] > 0
               /\ \A d \in Entry : P[d] > 0 /\ AreCopies(d, y.entries[i])
                                       => ~ShouldReplace(d, y.entries[i])
    <3>1. CASE i = n
      <4>1. ASSUME NEW d \in Entry, O[d] > 0, AreCopies(d, e) PROVE ~ShouldReplace(d, e)
        <5>1. d.id = e.id /\ d.id # None /\ e.id # None
          BY <2>2, <2>5, <3>1, <4>1 DEF AreCopies
        <5>2. PICK j \in DOMAIN x.entries : AreCopies(d, x.entries[j])
          BY <1>2, <4>1, <5>1
        <5>3. ~AreCopies(e, x.entries[j])
          BY <2>3, <5>1
        <5>4. ~e.side /\ ~x.entries[j].side /\ x.entries[j].req # e.req
          BY <5>1, <5>2, <5>3 DEF AreCopies
        <5>5. d.side
          BY <4>1, <5>2, <5>4 DEF AreCopies
        <5> QED  BY <5>4, <5>5 DEF ShouldReplace
      <4> QED  BY <1>1, <2>2, <3>1, <4>1, Ranks
    <3>2. CASE i # n
      <4>1. i \in DOMAIN x.entries /\ y.entries[i] = x.entries[i] /\ x.entries[i] \in Entry
        BY <1>0, <2>2, <3>2
      <4>2. AreCopies(e, x.entries[i]) => FALSE
        BY <2>3, <2>5, <4>1 DEF AreCopies
      <4> QED  BY <1>1, <1>2, <2>5, <4>1, <4>2
    <3> QED  BY <3>1, <3>2
  <2>6. ASSUME NEW d \in Entry, P[d] > 0, d.id # None
        PROVE  \E i \in DOMAIN y.entries : AreCopies(d, y.entries[i])
    <3>1. CASE d = e
      BY <2>2, <3>1 DEF AreCopies
    <3>2. CASE d # e
      BY <1>1, <1>2, <2>2, <2>6, <3>2
    <3> QED  BY <3>1, <3>2
  <2> QED  BY <2>4, <2>5, <2>6 DEF Keeps, P, y
<1>4. ASSUME at # 0
      PROVE  /\ at \in DOMAIN x.entries /\ AreCopies(e, x.entries[at])
             /\ e.id # None /\ x.entries[at].id = e.id
  BY <1>4, ExistingIs DEF AreCopies
<1>5. CASE at # 0 /\ ShouldReplace(e, x.entries[at])
  <2> DEFINE old == x.entries[at]
  <2>1. y.entries = [x.entries EXCEPT ![at] = e]
    BY <1>5 DEF PushDeduped, Outcome, Place
  <2>2. at \in DOMAIN x.entries /\ AreCopies(e, old) /\ e.id # None /\ old.id = e.id /\ old \in Entry
    BY <1>0, <1>4, <1>5
  <2> HIDE DEF at, y
  <2>3. /\ DOMAIN y.entries = DOMAIN x.entries /\ y.entries[at] = e
        /\ \A i \in DOMAIN x.entries : i # at => y.entries[i] = x.entries[i]
    BY <1>0, <2>1, <2>2
  <2>4. ShouldReplace(e, old)
    BY <1>5
  <2>5. /\ \A d \in Entry : O[d] > 0 /\ AreCopies(d, old) => ~ShouldReplace(d, old)
        /\ \A i \in DOMAIN x.entries : i # at => ~AreCopies(old, x.entries[i])
    BY <1>0, <1>2, <2>2, KeptAreNoCopies
  <2> HIDE DEF old
  <2>6. (e.side => old.side) /\ (old.side \/ old.req = e.req)
    BY <2>2, <2>4 DEF ShouldReplace, AreCopies, Entry
  \* The copies of the new entry are those of the one it replaces.
  <2>7. ASSUME NEW d \in Entry, O[d] > 0 PROVE AreCopies(d, e) <=> AreCopies(d, old)
    <3>1. CASE old.side
      <4>1. d.id = old.id => d.side
        <5>1. d.id = old.id => ~ShouldReplace(d, old)
          BY <2>5, <2>7, <3>1 DEF AreCopies
        <5> QED  BY <3>1, <5>1 DEF ShouldReplace
      <4> QED  BY <2>2, <3>1, <4>1 DEF AreCopies
    <3>2. CASE ~old.side
      BY <2>2, <2>6, <3>2 DEF AreCopies
    <3> QED  BY <3>1, <3>2
  <2>8. ASSUME NEW d \in Entry, d.id = None PROVE HowMany(y.entries, {d}) = P[d]
    <3>1. \A i \in DOMAIN y.entries : y.entries[i] \in {d} <=> x.entries[i] \in {d}
      BY <2>2, <2>3, <2>8 DEF old
    <3>2. HowMany(y.entries, {d}) = HowMany(x.entries, {d})
      BY <2>3, <3>1, HowManySame
    <3> QED  BY <1>1, <1>2, <2>2, <2>8, <3>2
  <2>9. ASSUME NEW i \in DOMAIN y.entries, y.entries[i].id # None
        PROVE  /\ P[y.entries[i]] > 0
               /\ \A d \in Entry : P[d] > 0 /\ AreCopies(d, y.entries[i])
                                       => ~ShouldReplace(d, y.entries[i])
    <3>1. CASE i = at
      <4>1. ASSUME NEW d \in Entry, O[d] > 0, AreCopies(d, e) PROVE ~ShouldReplace(d, e)
        BY <2>2, <2>4, <2>5, <2>7, <4>1, Ranks
      <4> QED  BY <1>1, <2>3, <3>1, <4>1, Ranks
    <3>2. CASE i # at
      <4>1. i \in DOMAIN x.entries /\ y.entries[i] = x.entries[i] /\ x.entries[i] \in Entry
        BY <1>0, <2>3, <3>2
      <4>2. ~AreCopies(e, x.entries[i])
        <5>1. ~AreCopies(old, x.entries[i])
          BY <2>5, <3>2, <4>1
        <5> QED  BY <2>2, <2>6, <5>1 DEF AreCopies
      <4> QED  BY <1>1, <1>2, <2>9, <4>1, <4>2
    <3> QED  BY <3>1, <3>2
  <2>10. ASSUME NEW d \in Entry, P[d] > 0, d.id # None
         PROVE  \E i \in DOMAIN y.entries : AreCopies(d, y.entries[i])
    <3>1. CASE d = e
      BY <2>2, <2>3, <3>1 DEF AreCopies
    <3>2. CASE d # e
      <4>1. O[d] > 0
        BY <1>1, <2>10, <3>2
      <4>2. PICK i \in DOMAIN x.entries : AreCopies(d, x.entries[i])
        BY <1>2, <2>10, <4>1
      <4> QED  BY <2>3, <2>7, <4>1, <4>2 DEF old
    <3> QED  BY <3>1, <3>2
  <2> QED  BY <2>8, <2>9, <2>10 DEF Keeps, P, y
<1>6. CASE at # 0 /\ ~ShouldReplace(e, x.entries[at])
  <2> DEFINE old == x.entries[at]
  <2>1. y = x
    BY <1>6 DEF PushDeduped, Outcome
  <2>2. at \in DOMAIN x.entries /\ AreCopies(e, old) /\ e.id # None /\ old.id = e.id /\ old \in Entry
    BY <1>0, <1>4, <1>6
  <2> HIDE DEF at, y
  <2>3. ~ShouldReplace(e, old) /\ \A i \in DOMAIN x.entries : i # at => ~AreCopies(old, x.entries[i])
    BY <1>0, <1>6, <2>2, KeptAreNoCopies
  <2>4. ASSUME NEW d \in Entry, d.id = None PROVE HowMany(x.entries, {d}) = P[d]
    BY <1>1, <1>2, <2>2, <2>4
  <2>5. ASSUME NEW i \in DOMAIN x.entries, AreCopies(e, x.entries[i])
        PROVE  ~ShouldReplace(e, x.entries[i])
    <3>1. CASE i = at
      BY <2>3, <3>1 DEF old
    <3>2. CASE i # at
      <4>1. ~old.side /\ ~x.entries[i].side /\ old.req # x.entries[i].req
        BY <2>2, <2>3, <2>5, <3>2 DEF AreCopies
      <4>2. e.side
        BY <2>2, <2>5, <4>1 DEF AreCopies
      <4> QED  BY <4>1, <4>2 DEF ShouldReplace
    <3> QED  BY <3>1, <3>2
  <2>6. ASSUME NEW i \in DOMAIN x.entries, x.entries[i].id # None
        PROVE  /\ P[x.entries[i]] > 0
               /\ \A d \in Entry : P[d] > 0 /\ AreCopies(d, x.entries[i])
                                       => ~ShouldReplace(d, x.entries[i])
    BY <1>0, <1>1, <1>2, <2>3, <2>5, <2>6
  <2>7. ASSUME NEW d \in Entry, P[d] > 0, d.id # None
        PROVE  \E i \in DOMAIN x.entries : AreCopies(d, x.entries[i])
    BY <1>1, <1>2, <2>2, <2>7
  <2> QED  BY <2>1, <2>4, <2>6, <2>7 DEF Keeps, P, y
<1> QED  BY <1>3, <1>5, <1>6 DEF P
\* What Winners tells apart of two entries.
LEMMA ShapeIs ==
    ASSUME NEW a \in Entry, NEW b \in Entry
    PROVE  /\ a.id = None => (Shape(b) = Shape(a) <=> b = a)
           /\ a.id # None =>
                 (Shape(b) = Shape(a) <=>
                    /\ b.id = a.id /\ b.side = a.side /\ b.tokens = a.tokens /\ b.cost = a.cost
                    /\ b.speed = a.speed /\ (a.side \/ b.req = a.req))
<1>1. ASSUME NEW c \in Entry
      PROVE  /\ c.id = None => Shape(c) = c
             /\ c.id # None => Shape(c) = [id |-> c.id, req |-> IF c.side THEN None ELSE c.req,
                                           side |-> c.side, tokens |-> c.tokens, cost |-> c.cost,
                                           speed |-> c.speed]
  BY DEF Shape, Measure
<1>2. \A c \in Entry : Shape(c).id = c.id
  BY <1>1
<1> QED  BY <1>1, <1>2

\* Two good indexes that keep what they should of the same offers: to each entry of the one
\* there is one of the other that counts for the same.
LEMMA SameShapes ==
    ASSUME NEW x, GoodIndex(x), NEW y, GoodIndex(y), NEW O \in Offers, Keeps(x, O), Keeps(y, O),
           NEW i \in DOMAIN x.entries
    PROVE  \E j \in DOMAIN y.entries : Shape(y.entries[j]) = Shape(x.entries[i])
<1> DEFINE a == x.entries[i]
<1>1. /\ x.entries \in Seq(Entry) /\ y.entries \in Seq(Entry) /\ a \in Entry
      /\ \A j \in DOMAIN y.entries : y.entries[j] \in Entry
  BY DEF GoodIndex, IndexType
<1>2. CASE a.id = None
  <2>1. HowMany(x.entries, {a}) # 0
    BY <1>1, HowManySome
  <2>2. HowMany(x.entries, {a}) = O[a] /\ HowMany(y.entries, {a}) = O[a]
    BY <1>1, <1>2 DEF Keeps
  <2>3. \E j \in DOMAIN y.entries : y.entries[j] \in {a}
    BY <1>1, <2>1, <2>2, HowManySome
  <2> QED  BY <2>3
<1>3. CASE a.id # None
  <2>1. O[a] > 0 /\ \A e \in Entry : O[e] > 0 /\ AreCopies(e, a) => ~ShouldReplace(e, a)
    BY <1>3 DEF Keeps
  <2>2. PICK j \in DOMAIN y.entries : AreCopies(a, y.entries[j])
    BY <1>1, <1>3, <2>1 DEF Keeps
  <2> DEFINE b == y.entries[j]
  <2>3. b \in Entry /\ b.id = a.id /\ AreCopies(a, b) /\ AreCopies(b, a)
    BY <1>1, <2>2 DEF AreCopies
  <2>4. O[b] > 0 /\ \A e \in Entry : O[e] > 0 /\ AreCopies(e, b) => ~ShouldReplace(e, b)
    BY <1>3, <2>3 DEF Keeps
  <2> HIDE DEF a, b
  <2>5. ~ShouldReplace(a, b) /\ ~ShouldReplace(b, a)
    BY <1>1, <2>1, <2>3, <2>4
  <2>6. a.side = b.side /\ a.tokens = b.tokens /\ a.cost = b.cost /\ a.speed = b.speed
    BY <1>1, <2>3, <2>5, Ranks
  <2>7. a.side \/ b.req = a.req
    BY <2>3, <2>6 DEF AreCopies
  <2>8. Shape(b) = Shape(a)
    BY <1>1, <1>3, <2>3, <2>6, <2>7, ShapeIs
  <2> QED  BY <2>8 DEF a, b
<1> QED  BY <1>2, <1>3

\* An entry with a message id is the only one kept of its kind.
LEMMA OneOfItsShape ==
    ASSUME NEW x, GoodIndex(x), NEW i \in DOMAIN x.entries, x.entries[i].id # None, NEW m,
           m = Shape(x.entries[i])
    PROVE  Cardinality({j \in DOMAIN x.entries : Shape(x.entries[j]) = m}) = 1
<1>1. \A j \in DOMAIN x.entries : x.entries[j] \in Entry
  BY DEF GoodIndex, IndexType
<1>2. ASSUME NEW j \in DOMAIN x.entries, Shape(x.entries[j]) = m PROVE j = i
  <2>1. AreCopies(x.entries[i], x.entries[j])
    BY <1>1, <1>2, ShapeIs DEF AreCopies
  <2> QED  BY <2>1, KeptAreNoCopies DEF GoodIndex
<1>3. {j \in DOMAIN x.entries : Shape(x.entries[j]) = m} = {i}
  BY <1>2
<1> QED  BY <1>3, FS_Singleton

\* What the index keeps does not depend on the order in which it was offered the entries.
THEOREM SameWinners ==
    ASSUME NEW x, GoodIndex(x), NEW y, GoodIndex(y), NEW O \in Offers, Keeps(x, O), Keeps(y, O)
    PROVE  Winners(x.entries) = Winners(y.entries)
<1> DEFINE Places(z, m) == {i \in DOMAIN z.entries : Shape(z.entries[i]) = m}
           Shapes(z) == {Shape(z.entries[i]) : i \in DOMAIN z.entries}
<1>0. /\ \A i \in DOMAIN x.entries : x.entries[i] \in Entry
      /\ \A j \in DOMAIN y.entries : y.entries[j] \in Entry
  BY DEF GoodIndex, IndexType
<1>1. Shapes(x) = Shapes(y)
  BY SameShapes
<1>2. ASSUME NEW m \in Shapes(x) PROVE Cardinality(Places(x, m)) = Cardinality(Places(y, m))
  <2>1. PICK i \in DOMAIN x.entries : m = Shape(x.entries[i])
    OBVIOUS
  <2>2. PICK j \in DOMAIN y.entries : m = Shape(y.entries[j])
    BY <1>1
  <2> DEFINE a == x.entries[i]
             b == y.entries[j]
  <2>3. a \in Entry /\ b \in Entry /\ Shape(a) = m /\ Shape(b) = m
    BY <1>0, <2>1, <2>2
  <2>4. CASE a.id = None
    <3>1. /\ Places(x, m) = {k \in DOMAIN x.entries : x.entries[k] \in {a}}
          /\ Places(y, m) = {k \in DOMAIN y.entries : y.entries[k] \in {a}}
      <4>1. \A c \in Entry : Shape(c) = m <=> c \in {a}
        BY <2>3, <2>4, ShapeIs
      <4> QED  BY <1>0, <4>1
    <3>2. HowMany(x.entries, {a}) = O[a] /\ HowMany(y.entries, {a}) = O[a]
      BY <2>3, <2>4 DEF Keeps
    <3> QED  BY <3>1, <3>2 DEF HowMany
  <2>5. CASE a.id # None
    <3>1. b.id # None
      BY <2>3, <2>5, ShapeIs
    <3>2. Cardinality(Places(x, m)) = 1
      BY <2>1, <2>5, OneOfItsShape
    <3>3. Cardinality(Places(y, m)) = 1
      BY <2>2, <3>1, OneOfItsShape
    <3> QED  BY <3>2, <3>3
  <2> QED  BY <2>4, <2>5
<1>3. /\ Winners(x.entries) = [m \in Shapes(x) |-> Cardinality(Places(x, m))]
      /\ Winners(y.entries) = [m \in Shapes(y) |-> Cardinality(Places(y, m))]
  BY DEF Winners
<1> HIDE DEF Shapes, Places
<1> QED  BY <1>1, <1>2, <1>3

GoodIndexes == {x \in [entries: Seq(Entry), indexes: [Key -> Seq(Nat)]] : GoodIndex(x)}

\* Offering an entry makes a good index a good index.
LEMMA PushIsGood ==
    ASSUME NEW x \in GoodIndexes, NEW e \in Entry
    PROVE  PushDeduped(x, e) \in GoodIndexes
<1> DEFINE y == PushDeduped(x, e)
<1>1. GoodIndex(y)
  BY PushKeepsGood DEF GoodIndexes
<1>2. y = x \/ y = [entries |-> y.entries, indexes |-> y.indexes]
  BY DEF PushDeduped, Outcome
<1> HIDE DEF y
<1>3. y.entries \in Seq(Entry) /\ y.indexes \in [Key -> Seq(Nat)]
  <2>1. y.entries \in Seq(Entry) /\ y.indexes \in [Key -> Seq(1 .. Len(y.entries))]
    BY <1>1 DEF GoodIndex, IndexType, Lists
  <2>2. Seq(1 .. Len(y.entries)) \subseteq Seq(Nat)
    BY <2>1
  <2> QED  BY <2>1, <2>2
<1>4. CASE y = x
  BY <1>4 DEF y
<1>5. CASE y # x
  BY <1>1, <1>2, <1>3, <1>5 DEF GoodIndexes, y
<1> QED  BY <1>4, <1>5 DEF y

\* A scan from nothing keeps what it should of the entries it is given.
LEMMA ScanFreshKeeps ==
    ASSUME NEW es \in Seq(Entry)
    PROVE  /\ GoodIndex(ScanFresh(es))
           /\ [e \in Entry |-> HowMany(es, {e})] \in Offers
           /\ Keeps(ScanFresh(es), [e \in Entry |-> HowMany(es, {e})])
<1> DEFINE N == Len(es)
           Is(h) == h = [n \in 0 .. N |-> IF n = 0 THEN EmptyIndex ELSE PushDeduped(h[n-1], es[n])]
           h == CHOOSE h : Is(h)
           step == [n \in 1 .. N |-> [x \in GoodIndexes |-> PushDeduped(x, es[n])]]
           upTo(n) == [i \in 1 .. n |-> es[i]]
           O(n) == [e \in Entry |-> HowMany(upTo(n), {e})]
<1>1. N \in Nat /\ \A n \in 1 .. N : es[n] \in Entry
  OBVIOUS
<1>2. ScanFresh(es) = h[N]
  BY DEF ScanFresh
<1>3. EmptyIndex \in GoodIndexes
  BY EmptyGood DEF EmptyIndex, GoodIndexes
<1>4. \E g \in [0 .. N -> GoodIndexes] : Is(g)
  <2>1. \A n \in 1 .. N : \A x \in GoodIndexes : step[n][x] = PushDeduped(x, es[n])
    OBVIOUS
  <2>2. \A n \in 1 .. N : \A x \in GoodIndexes : step[n][x] \in GoodIndexes
    BY <1>1, <2>1, PushIsGood
  <2> HIDE DEF step, N
  <2>3. Recurs(GoodIndexes, N, EmptyIndex, step)
    BY <1>1, <1>3, <2>2, Recursion
  <2>4. PICK g \in [0 .. N -> GoodIndexes] :
           g[0] = EmptyIndex /\ \A n \in 1 .. N : g[n] = step[n][g[n-1]]
    BY <2>3 DEF Recurs
  <2>5. \A n \in 1 .. N : g[n] = PushDeduped(g[n-1], es[n])
    <3> SUFFICES ASSUME NEW n \in 1 .. N PROVE g[n] = PushDeduped(g[n-1], es[n])
      OBVIOUS
    <3>1. n - 1 \in 0 .. N /\ g[n-1] \in GoodIndexes
      BY <1>1
    <3> QED  BY <2>1, <2>4, <3>1
  <2>6. \A n \in 0 .. N : g[n] = IF n = 0 THEN EmptyIndex ELSE PushDeduped(g[n-1], es[n])
    BY <1>1, <2>4, <2>5
  <2>7. g = [n \in 0 .. N |-> g[n]]
    OBVIOUS
  <2> QED  BY <2>6, <2>7
<1>5. Is(h)
  BY <1>4
<1>6. h[0] = EmptyIndex /\ \A n \in 1 .. N : h[n] = PushDeduped(h[n-1], es[n])
  <2> HIDE DEF h
  <2> QED  BY <1>1, <1>5
<1> HIDE DEF h
<1>7. \A n \in 0 .. N : upTo(n) \in Seq(Entry)
  BY <1>1
<1>8. \A n \in 0 .. N : O(n) \in Offers
  <2> HIDE DEF upTo
  <2> QED  BY <1>7, HowManyType DEF Offers
<1> DEFINE T == {n \in 0 .. N : GoodIndex(h[n]) /\ Keeps(h[n], O(n))}
<1>9. 0 \in T
  <2>1. upTo(0) = <<>>
    OBVIOUS
  <2> HIDE DEF upTo
  <2>2. \A e \in Entry : O(0)[e] = 0
    BY <2>1, HowManyOfNothing
  <2>3. 0 \in 0 .. N
    BY <1>1
  <2> HIDE DEF O
  <2> QED  BY <1>6, <1>8, <2>2, <2>3, EmptyGood, EmptyKeeps
<1>10. ASSUME NEW n \in 1 .. N, n - 1 \in T PROVE n \in T
  <2>1. n \in 0 .. N /\ n - 1 \in 0 .. N /\ es[n] \in Entry
    BY <1>1
  <2>2. upTo(n) = Append(upTo(n - 1), es[n])
    BY <1>1
  <2>3. O(n) = OneMore(O(n - 1), es[n])
    <3> HIDE DEF upTo
    <3>1. upTo(n - 1) \in Seq(Entry)
      BY <1>7, <2>1
    <3>2. \A e \in Entry : /\ HowMany(upTo(n), {e})
                               = HowMany(upTo(n - 1), {e}) + IF es[n] \in {e} THEN 1 ELSE 0
                           /\ HowMany(upTo(n - 1), {e}) \in Nat
      BY <2>1, <2>2, <3>1, HowManyOfMore, HowManyType
    <3>3. \A e \in Entry : HowMany(upTo(n), {e}) =
             IF e = es[n] THEN HowMany(upTo(n - 1), {e}) + 1 ELSE HowMany(upTo(n - 1), {e})
      BY <3>2
    <3> QED  BY <3>3 DEF OneMore
  <2> HIDE DEF O
  <2>4. O(n - 1) \in Offers
    BY <1>8, <2>1
  <2> QED  BY <1>6, <1>10, <2>1, <2>3, <2>4, PushKeepsGood, PushKeepsBest
<1> HIDE DEF T
<1>11. \A n \in 0 .. N : n \in T
  BY <1>1, <1>9, <1>10, SetInduction, Zenon
<1>12. N \in 0 .. N /\ upTo(N) = es
  BY <1>1
<1>13. O(N) = [e \in Entry |-> HowMany(es, {e})]
  <2> HIDE DEF upTo
  <2> QED  BY <1>12
<1> HIDE DEF upTo, O
<1> QED  BY <1>2, <1>8, <1>11, <1>12, <1>13 DEF T
----------------------------------------------------------------------------
(***************************************************************************)
(* The index, the agents and the polling thread.                           *)
(***************************************************************************)
\* What a scan of the logs can find: entries of the lines' records, whose identities are counted.
Known == {x \in Scanned : Identity(x.entry, x.session) \in Identities}

HIDE NoneAssumption
USE WatchAssumption

Inv == TypeOK /\ GoodIndex(dd) /\ pending \in Seq(Known)

Images == ImageOf(Bytes)

\* The terminated part of some bytes is a prefix of them.
LEMMA TerminatedType == \A bytes \in Bytes : Terminated(bytes) \in 0 .. Len(bytes)
  BY DEF Terminated, Bytes

\* What follows a prefix of a log is bytes again.
LEMMA DropType == \A bytes \in Bytes, n \in Nat : Drop(bytes, n) \in Bytes
<1> SUFFICES ASSUME NEW bytes \in Bytes, NEW n \in Nat PROVE Drop(bytes, n) \in Bytes
  OBVIOUS
<1>1. \A i \in n + 1 .. Len(bytes) : bytes[i] \in Line \cup {NL}
  BY DEF Bytes
<1> QED  BY <1>1 DEF Drop, Bytes

\* A tail and the bytes appended to it are bytes.
LEMMA ConcatType == \A a, b \in Bytes : a \o b \in Bytes
  BY DEF Bytes

\* The stamp of a file image is one.
LEMMA StampType == \A image \in Images : Stamp(image) \in Stamps
  BY DEF Images, ImageOf, Stamp, Stamps, Bytes

\* A record read from a file makes an entry of the index.
LEMMA EntryOfType == \A r \in Record, f \in File : EntryOf(r, f) \in Entry
  BY DEF EntryOf, Record, Entry

\* Every entry scanned out of a file is one the index can take.
LEMMA ScanLinesType ==
    ASSUME NEW f \in File, NEW bytes \in Bytes
    PROVE  ScanLines(f, bytes) \in Seq(Known)
<1> DEFINE Recorded == UNION {ToSet(RecordsOf[l]) : l \in Line}
<1>0. ASSUME NEW l \in Line PROVE RecordsOf[l] \in Seq(Recorded \cap Record)
  <2>1. RecordsOf[l] \in Seq(Record) /\ ToSet(RecordsOf[l]) \subseteq Recorded
    OBVIOUS
  <2>2. \A i \in 1 .. Len(RecordsOf[l]) : RecordsOf[l][i] \in Recorded \cap Record
    BY <2>1 DEF ToSet
  <2> HIDE DEF Recorded
  <2> QED  BY <2>1, <2>2
<1> DEFINE R == Recorded \cap Record
<1> HIDE DEF R
<1> DEFINE perByte == [i \in 1 .. Terminated(bytes) |->
                          IF bytes[i] = NL THEN <<>> ELSE RecordsOf[bytes[i]]]
           records == FlattenSeq(perByte)
<1>1. perByte \in Seq(Seq(R))
  <2>1. Terminated(bytes) \in Nat /\ Terminated(bytes) <= Len(bytes) /\ Len(bytes) \in Nat
    BY TerminatedType DEF Bytes
  <2>2. \A i \in 1 .. Terminated(bytes) : bytes[i] \in Line \cup {NL}
    BY <2>1 DEF Bytes
  <2>3. \A i \in 1 .. Terminated(bytes) : perByte[i] \in Seq(R)
    BY <1>0, <2>2 DEF R
  <2> HIDE DEF perByte
  <2>4. DOMAIN perByte = 1 .. Terminated(bytes) /\ perByte = [i \in 1 .. Terminated(bytes) |-> perByte[i]]
    BY DEF perByte
  <2> QED  BY <2>1, <2>3, <2>4
<1>2. records \in Seq(R)
  <2> HIDE DEF perByte
  <2> QED  BY <1>1, FlattenType
<1>3. ScanLines(f, bytes) =
        [i \in DOMAIN records |-> [entry |-> EntryOf(records[i], f), session |-> SessionOf[f]]]
  BY DEF ScanLines
<1> HIDE DEF records
<1>4. \A i \in DOMAIN records :
        [entry |-> EntryOf(records[i], f), session |-> SessionOf[f]] \in Known
  <2> SUFFICES ASSUME NEW r \in R
               PROVE  [entry |-> EntryOf(r, f), session |-> SessionOf[f]] \in Known
    BY <1>2
  <2>1. EntryOf(r, f) \in Entry /\ Identity(EntryOf(r, f), SessionOf[f]) \in Identities
    BY EntryOfType DEF R, Identities
  <2> QED  BY <2>1 DEF Scanned, Known
<1>5. DOMAIN records = 1 .. Len(records) /\ Len(records) \in Nat
  BY <1>2
<1> QED  BY <1>3, <1>4, <1>5

\* What is known is scanned.
LEMMA KnownScanned == ASSUME NEW s \in Seq(Known) PROVE s \in Seq(Scanned)
  BY DEF Known

\* What feed_snapshot scans is a sequence of entries with their sessions.
LEMMA FedType ==
    ASSUME NEW f \in File, NEW cursor, cursor.tail \in Bytes, NEW image \in Images,
           NEW position \in Nat
    PROVE  Fed(f, cursor, image, position) \in Seq(Known)
<1>1. image.bytes \in Bytes
  BY DEF Images, ImageOf
<1>2. cursor.tail \o Drop(image.bytes, position) \in Bytes
  BY <1>1, DropType, ConcatType
<1> QED  BY <1>2, ScanLinesType DEF Fed

\* A fed cursor is a cursor: its offset, tail, stamp and prefix keep their types.
LEMMA AdvanceType ==
    ASSUME NEW cursor, cursor.offset \in Nat, cursor.tail \in Bytes, NEW image \in Images,
           NEW position \in Nat
    PROVE  Advance(cursor, image, position) \in Cursors
<1> DEFINE bytes == cursor.tail \o Drop(image.bytes, position)
<1>1. image.bytes \in Bytes
  BY DEF Images, ImageOf
<1>2. bytes \in Bytes
  BY <1>1, DropType, ConcatType
<1> HIDE DEF bytes
<1>3. Terminated(bytes) \in Nat
  BY <1>2, TerminatedType DEF Bytes
<1>4. Drop(bytes, Terminated(bytes)) \in Bytes
  BY <1>2, <1>3, DropType
<1>5. Advance(cursor, image, position) =
        [offset |-> cursor.offset + Terminated(bytes), tail |-> Drop(bytes, Terminated(bytes)),
         stamp |-> Stamp(image), prefix |-> image.bytes]
  BY DEF Advance, bytes
<1> QED  BY <1>1, <1>3, <1>4, <1>5, StampType DEF Cursors

\* poll_file's cursor, of a known file or a new one, has a position in the file.
LEMMA CursorAtType ==
    ASSUME TypeOK, NEW f \in File
    PROVE  /\ CursorAt(f).offset \in Nat /\ CursorAt(f).tail \in Bytes
           /\ Position(CursorAt(f)) \in Nat
<1>1. cursors[f] \in Cursors \cup {Gone} /\ <<>> \in Bytes
  BY DEF TypeOK, Bytes
<1>2. CursorAt(f).offset \in Nat /\ CursorAt(f).tail \in Bytes
  BY <1>1 DEF CursorAt, NewCursor, Cursors
<1>3. Len(CursorAt(f).tail) \in Nat
  BY <1>2 DEF Bytes
<1> QED  BY <1>2, <1>3 DEF Position

\* The cursors and the entries made of a whole listing have their types.
LEMMA SnapshotsType ==
    ASSUME TypeOK
    PROVE  FedSnapshots \in Seq(Known) /\ CursorsOfSnapshots \in [File -> Cursors \cup {Gone}]
<1>1. NewCursor.offset \in Nat /\ NewCursor.tail \in Bytes
  BY DEF NewCursor, Bytes
<1>2. \A f \in File : snapshots[f] # Gone => snapshots[f] \in Images
  BY DEF TypeOK, Images
<1> DEFINE perFile == [f \in File |->
                          IF snapshots[f] = Gone THEN <<>> ELSE Fed(f, NewCursor, snapshots[f], 0)]
<1>3. \A f \in File : perFile[f] \in Seq(Known)
  BY <1>1, <1>2, FedType
<1>4. perFile \in Seq(Seq(Known))
  <2>1. File = 1 .. NumFiles /\ NumFiles \in Nat
    BY DEF File
  <2>2. perFile = [f \in File |-> perFile[f]]
    OBVIOUS
  <2> HIDE DEF perFile
  <2> QED  BY <1>3, <2>1, <2>2, SeqIs
<1>5. FedSnapshots \in Seq(Known)
  <2> HIDE DEF perFile
  <2>1. FlattenSeq(perFile) \in Seq(Known)
    BY <1>4, FlattenType
  <2> QED  BY <2>1 DEF FedSnapshots, perFile
<1>6. CursorsOfSnapshots \in [File -> Cursors \cup {Gone}]
  BY <1>1, <1>2, AdvanceType DEF CursorsOfSnapshots
<1> QED  BY <1>5, <1>6

\* The invariant holds when the index is created.
LEMMA InitInv == Init => Inv
  BY EmptyGood DEF Init, Inv, TypeOK, GoodIndex, IndexType, Lists, EmptyIndex, ImageOf, File

\* What the agents do to their logs touches no part of the index.
LEMMA AgentKeeps ==
    ASSUME Inv, NEW f \in File,
           AppendLine(f) \/ EndLine(f) \/ Rewrite(f) \/ Replace(f) \/ Delete(f)
    PROVE  Inv'
<1> USE DEF Inv, TypeOK
<1>1. ASSUME NEW image, Change(f, image), image \in Images \cup {Gone}
      PROVE  Inv'
  BY <1>1 DEF Change, cursorVars, indexVars, readVars, Images
<1>2. clock < MaxClock => clock + 1 \in 0 .. MaxClock
  OBVIOUS
<1>3. ASSUME NEW ino \in 0 .. MaxClock, NEW bytes \in Bytes, clock < MaxClock
      PROVE  Image(ino, clock + 1, bytes) \in Images
  BY <1>2, <1>3 DEF Image, Images, ImageOf
<1>4. f \in Present => disk[f].ino \in 0 .. MaxClock /\ disk[f].bytes \in Bytes
  BY DEF Present, ImageOf
<1>5. CASE AppendLine(f)
  <2>1. <<NL>> \in Bytes /\ <<>> \in Bytes
    BY DEF Bytes
  <2>2. f \in Present => \A l \in Line : Append(disk[f].bytes, l) \in Bytes
    BY <1>4 DEF Bytes
  <2>3. f \in Present => \A l \in Line, end \in {<<NL>>, <<>>} :
          Append(disk[f].bytes, l) \o end \in Bytes
    BY <2>1, <2>2, ConcatType
  <2> QED  BY <1>1, <1>3, <1>4, <1>5, <2>3 DEF AppendLine, Change
<1>6. CASE EndLine(f)
  <2>1. f \in Present => Append(disk[f].bytes, NL) \in Bytes
    BY <1>4 DEF Bytes
  <2> QED  BY <1>1, <1>3, <1>4, <1>6, <2>1 DEF EndLine, Change
<1>7. CASE Rewrite(f)
  BY <1>1, <1>3, <1>4, <1>7 DEF Rewrite, Change
<1>8. CASE Replace(f)
  BY <1>1, <1>2, <1>3, <1>8 DEF Replace, Change
<1>9. CASE Delete(f)
  BY <1>1, <1>9 DEF Delete
<1> QED  BY <1>5, <1>6, <1>7, <1>8, <1>9

\* The reads change no part of the index.
LEMMA ReadKeeps ==
    ASSUME Inv, NEW f \in File,
           SkipFile(f) \/ OpenFile(f) \/ ReadNothing(f) \/ ReadSnapshot(f) \/ FindRewritten(f)
    PROVE  Inv'
<1> USE DEF Inv, TypeOK, diskVars, cursorVars, indexVars
<1>1. CASE SkipFile(f)
  BY <1>1 DEF SkipFile
<1>2. CASE OpenFile(f)
  BY <1>2, StampType DEF OpenFile, Present, Images
<1>3. CASE ReadNothing(f)
  BY <1>3 DEF ReadNothing
<1>4. CASE ReadSnapshot(f)
  BY <1>4 DEF ReadSnapshot, Coherent, Present
<1>5. CASE FindRewritten(f)
  BY <1>5 DEF FindRewritten, StartReads
<1> QED  BY <1>1, <1>2, <1>3, <1>4, <1>5

\* poll_file moves one cursor and queues entries of the right type.
LEMMA FeedFileKeeps ==
    ASSUME Inv, NEW f \in File, FeedFile(f)
    PROVE  Inv'
<1>1. disk[f] \in Images
  BY DEF Inv, TypeOK, FeedFile, Coherent, Present, Images
<1> DEFINE position == Position(CursorAt(f))
<1>2. /\ Advance(CursorAt(f), disk[f], position) \in Cursors
      /\ Fed(f, CursorAt(f), disk[f], position) \in Seq(Known)
  BY <1>1, CursorAtType, AdvanceType, FedType DEF Inv
<1>3. /\ cursors' \in [File -> Cursors \cup {Gone}]
      /\ pending' \in Seq(Known) /\ pending' \in Seq(Scanned)
  BY <1>2, KnownScanned DEF FeedFile, Inv, TypeOK, Cursors
<1> QED  BY <1>3 DEF FeedFile, Inv, TypeOK, diskVars, indexVars, Cursors

\* One scanned entry goes through the deduplication.
LEMMA FeedEntryKeeps ==
    ASSUME Inv, FeedEntry
    PROVE  Inv'
<1> DEFINE e == Head(pending).entry
           s == Head(pending).session
           k == Identity(e, s)
           seen == current_occurrences[k] + 1
<1>1. pending \in Seq(Known) /\ pending # <<>> /\ pending' = Tail(pending)
  BY DEF Inv, TypeOK, FeedEntry
<1>2. Head(pending) \in Scanned /\ pending' \in Seq(Known) /\ pending' \in Seq(Scanned)
  BY <1>1, HeadTailType, KnownScanned DEF Known
<1>3. e \in Entry /\ s \in Session
  BY <1>2 DEF Scanned
<1>4. dd' = PushDeduped(dd, e)
  BY DEF FeedEntry
<1>5. \/ /\ Outcome(dd, e) = "Added"
         /\ current_occurrences' = [current_occurrences EXCEPT ![k] = seen]
         /\ known_occurrences' = [known_occurrences EXCEPT ![k] = Max({@, seen})]
         /\ deduped_sessions' = Append(deduped_sessions, s)
      \/ /\ Outcome(dd, e) # "Added"
         /\ current_occurrences' = [current_occurrences EXCEPT ![k] = AtLeastOne(@)]
         /\ known_occurrences' = [known_occurrences EXCEPT ![k] = AtLeastOne(@)]
         /\ \/ deduped_sessions' = [deduped_sessions EXCEPT ![Place(dd, e)] = s]
            \/ UNCHANGED deduped_sessions
  BY DEF FeedEntry
<1>6. UNCHANGED <<diskVars, cursorVars, readVars, pc, task>>
  BY DEF FeedEntry
<1> HIDE DEF e, s, k
<1>7. GoodIndex(dd')
  BY <1>3, <1>4, PushKeepsGood DEF Inv
<1>8. /\ Outcome(dd, e) = "Added" => Len(dd'.entries) = Len(dd.entries) + 1
      /\ Outcome(dd, e) # "Added" => Len(dd'.entries) = Len(dd.entries)
  BY <1>4 DEF Inv, PushDeduped, Outcome, GoodIndex, IndexType
<1>9. deduped_sessions' \in Seq(Session) /\ Len(deduped_sessions') = Len(dd'.entries)
  <2>1. /\ deduped_sessions \in Seq(Session)
        /\ Len(deduped_sessions) = Len(dd.entries)
    BY DEF Inv, TypeOK
  <2> HIDE DEF seen
  <2>2. \/ /\ Outcome(dd, e) = "Added"
           /\ deduped_sessions' = Append(deduped_sessions, s)
        \/ /\ Outcome(dd, e) # "Added"
           /\ \/ deduped_sessions' = [deduped_sessions EXCEPT ![Place(dd, e)] = s]
              \/ UNCHANGED deduped_sessions
    BY <1>5
  <2>3. /\ [deduped_sessions EXCEPT ![Place(dd, e)] = s] \in Seq(Session)
        /\ Len([deduped_sessions EXCEPT ![Place(dd, e)] = s]) = Len(dd.entries)
        /\ Append(deduped_sessions, s) \in Seq(Session)
        /\ Len(Append(deduped_sessions, s)) = Len(dd.entries) + 1
    BY <1>3, <2>1, SeqUpdateType
  <2>4. CASE deduped_sessions' = [deduped_sessions EXCEPT ![Place(dd, e)] = s]
             /\ Outcome(dd, e) # "Added"
    BY <1>8, <2>3, <2>4
  <2>5. CASE Outcome(dd, e) = "Added" /\ deduped_sessions' = Append(deduped_sessions, s)
    BY <1>8, <2>3, <2>5
  <2>6. CASE UNCHANGED deduped_sessions /\ Outcome(dd, e) # "Added"
    BY <1>8, <2>1, <2>6
  <2> QED  BY <2>2, <2>4, <2>5, <2>6
<1>10. known_occurrences' \in [Identities -> Nat] /\ current_occurrences' \in [Identities -> Nat]
  <2>1. /\ known_occurrences \in [Identities -> Nat]
        /\ current_occurrences \in [Identities -> Nat]
    BY DEF Inv, TypeOK
  <2>2. k \in Identities => seen \in Nat /\ Max({known_occurrences[k], seen}) \in Nat
    <3> SUFFICES ASSUME k \in Identities
                 PROVE  seen \in Nat /\ Max({known_occurrences[k], seen}) \in Nat
      OBVIOUS
    <3>1. known_occurrences[k] \in Nat /\ seen \in Nat
      BY <2>1
    <3> HIDE DEF seen
    <3>2. Max({known_occurrences[k], seen}) \in {known_occurrences[k], seen}
      BY <3>1, MaxOfTwo
    <3> QED  BY <3>1, <3>2
  <2>3. k \in Identities => /\ AtLeastOne(current_occurrences[k]) \in Nat
                            /\ AtLeastOne(known_occurrences[k]) \in Nat
    BY <2>1 DEF AtLeastOne
  <2> HIDE DEF seen
  <2> QED  BY <1>5, <2>1, <2>2, <2>3, ExceptType
<1> QED  BY <1>2, <1>6, <1>7, <1>9, <1>10
         DEF Inv, TypeOK, GoodIndex, IndexType, Lists, diskVars, cursorVars, readVars

\* Every step of the agents and of the polling thread keeps the invariant.
LEMMA StepKeeps == Inv /\ [Next]_vars => Inv'
<1> SUFFICES ASSUME Inv, [Next]_vars PROVE Inv'
  OBVIOUS
<1> USE DEF diskVars, cursorVars, indexVars, readVars
<1>1. CASE UNCHANGED vars
  BY <1>1 DEF vars, Inv, TypeOK
<1>2. CASE Agent
  BY <1>2, AgentKeeps DEF Agent
<1>3. CASE Seed \/ PollPaths
  BY <1>3 DEF Seed, PollPaths, StartReads, Present, Inv, TypeOK
<1>4. CASE Deliver \/ Sleep
  BY <1>4 DEF Deliver, Sleep, Inv, TypeOK
<1>5. CASE Reading
  <2>1. ASSUME NEW f \in File,
               SkipFile(f) \/ OpenFile(f) \/ ReadNothing(f) \/ ReadSnapshot(f) \/ FindRewritten(f)
        PROVE  Inv'
    BY <2>1, ReadKeeps
  <2>2. ASSUME NEW f \in File, FeedFile(f) PROVE Inv'
    BY <2>2, FeedFileKeeps
  <2>3. CASE FeedSeed
    BY <2>3, SnapshotsType, KnownScanned DEF FeedSeed, Inv, TypeOK, Cursors
  <2>4. CASE Rebuild
    BY <2>4, SnapshotsType, KnownScanned, EmptyGood
    DEF Rebuild, Inv, TypeOK, Cursors, GoodIndex, IndexType, Lists, EmptyIndex
  <2>5. CASE RetryLater \/ EndScan \/ EndFeed
    BY <2>5 DEF RetryLater, EndScan, EndFeed, Inv, TypeOK
  <2>6. CASE FeedEntry
    BY <2>6, FeedEntryKeeps
  <2> QED  BY <1>5, <2>1, <2>2, <2>3, <2>4, <2>5, <2>6 DEF Reading
<1> QED  BY <1>1, <1>2, <1>3, <1>4, <1>5 DEF Next, Index

\* The index is a good one after every step: its places are in range, every entry with an id
\* is filed under both its keys, and a response has one entry (feed_bytes, rebuild).
THEOREM Invariance == Spec => []Inv
  BY InitInv, StepKeeps, PTL DEF Spec

\* Cursors, listings, snapshots and the index keep the shape the code's types give them, and
\* every entry kept has the session it is credited to (deduped beside deduped_sessions).
THEOREM TypeCorrect == Spec => []TypeOK
  BY Invariance, PTL DEF Inv

\* push_deduped_daily_entry counts a response once, whatever the agents write and however the
\* polls interleave with it: no two kept entries share a message and request id, and a
\* sidechain's entry is the only one of its message.
THEOREM ResponsesOnce == Spec => []OneEntryPerResponse
<1>1. Inv => OneEntryPerResponse
  BY DEF Inv, GoodIndex, OneEntryPerResponse
<1> QED  BY Invariance, <1>1, PTL

----------------------------------------------------------------------------
(***************************************************************************)
(* What the index keeps.  It has been offered what a scan of the cursors'  *)
(* prefixes finds, less what is pending; whatever the order, it keeps what *)
(* a fresh scan of those prefixes keeps.                                   *)
(***************************************************************************)
HIDE WatchAssumption

\* How many of the scanned entries in W a scan of these bytes of the file f finds.
Found(f, bytes, W) == HowMany(ScanLines(f, bytes), W)

\* How many of W each terminated line has.
PerLine(f, bytes, W) ==
    LET wanted == {r \in Record : [entry |-> EntryOf(r, f), session |-> SessionOf[f]] \in W}
    IN  [i \in 1 .. Terminated(bytes) |->
            IF bytes[i] = NL THEN 0 ELSE HowMany(RecordsOf[bytes[i]], wanted)]

\* What a scan finds is the sum of what its lines have.
LEMMA FoundIs ==
    ASSUME NEW f \in File, NEW bytes \in Bytes, NEW W
    PROVE  /\ Terminated(bytes) \in Nat
           /\ PerLine(f, bytes, W) \in [1 .. Terminated(bytes) -> Nat]
           /\ Found(f, bytes, W) = SumTo(PerLine(f, bytes, W), Terminated(bytes))
           /\ Found(f, bytes, W) \in Nat
<1> DEFINE N == Terminated(bytes)
           wanted == {r \in Record : [entry |-> EntryOf(r, f), session |-> SessionOf[f]] \in W}
           perByte == [i \in 1 .. N |-> IF bytes[i] = NL THEN <<>> ELSE RecordsOf[bytes[i]]]
           records == FlattenSeq(perByte)
           n == PerLine(f, bytes, W)
<1>1. N \in Nat /\ \A i \in 1 .. N : bytes[i] \in Line \cup {NL}
  <2>1. N \in 0 .. Len(bytes) /\ Len(bytes) \in Nat
    BY TerminatedType DEF Bytes
  <2> HIDE DEF N
  <2> QED  BY <2>1 DEF Bytes
<1>2. \A i \in 1 .. N : perByte[i] \in Seq(Record)
  BY <1>1, WatchAssumption
<1>3. perByte \in Seq(Seq(Record)) /\ Len(perByte) = N
  <2>1. perByte = [i \in 1 .. N |-> perByte[i]]
    OBVIOUS
  <2>2. DOMAIN perByte = 1 .. N
    OBVIOUS
  <2> HIDE DEF perByte, N
  <2>3. perByte \in Seq(Seq(Record))
    BY <1>1, <1>2, <2>1, SeqIs
  <2> QED  BY <1>1, <2>2, <2>3
<1>4. \A i \in 1 .. N : n[i] = HowMany(perByte[i], wanted)
  BY HowManyOfNothing DEF PerLine
<1>5. n \in [1 .. N -> Nat]
  <2>1. \A i \in 1 .. N : HowMany(perByte[i], wanted) \in Nat
    <3> HIDE DEF perByte, wanted
    <3> QED  BY <1>2, HowManyType
  <2>2. n = [i \in 1 .. N |-> n[i]]
    BY DEF PerLine
  <2> HIDE DEF n, perByte, wanted, N
  <2>3. \A i \in 1 .. N : n[i] \in Nat
    BY <1>4, <2>1
  <2> QED  BY <2>2, <2>3
<1>6. HowMany(records, wanted) = SumTo(n, N)
  <2> HIDE DEF perByte, wanted, n, N
  <2> QED  BY <1>3, <1>4, <1>5, HowManyOfAll
<1>7. records \in Seq(Record)
  <2> HIDE DEF perByte
  <2> QED  BY <1>3, FlattenType
<1>8. Found(f, bytes, W) = HowMany(records, wanted)
  <2> DEFINE scan == [i \in DOMAIN records |-> [entry |-> EntryOf(records[i], f), session |-> SessionOf[f]]]
  <2>1. ScanLines(f, bytes) = scan
    BY DEF ScanLines
  <2> HIDE DEF records
  <2>2. \A i \in DOMAIN records : records[i] \in Record
    BY <1>7
  <2>3. DOMAIN scan = DOMAIN records /\ \A i \in DOMAIN scan : scan[i] \in W <=> records[i] \in wanted
    BY <2>2
  <2> HIDE DEF scan, wanted
  <2> QED  BY <2>1, <2>3, HowManySame DEF Found
<1>9. SumTo(n, N) \in Nat
  <2>1. N \in 0 .. N
    BY <1>1
  <2> HIDE DEF n, N
  <2> QED  BY <1>1, <1>5, <2>1, SumToIs
<1> HIDE DEF records, wanted, n
<1> QED  BY <1>1, <1>5, <1>6, <1>8, <1>9 DEF n

\* A scan of no bytes finds nothing.
LEMMA NothingFound ==
    ASSUME NEW f \in File, NEW W
    PROVE  Found(f, <<>>, W) = 0 /\ <<>> \in Bytes /\ Terminated(<<>>) = 0
<1>1. <<>> \in Bytes /\ Terminated(<<>>) = 0
  BY DEF Bytes, Terminated
<1>2. /\ PerLine(f, <<>>, W) \in [1 .. 0 -> Nat]
      /\ Found(f, <<>>, W) = SumTo(PerLine(f, <<>>, W), 0)
  BY <1>1, FoundIs
<1> QED  BY <1>1, <1>2, SumToIs

\* Scanning some bytes, and then what they left unterminated with the bytes after them, finds
\* what scanning all of it at once finds, and leaves the same unterminated.
LEMMA FoundInParts ==
    ASSUME NEW f \in File, NEW p \in Bytes, NEW d \in Bytes, NEW W
    PROVE  LET t == Terminated(p)
               c == Drop(p, t) \o d
               all == p \o d
           IN  /\ Terminated(all) = t + Terminated(c)
               /\ Drop(all, Terminated(all)) = Drop(c, Terminated(c))
               /\ Found(f, all, W) = Found(f, p, W) + Found(f, c, W)
<1> DEFINE t == Terminated(p)
           c == Drop(p, t) \o d
           all == p \o d
<1>1. /\ p \in Seq(Line \cup {NL}) /\ d \in Seq(Line \cup {NL})
      /\ t \in Nat /\ t <= Len(p) /\ Len(p) \in Nat /\ Len(d) \in Nat
  BY TerminatedType DEF Bytes
<1>2. Drop(p, t) \in Bytes /\ c \in Bytes /\ all \in Bytes
  BY <1>1, DropType, ConcatType
<1>3. /\ Len(Drop(p, t)) = Len(p) - t
      /\ \A i \in 1 .. Len(p) - t : Drop(p, t)[i] = p[t + i]
  <2> HIDE DEF t
  <2> QED  BY <1>1 DEF Drop
<1>4. /\ Len(c) = (Len(p) - t) + Len(d) /\ Len(all) = Len(p) + Len(d)
      /\ \A i \in 1 .. Len(c) : c[i] = all[t + i]
  <2> DEFINE a == Drop(p, t)
  <2>1. a \in Seq(Line \cup {NL}) /\ Len(a) = Len(p) - t
    BY <1>2, <1>3 DEF Bytes
  <2>2. \A i \in 1 .. Len(p) - t : a[i] = p[t + i]
    BY <1>3
  <2> HIDE DEF t, a
  <2>3. /\ Len(a \o d) = (Len(p) - t) + Len(d) /\ Len(all) = Len(p) + Len(d)
        /\ \A i \in 1 .. Len(a) : (a \o d)[i] = a[i]
        /\ \A i \in 1 .. Len(d) : (a \o d)[Len(a) + i] = d[i]
        /\ \A i \in 1 .. Len(p) : all[i] = p[i]
        /\ \A i \in 1 .. Len(d) : all[Len(p) + i] = d[i]
    <3>1. /\ Len(a \o d) = Len(a) + Len(d)
          /\ \A i \in 1 .. Len(a) : (a \o d)[i] = a[i]
          /\ \A i \in 1 .. Len(d) : (a \o d)[Len(a) + i] = d[i]
      <4>1. a \in Seq(Line \cup {NL}) /\ d \in Seq(Line \cup {NL})
        BY <1>1, <2>1
      <4> QED  BY <4>1, ConcatIs
    <3>2. /\ Len(all) = Len(p) + Len(d)
          /\ \A i \in 1 .. Len(p) : all[i] = p[i]
          /\ \A i \in 1 .. Len(d) : all[Len(p) + i] = d[i]
      BY <1>1, ConcatIs
    <3> QED  BY <2>1, <3>1, <3>2
  <2> DEFINE b == a \o d
  <2> HIDE DEF b, all
  <2>4. ASSUME NEW i \in 1 .. Len(b) PROVE b[i] = all[t + i]
    <3>1. CASE i <= Len(a)
      <4>1. i \in 1 .. Len(p) - t /\ i \in 1 .. Len(a) /\ t + i \in 1 .. Len(p)
        BY <1>1, <2>1, <3>1
      <4> QED  BY <2>2, <2>3, <4>1 DEF b
    <3>2. CASE ~(i <= Len(a))
      <4> DEFINE j == i - Len(a)
      <4>1. j \in 1 .. Len(d) /\ Len(a) + j = i /\ Len(p) + j = t + i
        BY <1>1, <2>1, <2>3, <3>2 DEF b
      <4> HIDE DEF j
      <4> QED  BY <2>3, <4>1 DEF b
    <3> QED  BY <3>1, <3>2
  <2> QED  BY <2>3, <2>4 DEF a, b
<1>5. Terminated(all) = t + Terminated(c)
  <2>0. t = Len(p) - (IF p # <<>> /\ Last(p) # NL THEN 1 ELSE 0)
    BY DEF Terminated
  <2> HIDE DEF t
  <2>1. CASE Len(c) = 0
    <3>1. c = <<>> /\ Terminated(c) = 0
      <4>1. c \in Seq(Line \cup {NL}) /\ Len(c) = 0
        BY <1>2, <2>1 DEF Bytes
      <4> HIDE DEF c
      <4>2. c = <<>>
        BY <4>1
      <4> QED  BY <4>2, NothingFound
    <3>2. Len(d) = 0 /\ t = Len(p)
      <4> HIDE DEF c, all
      <4> QED  BY <1>1, <1>4, <2>1
    <3>3. all = p
      BY <1>1, <3>2
    <3> QED  BY <1>1, <3>1, <3>2, <3>3 DEF t
  <2>2. CASE Len(c) # 0
    <3>1. Len(c) \in Nat \ {0} /\ Len(all) = t + Len(c) /\ Len(c) \in 1 .. Len(c)
      BY <1>1, <1>4, <2>2
    <3>2. c # <<>> /\ all # <<>> /\ Last(c) = c[Len(c)] /\ Last(all) = all[Len(all)]
      BY <1>1, <3>1 DEF Last
    <3>3. Last(all) = Last(c)
      BY <1>4, <3>1, <3>2
    <3> HIDE DEF c, all
    <3> QED  BY <1>1, <3>1, <3>2, <3>3 DEF Terminated
  <2> QED  BY <2>1, <2>2
<1>6. /\ Terminated(c) \in Nat /\ Terminated(c) <= Len(c)
      /\ c \in Seq(Line \cup {NL}) /\ all \in Seq(Line \cup {NL})
  <2> HIDE DEF c, all
  <2> QED  BY <1>2, TerminatedType DEF Bytes
<1>7. Drop(all, Terminated(all)) = Drop(c, Terminated(c))
  <2> DEFINE u == Terminated(c)
  <2>1. u \in Nat /\ u <= Len(c) /\ Terminated(all) = t + u
    BY <1>5, <1>6
  <2> HIDE DEF c, all, t, u
  <2>2. Drop(all, t + u) = [i \in 1 .. Len(all) - (t + u) |-> all[(t + u) + i]]
    BY <1>1, <1>4, <1>6, <2>1 DEF Drop
  <2>3. Drop(c, u) = [i \in 1 .. Len(c) - u |-> c[u + i]]
    BY <1>1, <1>4, <1>6, <2>1 DEF Drop
  <2>4. Len(all) - (t + u) = Len(c) - u
    BY <1>1, <1>4, <2>1
  <2>5. \A i \in 1 .. Len(c) - u : all[(t + u) + i] = c[u + i]
    <3> SUFFICES ASSUME NEW i \in 1 .. Len(c) - u PROVE all[(t + u) + i] = c[u + i]
      OBVIOUS
    <3>1. u + i \in 1 .. Len(c) /\ (t + u) + i = t + (u + i)
      BY <1>1, <1>4, <2>1
    <3> QED  BY <1>4, <3>1
  <2> QED  BY <2>1, <2>2, <2>3, <2>4, <2>5 DEF u
<1>8. Found(f, all, W) = Found(f, p, W) + Found(f, c, W)
  <2> DEFINE M == Terminated(c)
             g == PerLine(f, p, W)
             h == PerLine(f, c, W)
             k == PerLine(f, all, W)
  <2>1. /\ t \in Nat /\ g \in [1 .. t -> Nat] /\ Found(f, p, W) = SumTo(g, t)
        /\ M \in Nat /\ h \in [1 .. M -> Nat] /\ Found(f, c, W) = SumTo(h, M)
        /\ k \in [1 .. t + M -> Nat] /\ Found(f, all, W) = SumTo(k, t + M)
    BY <1>2, <1>5, FoundIs
  <2>2. \A i \in 1 .. t : k[i] = g[i]
    <3>1. \A i \in 1 .. t : all[i] = p[i] /\ i \in 1 .. Terminated(all)
      <4> HIDE DEF t, c
      <4> QED  BY <1>1, <1>5, <1>6
    <3> QED  BY <3>1 DEF PerLine
  <2>3. \A j \in 1 .. M : k[t + j] = h[j]
    <3>1. \A j \in 1 .. M : all[t + j] = c[j] /\ t + j \in 1 .. Terminated(all)
      <4> HIDE DEF t, c, all
      <4> QED  BY <1>1, <1>4, <1>5, <1>6
    <3> QED  BY <3>1 DEF PerLine
  <2> HIDE DEF g, h, k, M, t, c, all
  <2>4. SumTo(k, t + M) = SumTo(g, t) + SumTo(h, M)
    <3>1. t \in Nat /\ M \in Nat /\ g \in [1 .. t -> Nat] /\ h \in [1 .. M -> Nat] /\ k \in [1 .. t + M -> Nat]
      BY <2>1
    <3> QED  BY <2>2, <2>3, <3>1, SumOfBoth
  <2> QED  BY <2>1, <2>4
<1> QED  BY <1>5, <1>7, <1>8

\* What the cursor of a file has read of it, and how many of W a scan of what all have read finds.
PrefixOf(c, f) == IF c[f] = Gone THEN <<>> ELSE c[f].prefix

Claimed(c, W) == SumTo([f \in File |-> Found(f, PrefixOf(c, f), W)], NumFiles)

\* A cursor stands after the last newline it has read and keeps what follows it.
Consumed(cursor) ==
    /\ cursor.prefix \in Bytes
    /\ cursor.offset = Terminated(cursor.prefix)
    /\ cursor.tail = Drop(cursor.prefix, cursor.offset)

SomeCursors == [File -> Cursors \cup {Gone}]

\* A new cursor has consumed nothing; the position of one is the length of what it has.
LEMMA ConsumedIs ==
    /\ Consumed(NewCursor) /\ NewCursor.prefix = <<>> /\ Position(NewCursor) = 0
    /\ \A c : Consumed(c) => Position(c) = Len(c.prefix) /\ c.tail \in Bytes
<1>1. Consumed(NewCursor) /\ Position(NewCursor) = 0
  <2>1. <<>> \in Bytes /\ Terminated(<<>>) = 0 /\ Drop(<<>>, 0) = <<>>
    BY DEF Bytes, Terminated, Drop
  <2> QED  BY <2>1 DEF Consumed, NewCursor, Position
<1>2. ASSUME NEW c, Consumed(c) PROVE Position(c) = Len(c.prefix) /\ c.tail \in Bytes
  <2> DEFINE p == c.prefix
             t == Terminated(p)
  <2>1. p \in Bytes /\ p \in Seq(Line \cup {NL}) /\ t \in Nat /\ t <= Len(p) /\ Len(p) \in Nat
    BY <1>2, TerminatedType DEF Consumed, Bytes
  <2>2. c.offset = t /\ c.tail = Drop(p, t)
    BY <1>2 DEF Consumed
  <2> HIDE DEF p, t
  <2>3. Len(Drop(p, t)) = Len(p) - t /\ Drop(p, t) \in Bytes
    BY <2>1, DropType DEF Drop
  <2> QED  BY <2>1, <2>2, <2>3 DEF Position, p
<1> QED  BY <1>1, <1>2 DEF NewCursor

\* Feeding an image that begins with what the cursor has consumed: the cursor has consumed the
\* image, and what is fed is what the image has and the prefix had not.
LEMMA AdvanceConsumes ==
    ASSUME NEW f \in File, NEW c, Consumed(c), NEW image \in Images,
           Len(image.bytes) >= Len(c.prefix), SubSeq(image.bytes, 1, Len(c.prefix)) = c.prefix
    PROVE  LET next == Advance(c, image, Position(c)) IN
           /\ Consumed(next) /\ next.prefix = image.bytes
           /\ \A W : Found(f, image.bytes, W)
                      = Found(f, c.prefix, W) + HowMany(Fed(f, c, image, Position(c)), W)
<1> DEFINE p == c.prefix
           all == image.bytes
           d == Drop(all, Len(p))
           t == Terminated(p)
           fed == Drop(p, t) \o d
           next == Advance(c, image, Position(c))
<1>1. p \in Bytes /\ all \in Bytes /\ Len(p) \in Nat /\ d \in Bytes
  <2>1. p \in Bytes /\ all \in Bytes /\ Len(p) \in Nat
    BY DEF Consumed, Images, ImageOf, Bytes
  <2> QED  BY <2>1, DropType
<1>2. all = p \o d
  <2> HIDE DEF p, all
  <2>1. p \in Seq(Line \cup {NL}) /\ all \in Seq(Line \cup {NL}) /\ Len(all) \in Nat
    BY <1>1 DEF Bytes
  <2>2. Len(all) >= Len(p) /\ SubSeq(all, 1, Len(p)) = p
    BY DEF p, all
  <2>3. \A i \in 1 .. Len(p) : all[i] = p[i]
    BY <1>1, <2>1, <2>2
  <2>4. Len(d) = Len(all) - Len(p) /\ \A i \in 1 .. Len(d) : d[i] = all[Len(p) + i]
    BY <1>1, <2>1, <2>2 DEF Drop
  <2>5. d \in Seq(Line \cup {NL}) /\ Len(d) \in Nat
    BY <1>1 DEF Bytes
  <2> DEFINE s == p \o d
  <2> HIDE DEF d
  <2>6. s \in Seq(Line \cup {NL}) /\ Len(s) = Len(all)
        /\ (\A i \in 1 .. Len(p) : s[i] = p[i])
        /\ (\A i \in 1 .. Len(d) : s[Len(p) + i] = d[i])
    BY <1>1, <2>1, <2>4, <2>5, ConcatIs
  <2> HIDE DEF s
  <2>7. ASSUME NEW i \in 1 .. Len(all) PROVE s[i] = all[i]
    <3>1. CASE i <= Len(p)
      BY <1>1, <2>3, <2>6, <3>1
    <3>2. CASE ~(i <= Len(p))
      <4> DEFINE j == i - Len(p)
      <4>1. j \in 1 .. Len(d) /\ Len(p) + j = i
        BY <1>1, <2>1, <2>4, <2>5, <3>2
      <4> HIDE DEF j
      <4> QED  BY <2>4, <2>6, <4>1
    <3> QED  BY <3>1, <3>2
  <2>8. s = all
    BY <2>1, <2>6, <2>7
  <2> QED  BY <2>8 DEF s
<1>3. c.tail = Drop(p, t) /\ c.offset = t /\ Position(c) = Len(p)
  BY ConsumedIs DEF Consumed
<1>4. /\ next.offset = t + Terminated(fed) /\ next.tail = Drop(fed, Terminated(fed))
      /\ next.prefix = all
      /\ Fed(f, c, image, Position(c)) = ScanLines(f, fed)
  BY <1>3 DEF Advance, Fed
<1>5. /\ Terminated(p \o d) = t + Terminated(fed)
      /\ Drop(p \o d, Terminated(p \o d)) = Drop(fed, Terminated(fed))
      /\ \A W : Found(f, p \o d, W) = Found(f, p, W) + Found(f, fed, W)
  <2> HIDE DEF p, d
  <2> QED  BY <1>1, FoundInParts
<1>6. Consumed(next)
  BY <1>1, <1>2, <1>4, <1>5 DEF Consumed
<1>7. \A W : Found(f, all, W) = Found(f, p, W) + HowMany(Fed(f, c, image, Position(c)), W)
  BY <1>2, <1>4, <1>5 DEF Found
<1> QED  BY <1>4, <1>6, <1>7

\* What each file's cursor has read counts for a number.
LEMMA ClaimedIs ==
    ASSUME NEW c \in SomeCursors, NEW W
    PROVE  /\ [f \in File |-> Found(f, PrefixOf(c, f), W)] \in [1 .. NumFiles -> Nat]
           /\ NumFiles \in Nat
           /\ \A f \in File : PrefixOf(c, f) \in Bytes /\ Found(f, PrefixOf(c, f), W) \in Nat
           /\ Claimed(c, W) \in Nat
<1>1. ASSUME NEW f \in File PROVE PrefixOf(c, f) \in Bytes /\ Found(f, PrefixOf(c, f), W) \in Nat
  <2>1. c[f] = Gone \/ c[f] \in Cursors
    BY DEF SomeCursors
  <2>2. PrefixOf(c, f) \in Bytes
    BY <2>1, NothingFound DEF PrefixOf, Cursors
  <2> QED  BY <2>2, FoundIs
<1> DEFINE n == [f \in File |-> Found(f, PrefixOf(c, f), W)]
<1>2. n \in [1 .. NumFiles -> Nat] /\ NumFiles \in Nat
  BY <1>1, WatchAssumption DEF File
<1>3. SumTo(n, NumFiles) \in Nat
  <2>1. NumFiles \in 0 .. NumFiles
    BY <1>2
  <2> HIDE DEF n
  <2> QED  BY <1>2, <2>1, SumToIs
<1> QED  BY <1>1, <1>2, <1>3 DEF Claimed

\* With no cursor nothing is claimed.
LEMMA NothingClaimed ==
    ASSUME NEW c, \A f \in File : c[f] = Gone, NEW W
    PROVE  Claimed(c, W) = 0
<1> DEFINE n == [f \in File |-> Found(f, PrefixOf(c, f), W)]
<1>1. n \in [1 .. NumFiles -> Nat] /\ NumFiles \in Nat /\ \A f \in 1 .. NumFiles : n[f] = 0
  BY NothingFound, WatchAssumption DEF PrefixOf, File
<1>2. SumTo(n, NumFiles) = 0
  <2> HIDE DEF n
  <2> QED  BY <1>1, SumOfZeros
<1> QED  BY <1>2 DEF Claimed

\* poll_file feeds one file: what is pending is what its cursor then claims more.
LEMMA ClaimedByFile ==
    ASSUME NEW c \in SomeCursors, NEW next \in SomeCursors, NEW f \in File, NEW p, NEW W,
           HowMany(p, W) \in Nat, \A g \in File : g # f => next[g] = c[g],
           Found(f, PrefixOf(next, f), W) = Found(f, PrefixOf(c, f), W) + HowMany(p, W)
    PROVE  Claimed(next, W) = Claimed(c, W) + HowMany(p, W)
<1> DEFINE n == [g \in File |-> Found(g, PrefixOf(c, g), W)]
           m == [g \in File |-> Found(g, PrefixOf(next, g), W)]
           N == NumFiles
<1>1. /\ n \in [1 .. N -> Nat] /\ m \in [1 .. N -> Nat] /\ N \in Nat
      /\ Claimed(c, W) \in Nat /\ Claimed(next, W) \in Nat
  BY ClaimedIs
<1>2. f \in 1 .. N /\ \A g \in 1 .. N : g # f => n[g] = m[g]
  BY DEF File, PrefixOf
<1>3. m[f] = n[f] + HowMany(p, W) /\ n[f] \in Nat /\ m[f] \in Nat
  BY <1>1, <1>2
<1> DEFINE x == n[f]
           y == m[f]
           h == HowMany(p, W)
           a == SumTo(n, N)
           b == SumTo(m, N)
<1>4. a = Claimed(c, W) /\ b = Claimed(next, W)
  BY DEF Claimed
<1>5. a + y = b + x
  <2> HIDE DEF n, m, N
  <2> QED  BY <1>1, <1>2, SumOfReplaced
<1>6. y = x + h /\ x \in Nat /\ y \in Nat /\ h \in Nat
  BY <1>3
<1>7. a \in Nat /\ b \in Nat
  BY <1>1, <1>4
<1> HIDE DEF a, b, x, y, h
<1>8. b = a + h
  BY <1>5, <1>6, <1>7
<1> QED  BY <1>4, <1>8 DEF h

\* A seed or a rebuild feeds a whole listing: what is pending is what the cursors then claim.
LEMMA ClaimedBySnapshots ==
    ASSUME TypeOK, NEW W
    PROVE  /\ CursorsOfSnapshots \in SomeCursors
           /\ Claimed(CursorsOfSnapshots, W) = HowMany(FedSnapshots, W)
           /\ \A f \in File : CursorsOfSnapshots[f] # Gone =>
                 Consumed(CursorsOfSnapshots[f])
<1> DEFINE c == CursorsOfSnapshots
           perFile == [f \in File |->
                          IF snapshots[f] = Gone THEN <<>> ELSE Fed(f, NewCursor, snapshots[f], 0)]
           n == [f \in File |-> Found(f, PrefixOf(c, f), W)]
<1>0. c \in SomeCursors
  BY SnapshotsType DEF SomeCursors
<1>1. ASSUME NEW f \in File, snapshots[f] # Gone
      PROVE  /\ snapshots[f] \in Images
             /\ c[f] = Advance(NewCursor, snapshots[f], 0) /\ c[f] \in Cursors /\ c[f] # Gone
             /\ Consumed(c[f]) /\ c[f].prefix = snapshots[f].bytes
             /\ c[f].stamp = Stamp(snapshots[f])
             /\ Found(f, c[f].prefix, W) = HowMany(Fed(f, NewCursor, snapshots[f], 0), W)
             /\ Fed(f, NewCursor, snapshots[f], 0) \in Seq(Scanned)
  <2>1. snapshots[f] \in Images /\ snapshots[f].bytes \in Bytes
    BY <1>1 DEF TypeOK, Images, ImageOf
  <2>2. c[f] = Advance(NewCursor, snapshots[f], 0)
    BY <1>1 DEF CursorsOfSnapshots
  <2>3. NewCursor.offset \in Nat /\ NewCursor.tail \in Bytes /\ 0 \in Nat
    BY DEF NewCursor, Bytes
  <2>4. c[f] \in Cursors /\ c[f] # Gone
    <3>1. Advance(NewCursor, snapshots[f], 0) \in Cursors
      BY <2>1, <2>3, AdvanceType
    <3> QED  BY <2>2, <3>1, WatchAssumption
  <2>5. Fed(f, NewCursor, snapshots[f], 0) \in Seq(Scanned)
    BY <2>1, <2>3, FedType, KnownScanned
  <2> DEFINE all == snapshots[f].bytes
  <2>6. Len(all) \in Nat /\ Len(all) >= Len(<<>>) /\ SubSeq(all, 1, Len(<<>>)) = <<>>
    BY <2>1 DEF Bytes
  <2>7. /\ Consumed(NewCursor) /\ NewCursor.prefix = <<>> /\ Position(NewCursor) = 0
    BY ConsumedIs
  <2>8. /\ Consumed(c[f]) /\ c[f].prefix = all
        /\ Found(f, all, W) = Found(f, <<>>, W) + HowMany(Fed(f, NewCursor, snapshots[f], 0), W)
    BY <2>1, <2>2, <2>6, <2>7, AdvanceConsumes
  <2>9. Found(f, <<>>, W) = 0 /\ HowMany(Fed(f, NewCursor, snapshots[f], 0), W) \in Nat
    BY <2>5, NothingFound, HowManyType
  <2>10. c[f].stamp = Stamp(snapshots[f])
    BY <2>2 DEF Advance
  <2> HIDE DEF c, all
  <2> QED  BY <2>1, <2>2, <2>4, <2>5, <2>8, <2>9, <2>10 DEF all
<1>2. ASSUME NEW f \in File, snapshots[f] = Gone PROVE c[f] = Gone
  BY <1>2 DEF CursorsOfSnapshots
<1>3. \A f \in File : perFile[f] \in Seq(Scanned) /\ n[f] = HowMany(perFile[f], W)
  <2> SUFFICES ASSUME NEW f \in File
               PROVE  perFile[f] \in Seq(Scanned) /\ n[f] = HowMany(perFile[f], W)
    OBVIOUS
  <2>1. CASE snapshots[f] = Gone
    <3>1. perFile[f] = <<>> /\ n[f] = Found(f, <<>>, W)
      BY <1>2, <2>1 DEF PrefixOf
    <3> HIDE DEF perFile, n, c
    <3>2. <<>> \in Seq(Scanned) /\ HowMany(<<>>, W) = 0 /\ Found(f, <<>>, W) = 0
      BY NothingFound, HowManyOfNothing
    <3> QED  BY <3>1, <3>2
  <2>2. CASE snapshots[f] # Gone
    <3>1. perFile[f] = Fed(f, NewCursor, snapshots[f], 0)
      BY <2>2
    <3>2. n[f] = Found(f, PrefixOf(c, f), W) /\ c[f] # Gone
      BY <1>1, <2>2
    <3>3. /\ Found(f, c[f].prefix, W) = HowMany(Fed(f, NewCursor, snapshots[f], 0), W)
          /\ Fed(f, NewCursor, snapshots[f], 0) \in Seq(Scanned)
      BY <1>1, <2>2
    <3> HIDE DEF c, perFile, n
    <3>4. PrefixOf(c, f) = c[f].prefix
      BY <3>2 DEF PrefixOf
    <3> QED  BY <3>1, <3>2, <3>3, <3>4
  <2> QED  BY <2>1, <2>2
<1>4. perFile \in Seq(Seq(Scanned)) /\ Len(perFile) = NumFiles /\ File = 1 .. NumFiles
  <2>1. File = 1 .. NumFiles /\ NumFiles \in Nat
    BY WatchAssumption DEF File
  <2>2. perFile = [f \in File |-> perFile[f]] /\ DOMAIN perFile = File
    OBVIOUS
  <2> HIDE DEF perFile
  <2>3. perFile \in Seq(Seq(Scanned))
    BY <1>3, <2>1, <2>2, SeqIs
  <2> QED  BY <2>1, <2>2, <2>3
<1>5. n \in [1 .. NumFiles -> Nat]
  <2> HIDE DEF c
  <2> QED  BY <1>0, ClaimedIs
<1>6. HowMany(FlattenSeq(perFile), W) = SumTo(n, NumFiles)
  <2> HIDE DEF perFile, n, c
  <2> QED  BY <1>3, <1>4, <1>5, HowManyOfAll
<1>7. Claimed(c, W) = HowMany(FedSnapshots, W)
  BY <1>6 DEF Claimed, FedSnapshots
<1> HIDE DEF c
<1> QED  BY <1>0, <1>1, <1>2, <1>7 DEF c

Of(e) == {x \in Scanned : x.entry = e}

Ids(k) == {x \in Scanned : Identity(x.entry, x.session) = k}

\* How often the index was offered each entry: as often as the cursors claim it, less what is
\* pending.
Offered(c, p) == [e \in Entry |-> Claimed(c, Of(e)) - HowMany(p, Of(e))]

\* Nothing is pending between the feeds, and what is pending is part of what the cursors claim.
PendingAtFeeds == pc # "feed" => pending = <<>>

PendingIsClaimed == \A W \in SUBSET Scanned : HowMany(pending, W) <= Claimed(cursors, W)

CursorsConsumed == \A f \in File : cursors[f] # Gone => Consumed(cursors[f])

\* The seed's feed finds the index as it was created.
Seeding == pc = "boot" \/ (pc = "read" /\ task = "seed")

SeedsFromNothing ==
    Seeding =>
        /\ dd = EmptyIndex
        /\ \A f \in File : cursors[f] = Gone
        /\ \A k \in Identities : current_occurrences[k] = 0

\* No identity was seen more often than the cursors claim it.
OccurrencesClaimed ==
    \A k \in Identities :
        current_occurrences[k] + HowMany(pending, Ids(k)) <= Claimed(cursors, Ids(k))

KeepsOffered == Keeps(dd, Offered(cursors, pending))

ReadInv == /\ PendingAtFeeds /\ PendingIsClaimed /\ CursorsConsumed
           /\ SeedsFromNothing /\ OccurrencesClaimed /\ KeepsOffered

\* An entry or an identity picks some of the scanned entries; offers are numbers.
LEMMA OfferedIs ==
    ASSUME TypeOK, PendingIsClaimed
    PROVE  /\ Offered(cursors, pending) \in Offers
           /\ cursors \in SomeCursors
           /\ \A W : HowMany(pending, W) \in Nat /\ Claimed(cursors, W) \in Nat
<1>1. cursors \in SomeCursors /\ pending \in Seq(Scanned)
  BY DEF TypeOK, SomeCursors
<1>2. \A W : HowMany(pending, W) \in Nat /\ Claimed(cursors, W) \in Nat
  BY <1>1, HowManyType, ClaimedIs
<1>3. ASSUME NEW e \in Entry PROVE Claimed(cursors, Of(e)) - HowMany(pending, Of(e)) \in Nat
  <2>1. HowMany(pending, Of(e)) <= Claimed(cursors, Of(e))
    BY DEF PendingIsClaimed, Of
  <2> QED  BY <1>2, <2>1
<1> QED  BY <1>1, <1>2, <1>3 DEF Offered, Offers

\* The index is created with nothing claimed and nothing offered.
LEMMA InitRead == Init => ReadInv
<1> SUFFICES ASSUME Init PROVE ReadInv
  OBVIOUS
<1>1. /\ pending = <<>> /\ dd = EmptyIndex /\ \A f \in File : cursors[f] = Gone
      /\ \A k \in Identities : current_occurrences[k] = 0
  BY DEF Init
<1>2. \A W : HowMany(pending, W) = 0 /\ Claimed(cursors, W) = 0
  BY <1>1, NothingClaimed, HowManyOfNothing
<1>3. KeepsOffered
  <2> DEFINE O == Offered(cursors, pending)
  <2>1. O \in Offers /\ \A e \in Entry : O[e] = 0
    BY <1>2 DEF Offered, Offers
  <2> HIDE DEF O
  <2> QED  BY <1>1, <2>1, EmptyKeeps DEF KeepsOffered, O
<1>4. OccurrencesClaimed
  BY <1>1, <1>2 DEF OccurrencesClaimed
<1> QED  BY <1>1, <1>2, <1>3, <1>4
         DEF ReadInv, PendingAtFeeds, PendingIsClaimed, CursorsConsumed, SeedsFromNothing

\* A step that touches neither the index nor what is read and pending.
LEMMA QuietKeeps ==
    ASSUME ReadInv, UNCHANGED <<cursors, dd, current_occurrences, pending>>,
           pc' # "feed" => pending = <<>>,
           Seeding' => Seeding
    PROVE  ReadInv'
  BY DEF ReadInv, PendingAtFeeds, PendingIsClaimed, CursorsConsumed, SeedsFromNothing,
         OccurrencesClaimed, KeepsOffered

\* A feed begins: all that was claimed before had been offered, and what the cursors claim more
\* is pending.
LEMMA FeedBegins ==
    ASSUME TypeOK, TypeOK', ReadInv, pc' = "feed", pending = <<>>,
           UNCHANGED <<dd, current_occurrences>>,
           CursorsConsumed',
           \A W : Claimed(cursors', W) = Claimed(cursors, W) + HowMany(pending', W)
    PROVE  ReadInv'
<1>1. \A W : /\ HowMany(pending', W) \in Nat /\ Claimed(cursors', W) \in Nat
             /\ HowMany(pending, W) = 0 /\ Claimed(cursors, W) \in Nat
  <2>1. pending' \in Seq(Scanned) /\ cursors' \in SomeCursors /\ cursors \in SomeCursors
    BY DEF TypeOK, SomeCursors
  <2> QED  BY <2>1, HowManyType, HowManyOfNothing, ClaimedIs
<1>2. PendingIsClaimed'
  BY <1>1 DEF PendingIsClaimed
<1>3. KeepsOffered'
  <2>1. \A e \in Entry : Claimed(cursors', Of(e)) - HowMany(pending', Of(e))
                          = Claimed(cursors, Of(e)) - HowMany(pending, Of(e))
    <3> SUFFICES ASSUME NEW e \in Entry, NEW W, W = Of(e)
                 PROVE  Claimed(cursors', W) - HowMany(pending', W)
                          = Claimed(cursors, W) - HowMany(pending, W)
      OBVIOUS
    <3> QED  BY <1>1
  <2>2. Offered(cursors', pending') = Offered(cursors, pending)
    BY <2>1 DEF Offered
  <2> QED  BY <2>2 DEF KeepsOffered, ReadInv
<1>4. OccurrencesClaimed'
  <2> SUFFICES ASSUME NEW k \in Identities
               PROVE  current_occurrences[k] + HowMany(pending', Ids(k)) <= Claimed(cursors', Ids(k))
    BY DEF OccurrencesClaimed
  <2>1. current_occurrences[k] + HowMany(pending, Ids(k)) <= Claimed(cursors, Ids(k))
        /\ current_occurrences[k] \in Nat
    BY DEF ReadInv, OccurrencesClaimed, TypeOK
  <2> QED  BY <1>1, <2>1
<1> QED  BY <1>2, <1>3, <1>4 DEF ReadInv, PendingAtFeeds, SeedsFromNothing, Seeding

\* poll_file feeds what is new in one file.
LEMMA FeedFileReads ==
    ASSUME Inv, Inv', ReadInv, NEW f \in File, FeedFile(f)
    PROVE  ReadInv'
<1> DEFINE c == CursorAt(f)
           next == Advance(c, disk[f], Position(c))
<1>1. /\ disk[f] \in Images /\ disk[f].bytes \in Bytes
      /\ cursors \in SomeCursors /\ cursors' \in SomeCursors
      /\ pending' \in Seq(Scanned)
  BY DEF Inv, TypeOK, FeedFile, Coherent, Present, Images, ImageOf, SomeCursors
<1>2. cursors'[f] = next /\ pending' = Fed(f, c, disk[f], Position(c))
      /\ \A g \in File : g # f => cursors'[g] = cursors[g]
  BY <1>1 DEF FeedFile, SomeCursors
<1>3. Consumed(c) /\ PrefixOf(cursors, f) = c.prefix
  BY ConsumedIs DEF CursorAt, ReadInv, CursorsConsumed, PrefixOf
<1>4. /\ Len(disk[f].bytes) >= Len(c.prefix)
      /\ SubSeq(disk[f].bytes, 1, Len(c.prefix)) = c.prefix
  <2>1. CASE cursors[f] = Gone
    <3>1. c.prefix = <<>>
      BY <2>1, ConsumedIs DEF CursorAt
    <3> QED  BY <1>1, <3>1 DEF Bytes
  <2>2. CASE cursors[f] # Gone
    <3>1. c = cursors[f] /\ PrefixIntact(f)
      BY <2>2 DEF CursorAt, FeedFile
    <3>2. Position(cursors[f]) = Len(cursors[f].prefix)
      BY <1>3, <3>1, ConsumedIs
    <3> QED  BY <3>1, <3>2 DEF PrefixIntact
  <2> QED  BY <2>1, <2>2
<1>5. /\ Consumed(next) /\ next.prefix = disk[f].bytes
      /\ \A W : Found(f, disk[f].bytes, W) = Found(f, c.prefix, W) + HowMany(pending', W)
  <2> HIDE DEF c
  <2> QED  BY <1>1, <1>2, <1>3, <1>4, AdvanceConsumes
<1>6. cursors'[f] # Gone /\ PrefixOf(cursors', f) = disk[f].bytes
  <2>1. cursors'[f] # Gone
    <3>1. CursorAt(f).offset \in Nat /\ CursorAt(f).tail \in Bytes /\ Position(CursorAt(f)) \in Nat
      BY CursorAtType DEF Inv
    <3>2. next \in Cursors
      BY <1>1, <3>1, AdvanceType
    <3> QED  BY <1>2, <3>2, WatchAssumption
  <2> QED  BY <1>2, <1>5, <2>1 DEF PrefixOf
<1> HIDE DEF c, next
<1>7. \A W : Claimed(cursors', W) = Claimed(cursors, W) + HowMany(pending', W)
  <2> SUFFICES ASSUME NEW W PROVE Claimed(cursors', W) = Claimed(cursors, W) + HowMany(pending', W)
    OBVIOUS
  <2>1. HowMany(pending', W) \in Nat
    BY <1>1, HowManyType
  <2>2. Found(f, PrefixOf(cursors', f), W)
          = Found(f, PrefixOf(cursors, f), W) + HowMany(pending', W)
    BY <1>3, <1>5, <1>6
  <2> QED  BY <1>1, <1>2, <2>1, <2>2, ClaimedByFile
<1>8. CursorsConsumed'
  BY <1>2, <1>5 DEF CursorsConsumed, ReadInv
<1>9. pc' = "feed" /\ UNCHANGED <<dd, current_occurrences>> /\ pending = <<>>
  BY DEF FeedFile, IsNext, indexVars, ReadInv, PendingAtFeeds
<1> QED  BY <1>7, <1>8, <1>9, FeedBegins DEF Inv

\* A seed feeds the whole listing to an index that was offered nothing.
LEMMA FeedSeedReads ==
    ASSUME Inv, Inv', ReadInv, FeedSeed
    PROVE  ReadInv'
<1>1. /\ pending = <<>> /\ pc' = "feed" /\ UNCHANGED <<dd, current_occurrences>>
      /\ \A f \in File : cursors[f] = Gone
      /\ cursors' = CursorsOfSnapshots /\ pending' = FedSnapshots
  BY DEF FeedSeed, indexVars, ReadInv, PendingAtFeeds, SeedsFromNothing, Seeding
<1>2. CursorsConsumed'
  BY <1>1, ClaimedBySnapshots DEF CursorsConsumed, Inv
<1>3. \A W : Claimed(cursors', W) = Claimed(cursors, W) + HowMany(pending', W)
  <2> SUFFICES ASSUME NEW W PROVE Claimed(cursors', W) = Claimed(cursors, W) + HowMany(pending', W)
    OBVIOUS
  <2>1. pending' \in Seq(Scanned)
    BY DEF Inv, TypeOK
  <2>2. HowMany(pending', W) \in Nat
    BY <2>1, HowManyType
  <2>3. Claimed(cursors, W) = 0
    BY <1>1, NothingClaimed
  <2>4. Claimed(cursors', W) = HowMany(pending', W)
    BY <1>1, ClaimedBySnapshots DEF Inv
  <2> QED  BY <2>2, <2>3, <2>4
<1> QED  BY <1>1, <1>2, <1>3, FeedBegins DEF Inv

\* A rebuild feeds it to an emptied index.
LEMMA RebuildReads ==
    ASSUME Inv, Inv', ReadInv, Rebuild
    PROVE  ReadInv'
<1>1. /\ pc' = "feed" /\ dd' = EmptyIndex /\ current_occurrences' = [k \in Identities |-> 0]
      /\ cursors' = CursorsOfSnapshots /\ pending' = FedSnapshots
  BY DEF Rebuild
<1>2. CursorsConsumed'
  BY <1>1, ClaimedBySnapshots DEF CursorsConsumed, Inv
<1>3. \A W : Claimed(cursors', W) = HowMany(pending', W) /\ HowMany(pending', W) \in Nat
  <2>1. pending' \in Seq(Scanned)
    BY DEF Inv, TypeOK
  <2> QED  BY <1>1, <2>1, HowManyType, ClaimedBySnapshots DEF Inv
<1>4. PendingIsClaimed' /\ OccurrencesClaimed'
  BY <1>1, <1>3 DEF PendingIsClaimed, OccurrencesClaimed
<1>5. KeepsOffered'
  <2> DEFINE O == Offered(cursors', pending')
  <2>1. O \in Offers /\ \A e \in Entry : O[e] = 0
    BY <1>3 DEF Offered, Offers
  <2> HIDE DEF O
  <2> QED  BY <1>1, <2>1, EmptyKeeps DEF KeepsOffered, O
<1> QED  BY <1>1, <1>2, <1>4, <1>5 DEF ReadInv, PendingAtFeeds, SeedsFromNothing, Seeding

\* One entry goes from pending to offered.
LEMMA FeedEntryReads ==
    ASSUME Inv, Inv', ReadInv, FeedEntry
    PROVE  ReadInv'
<1> DEFINE x == Head(pending)
           e == x.entry
           k == Identity(e, x.session)
           O == Offered(cursors, pending)
<1>1. /\ pending \in Seq(Scanned) /\ pending # <<>> /\ pending' = Tail(pending)
      /\ x \in Scanned /\ e \in Entry
  <2>1. pending \in Seq(Scanned) /\ pending # <<>> /\ pending' = Tail(pending)
    BY DEF FeedEntry, Inv, TypeOK
  <2>2. x \in Scanned
    BY <2>1, HeadTailType
  <2> QED  BY <2>1, <2>2 DEF Scanned
<1>2. UNCHANGED cursors /\ pc = "feed" /\ pc' = "feed" /\ dd' = PushDeduped(dd, e)
  BY DEF FeedEntry, cursorVars
<1>3. \A W : /\ HowMany(pending, W) = (IF x \in W THEN 1 ELSE 0) + HowMany(pending', W)
             /\ HowMany(pending', W) \in Nat /\ Claimed(cursors, W) \in Nat
  <2>1. cursors \in SomeCursors
    BY DEF Inv, TypeOK, SomeCursors
  <2> HIDE DEF e
  <2> QED  BY <1>1, <2>1, HowManyOfTail, ClaimedIs
<1>4. PendingIsClaimed'
  <2> SUFFICES ASSUME NEW W \in SUBSET Scanned
               PROVE  HowMany(pending', W) <= Claimed(cursors, W)
    BY <1>2 DEF PendingIsClaimed
  <2>1. HowMany(pending, W) <= Claimed(cursors, W)
    BY DEF ReadInv, PendingIsClaimed
  <2> HIDE DEF x
  <2> QED  BY <1>3, <2>1
<1>5. O \in Offers /\ \A d \in Entry : O[d] = Claimed(cursors, Of(d)) - HowMany(pending, Of(d))
  <2>1. O \in Offers
    BY OfferedIs DEF Inv, ReadInv
  <2> QED  BY <2>1 DEF Offered
<1>6. Offered(cursors', pending') = OneMore(O, e)
  <2>1. ASSUME NEW d \in Entry
        PROVE  Claimed(cursors, Of(d)) - HowMany(pending', Of(d)) = OneMore(O, e)[d]
    <3> DEFINE W == Of(d)
    <3>1. x \in W <=> d = e
      BY <1>1 DEF Of
    <3>2. /\ HowMany(pending, W) = (IF d = e THEN 1 ELSE 0) + HowMany(pending', W)
          /\ HowMany(pending', W) \in Nat /\ Claimed(cursors, W) \in Nat
      BY <1>3, <3>1
    <3>3. O[d] = Claimed(cursors, W) - HowMany(pending, W) /\ O \in [Entry -> Nat]
      BY <1>5 DEF Offers
    <3> HIDE DEF O, e, W
    <3>4. Claimed(cursors, W) - HowMany(pending', W) = IF d = e THEN O[d] + 1 ELSE O[d]
      BY <3>2, <3>3
    <3> QED  BY <1>1, <3>3, <3>4 DEF OneMore, W
  <2>2. OneMore(O, e) = [d \in Entry |-> OneMore(O, e)[d]]
    <3> HIDE DEF O, e
    <3> QED  BY <1>5 DEF Offers, OneMore
  <2> HIDE DEF O, e, x
  <2> QED  BY <1>2, <2>1, <2>2 DEF Offered
<1>7. KeepsOffered'
  <2>1. GoodIndex(dd) /\ Keeps(dd, O)
    BY DEF Inv, ReadInv, KeepsOffered
  <2> HIDE DEF O, e
  <2>2. Keeps(PushDeduped(dd, e), OneMore(O, e))
    BY <1>1, <1>5, <2>1, PushKeepsBest
  <2> QED  BY <1>2, <1>6, <2>2 DEF KeepsOffered
<1>8. OccurrencesClaimed'
  <2> SUFFICES ASSUME NEW j \in Identities
               PROVE  current_occurrences'[j] + HowMany(pending', Ids(j)) <= Claimed(cursors, Ids(j))
    BY <1>2 DEF OccurrencesClaimed
  <2> DEFINE W == Ids(j)
  <2>1. current_occurrences[j] + HowMany(pending, W) <= Claimed(cursors, W)
        /\ current_occurrences \in [Identities -> Nat] /\ current_occurrences[j] \in Nat
        /\ current_occurrences'[j] \in Nat
    BY DEF ReadInv, OccurrencesClaimed, Inv, TypeOK
  <2>2. x \in W <=> j = k
    BY <1>1 DEF Ids
  <2>3. current_occurrences'[j] <= current_occurrences[j] + IF j = k THEN 1 ELSE 0
    <3>1. \/ current_occurrences' = [current_occurrences EXCEPT ![k] = current_occurrences[k] + 1]
          \/ current_occurrences' = [current_occurrences EXCEPT ![k] = AtLeastOne(@)]
      BY DEF FeedEntry
    <3> HIDE DEF k
    <3>2. \/ current_occurrences'[j] = current_occurrences[j]
          \/ j = k /\ current_occurrences'[j] = current_occurrences[j] + 1
          \/ j = k /\ current_occurrences'[j] = AtLeastOne(current_occurrences[j])
      BY <2>1, <3>1
    <3> QED  BY <2>1, <3>2 DEF AtLeastOne
  <2>4. HowMany(pending, W) = (IF j = k THEN 1 ELSE 0) + HowMany(pending', W)
        /\ HowMany(pending', W) \in Nat /\ Claimed(cursors, W) \in Nat
    BY <1>3, <2>2
  <2> HIDE DEF W, k
  <2> QED  BY <2>1, <2>3, <2>4 DEF W
<1> QED  BY <1>2, <1>4, <1>7, <1>8
         DEF ReadInv, PendingAtFeeds, SeedsFromNothing, Seeding, CursorsConsumed

\* Every step keeps what has been read and offered together.
LEMMA StepReads == Inv /\ Inv' /\ ReadInv /\ [Next]_vars => ReadInv'
<1> SUFFICES ASSUME Inv, Inv', ReadInv, [Next]_vars PROVE ReadInv'
  OBVIOUS
<1> USE DEF diskVars, cursorVars, indexVars, readVars, Seeding
<1>0. pc # "feed" => pending = <<>>
  BY DEF ReadInv, PendingAtFeeds
<1>1. CASE UNCHANGED vars
  BY <1>0, <1>1, QuietKeeps DEF vars
<1>2. CASE Agent
  <2>1. \A f, image : Change(f, image) =>
          UNCHANGED <<cursors, dd, current_occurrences, pending, pc, task>>
    BY DEF Change
  <2>2. UNCHANGED <<cursors, dd, current_occurrences, pending, pc, task>>
    BY <1>2, <2>1 DEF Agent, AppendLine, EndLine, Rewrite, Replace, Delete
  <2>3. /\ pc' # "feed" => pending = <<>>
        /\ Seeding' => Seeding
    BY <1>0, <2>2 DEF Seeding
  <2> QED  BY <2>2, <2>3, QuietKeeps
<1>3. CASE Seed \/ PollPaths
  BY <1>0, <1>3, QuietKeeps DEF Seed, PollPaths, StartReads
<1>4. CASE Deliver \/ Sleep
  BY <1>0, <1>4, QuietKeeps DEF Deliver, Sleep
<1>5. CASE Reading
  <2>1. ASSUME NEW f \in File,
               SkipFile(f) \/ OpenFile(f) \/ ReadNothing(f) \/ ReadSnapshot(f) \/ FindRewritten(f)
        PROVE  ReadInv'
    <3>1. CASE FindRewritten(f)
      BY <1>0, <3>1, QuietKeeps DEF FindRewritten, StartReads, IsNext
    <3>2. CASE SkipFile(f) \/ OpenFile(f) \/ ReadNothing(f) \/ ReadSnapshot(f)
      BY <1>0, <3>2, QuietKeeps DEF SkipFile, OpenFile, ReadNothing, ReadSnapshot
    <3> QED  BY <2>1, <3>1, <3>2
  <2>2. ASSUME NEW f \in File, FeedFile(f) PROVE ReadInv'
    BY <2>2, FeedFileReads
  <2>3. CASE FeedSeed
    BY <2>3, FeedSeedReads
  <2>4. CASE Rebuild
    BY <2>4, RebuildReads
  <2>5. CASE RetryLater \/ EndScan \/ EndFeed
    BY <1>0, <2>5, QuietKeeps DEF RetryLater, EndScan, EndFeed
  <2>6. CASE FeedEntry
    BY <2>6, FeedEntryReads
  <2> QED  BY <1>5, <2>1, <2>2, <2>3, <2>4, <2>5, <2>6 DEF Reading
<1> QED  BY <1>1, <1>2, <1>3, <1>4, <1>5 DEF Next, Index

\* What a fresh scan of these bytes of the files is given.
LEMMA EntriesAre ==
    ASSUME NEW bytesOf \in [File -> Bytes \cup {Gone}]
    PROVE  /\ EntriesIn(bytesOf) \in Seq(Entry)
           /\ \A e \in Entry :
                 HowMany(EntriesIn(bytesOf), {e}) =
                 SumTo([f \in File |-> IF bytesOf[f] = Gone THEN 0
                                       ELSE Found(f, bytesOf[f], Of(e))], NumFiles)
<1> DEFINE perFile == [f \in File |->
                          IF bytesOf[f] = Gone THEN <<>> ELSE ScanLines(f, bytesOf[f])]
           scanned == FlattenSeq(perFile)
           es == [i \in DOMAIN scanned |-> scanned[i].entry]
<1>1. \A f \in File : perFile[f] \in Seq(Scanned)
  <2> SUFFICES ASSUME NEW f \in File PROVE perFile[f] \in Seq(Scanned)
    OBVIOUS
  <2>1. CASE bytesOf[f] = Gone
    BY <2>1
  <2>2. CASE bytesOf[f] # Gone
    <3>1. bytesOf[f] \in Bytes /\ perFile[f] = ScanLines(f, bytesOf[f])
      BY <2>2
    <3> HIDE DEF perFile
    <3> QED  BY <3>1, ScanLinesType, KnownScanned
  <2> QED  BY <2>1, <2>2
<1>2. perFile \in Seq(Seq(Scanned)) /\ Len(perFile) = NumFiles /\ File = 1 .. NumFiles
  <2>1. File = 1 .. NumFiles /\ NumFiles \in Nat
    BY WatchAssumption DEF File
  <2>2. perFile = [f \in File |-> perFile[f]] /\ DOMAIN perFile = File
    OBVIOUS
  <2> HIDE DEF perFile
  <2>3. perFile \in Seq(Seq(Scanned))
    BY <1>1, <2>1, <2>2, SeqIs
  <2> QED  BY <2>1, <2>2, <2>3
<1>3. scanned \in Seq(Scanned)
  <2> HIDE DEF perFile
  <2> QED  BY <1>2, FlattenType
<1>4. /\ es \in Seq(Entry) /\ DOMAIN es = DOMAIN scanned
      /\ \A i \in DOMAIN scanned : scanned[i] \in Scanned /\ es[i] = scanned[i].entry
  <2> HIDE DEF scanned
  <2>0. \A x \in Scanned : x.entry \in Entry
    BY DEF Scanned
  <2>1. \A i \in DOMAIN scanned : scanned[i] \in Scanned /\ scanned[i].entry \in Entry
    BY <1>3, <2>0
  <2>2. DOMAIN scanned = 1 .. Len(scanned) /\ Len(scanned) \in Nat
    BY <1>3
  <2> QED  BY <2>1, <2>2
<1>5. EntriesIn(bytesOf) = es
  BY DEF EntriesIn
<1>6. ASSUME NEW e \in Entry
      PROVE  HowMany(es, {e}) = SumTo([f \in File |-> IF bytesOf[f] = Gone THEN 0
                                       ELSE Found(f, bytesOf[f], Of(e))], NumFiles)
  <2> DEFINE W == Of(e)
             n == [f \in File |-> IF bytesOf[f] = Gone THEN 0 ELSE Found(f, bytesOf[f], W)]
  <2>1. HowMany(es, {e}) = HowMany(scanned, W)
    <3>1. \A i \in DOMAIN es : es[i] \in {e} <=> scanned[i] \in W
      BY <1>4 DEF Of
    <3> HIDE DEF es, scanned, W
    <3> QED  BY <1>4, <3>1, HowManySame
  <2>2. \A f \in File : n[f] = HowMany(perFile[f], W) /\ n[f] \in Nat
    <3> SUFFICES ASSUME NEW f \in File PROVE n[f] = HowMany(perFile[f], W) /\ n[f] \in Nat
      OBVIOUS
    <3>1. CASE bytesOf[f] = Gone
      <4>1. n[f] = 0 /\ perFile[f] = <<>>
        BY <3>1
      <4> HIDE DEF n, perFile
      <4> QED  BY <4>1, HowManyOfNothing
    <3>2. CASE bytesOf[f] # Gone
      <4>1. n[f] = Found(f, bytesOf[f], W) /\ perFile[f] = ScanLines(f, bytesOf[f])
        BY <3>2
      <4>2. HowMany(perFile[f], W) \in Nat
        <5> HIDE DEF perFile, W
        <5> QED  BY <1>1, HowManyType
      <4> HIDE DEF n, perFile, W
      <4> QED  BY <4>1, <4>2 DEF Found
    <3> QED  BY <3>1, <3>2
  <2>3. n \in [1 .. NumFiles -> Nat]
    <3>1. n = [f \in File |-> n[f]]
      OBVIOUS
    <3> HIDE DEF n, perFile
    <3> QED  BY <1>2, <2>2, <3>1
  <2>4. HowMany(scanned, W) = SumTo(n, NumFiles)
    <3> HIDE DEF perFile, n, W
    <3> QED  BY <1>2, <2>2, <2>3, HowManyOfAll
  <2> QED  BY <2>1, <2>4
<1> QED  BY <1>4, <1>5, <1>6

\* Between the feeds the index keeps what a fresh scan of the consumed prefixes keeps.
LEMMA ReadKept == Inv /\ ReadInv => IndexMatchesCursors
<1> SUFFICES ASSUME Inv, ReadInv, pc # "feed"
             PROVE  Winners(dd.entries) =
                    Winners(ScanFresh(EntriesIn([f \in File |->
                        IF cursors[f] = Gone THEN Gone ELSE cursors[f].prefix])).entries)
  BY DEF IndexMatchesCursors
<1> DEFINE bytesOf == [f \in File |-> IF cursors[f] = Gone THEN Gone ELSE cursors[f].prefix]
           es == EntriesIn(bytesOf)
           O == Offered(cursors, pending)
           P == [e \in Entry |-> HowMany(es, {e})]
<1>1. pending = <<>> /\ O \in Offers /\ GoodIndex(dd) /\ Keeps(dd, O)
      /\ \A W : HowMany(pending, W) = 0 /\ Claimed(cursors, W) \in Nat
  BY OfferedIs, HowManyOfNothing DEF Inv, ReadInv, PendingAtFeeds, KeepsOffered
<1>2. \A f \in File : cursors[f] \in Cursors \cup {Gone}
  BY DEF Inv, TypeOK
<1>3. /\ bytesOf \in [File -> Bytes \cup {Gone}]
      /\ \A f \in File : bytesOf[f] = Gone <=> cursors[f] = Gone
  BY <1>2, WatchAssumption DEF Cursors
<1>4. ASSUME NEW e \in Entry PROVE O[e] = HowMany(es, {e})
  <2> DEFINE W == Of(e)
             n == [f \in File |-> IF bytesOf[f] = Gone THEN 0 ELSE Found(f, bytesOf[f], W)]
             m == [f \in File |-> Found(f, PrefixOf(cursors, f), W)]
  <2>1. HowMany(es, {e}) = SumTo(n, NumFiles)
    <3> HIDE DEF bytesOf
    <3> QED  BY <1>3, EntriesAre
  <2>2. \A f \in File : n[f] = m[f]
    <3> SUFFICES ASSUME NEW f \in File PROVE n[f] = m[f]
      OBVIOUS
    <3>1. CASE cursors[f] = Gone
      <4>1. n[f] = 0 /\ m[f] = Found(f, <<>>, W)
        BY <1>3, <3>1 DEF PrefixOf
      <4> HIDE DEF n, m, W
      <4> QED  BY <4>1, NothingFound
    <3>2. CASE cursors[f] # Gone
      BY <1>3, <3>2 DEF PrefixOf
    <3> QED  BY <3>1, <3>2
  <2>3. n = m
    BY <2>2
  <2>4. O[e] = Claimed(cursors, W) - HowMany(pending, W)
    BY DEF Offered
  <2>5. Claimed(cursors, W) = SumTo(m, NumFiles)
    BY DEF Claimed
  <2> HIDE DEF n, m, W, O, es
  <2> QED  BY <1>1, <2>1, <2>3, <2>4, <2>5
<1>5. O = P
  <2>1. O = [e \in Entry |-> O[e]]
    BY DEF Offered
  <2> HIDE DEF O, es
  <2> QED  BY <1>4, <2>1
<1>6. es \in Seq(Entry)
  <2> HIDE DEF bytesOf
  <2> QED  BY <1>3, EntriesAre
<1> HIDE DEF es, O
<1>7. GoodIndex(ScanFresh(es)) /\ Keeps(ScanFresh(es), O)
  BY <1>5, <1>6, ScanFreshKeeps
<1>8. Winners(dd.entries) = Winners(ScanFresh(es).entries)
  BY <1>1, <1>7, SameWinners
<1> QED  BY <1>8 DEF es

\* What has been read and offered stays together.
LEMMA ReadsTogether == Spec => [](Inv /\ ReadInv)
<1>1. Init => Inv /\ ReadInv
  BY InitInv, InitRead
<1>2. Inv /\ ReadInv /\ [Next]_vars => (Inv /\ ReadInv)'
  BY StepKeeps, StepReads
<1> QED  BY <1>1, <1>2, PTL DEF Spec

\* Whatever the agents write and wherever a poll gave up: an index not in the middle of a feed
\* keeps what a fresh scan of its cursors' prefixes keeps (poll_file, seed_files, rebuild).
THEOREM KeptAsScanned == Spec => []IndexMatchesCursors
  BY ReadsTogether, ReadKept, PTL

----------------------------------------------------------------------------
(***************************************************************************)
(* What the index keeps, and the logs.  A file keeps its bytes as long as  *)
(* it keeps its change time, so a cursor with the file's stamp has         *)
(* consumed its bytes.                                                     *)
(***************************************************************************)
\* Of a file with these bytes at time t: it still has them unless it changed since.
Dated(f, t, bytes) ==
    t <= clock /\ (f \in Present /\ disk[f].changed = t => disk[f].bytes = bytes)

\* A file keeps its bytes as long as it keeps its change time, and what was read of it is dated.
DatedInv ==
    /\ \A f \in File : f \in Present => disk[f].changed <= clock
    /\ \A f \in File : snapshots[f] # Gone => Dated(f, snapshots[f].changed, snapshots[f].bytes)
    /\ \A f \in File : cursors[f] # Gone => Dated(f, cursors[f].stamp.changed, cursors[f].prefix)

\* The logs are older than the index when it is created.
LEMMA InitDated == Init => DatedInv
  BY WatchAssumption DEF Init, DatedInv, Present

\* A change of a log gives it a later time.
LEMMA ChangeDates ==
    ASSUME TypeOK, DatedInv, NEW f \in File, NEW image, Change(f, image),
           image = Gone \/ image.changed = clock + 1
    PROVE  DatedInv'
<1>1. /\ clock \in Nat /\ clock' = clock + 1 /\ UNCHANGED <<cursors, snapshots>>
      /\ \A g \in File : disk'[g] = IF g = f THEN image ELSE disk[g]
  BY DEF TypeOK, Change, cursorVars, readVars
<1>2. \A g \in File : g \in Present => disk[g].changed \in Nat
  BY DEF TypeOK, Present, ImageOf
<1>3. ASSUME NEW g \in File, g \in Present' PROVE disk'[g].changed <= clock'
  <2>1. CASE g = f
    BY <1>1, <1>3, <2>1 DEF Present
  <2>2. CASE g # f
    BY <1>1, <1>2, <1>3, <2>2 DEF Present, DatedInv
  <2> QED  BY <2>1, <2>2
<1>4. ASSUME NEW g \in File, NEW t \in Nat, NEW bytes, Dated(g, t, bytes) PROVE Dated(g, t, bytes)'
  <2>1. t <= clock'
    BY <1>1, <1>4 DEF Dated
  <2>2. ASSUME g \in Present', disk'[g].changed = t PROVE disk'[g].bytes = bytes
    <3>1. g # f
      BY <1>1, <1>4, <2>2 DEF Present, Dated
    <3> QED  BY <1>1, <1>4, <2>2, <3>1 DEF Present, Dated
  <2> QED  BY <2>1, <2>2 DEF Dated
<1>5. \A g \in File : /\ snapshots[g] # Gone => snapshots[g].changed \in Nat
                      /\ cursors[g] # Gone => cursors[g].stamp.changed \in Nat
  BY DEF TypeOK, ImageOf, Cursors, Stamps
<1>6. \A g \in File : snapshots[g] # Gone => Dated(g, snapshots[g].changed, snapshots[g].bytes)'
  BY <1>1, <1>4, <1>5 DEF DatedInv
<1>7. \A g \in File : cursors[g] # Gone => Dated(g, cursors[g].stamp.changed, cursors[g].prefix)'
  BY <1>1, <1>4, <1>5 DEF DatedInv
<1> QED  BY <1>1, <1>3, <1>6, <1>7 DEF DatedInv

\* Reads and feeds: a snapshot or a cursor is there still, or it was taken of what is there now.
Taken ==
    /\ UNCHANGED diskVars
    /\ \A f \in File : snapshots'[f] \in {Gone, snapshots[f], disk[f]}
    /\ \A f \in File : cursors'[f] # Gone =>
          \/ cursors'[f] = cursors[f]
          \/ /\ snapshots[f] # Gone /\ cursors'[f].prefix = snapshots[f].bytes
             /\ cursors'[f].stamp.changed = snapshots[f].changed
          \/ /\ f \in Present /\ cursors'[f].prefix = disk[f].bytes
             /\ cursors'[f].stamp.changed = disk[f].changed

\* What a step takes that leaves the cursors and the snapshots, or puts the snapshots away.
LEMMA NothingTaken ==
    ASSUME UNCHANGED <<diskVars, cursors>>,
           \/ UNCHANGED snapshots
           \/ snapshots' = [f \in File |-> Gone]
    PROVE  Taken
  BY DEF Taken

\* The cursors a listing leaves: that of each snapshot.
LEMMA SnapshotCursors ==
    ASSUME TypeOK
    PROVE  \A f \in File : CursorsOfSnapshots[f] # Gone =>
              /\ snapshots[f] # Gone
              /\ CursorsOfSnapshots[f].prefix = snapshots[f].bytes
              /\ CursorsOfSnapshots[f].stamp = Stamp(snapshots[f])
  BY DEF CursorsOfSnapshots, Advance

\* The polling thread reads what is there.
LEMMA IndexTakes ==
    ASSUME TypeOK, Index \/ UNCHANGED vars
    PROVE  Taken
<1> USE DEF cursorVars, indexVars, readVars
<1>1. CASE UNCHANGED vars
  BY <1>1, NothingTaken DEF vars
<1>2. CASE Seed \/ PollPaths
  BY <1>2, NothingTaken DEF Seed, PollPaths, StartReads
<1>3. CASE Deliver \/ Sleep
  BY <1>3, NothingTaken DEF Deliver, Sleep
<1>4. CASE Reading
  <2>1. ASSUME NEW f \in File, SkipFile(f) \/ OpenFile(f) \/ ReadNothing(f) PROVE Taken
    BY <2>1, NothingTaken DEF SkipFile, OpenFile, ReadNothing
  <2>2. ASSUME NEW f \in File, ReadSnapshot(f) PROVE Taken
    <3>1. \A g \in File : snapshots'[g] \in {Gone, snapshots[g], disk[g]}
      BY <2>2 DEF ReadSnapshot, TypeOK
    <3> QED  BY <2>2, <3>1 DEF ReadSnapshot, Taken
  <2>3. ASSUME NEW f \in File, FindRewritten(f) PROVE Taken
    BY <2>3, NothingTaken DEF FindRewritten, StartReads
  <2>4. ASSUME NEW f \in File, FeedFile(f) PROVE Taken
    <3>1. f \in Present /\ UNCHANGED <<diskVars, snapshots>>
      BY <2>4 DEF FeedFile, Coherent
    <3>2. cursors' = [cursors EXCEPT ![f] = Advance(CursorAt(f), disk[f], Position(CursorAt(f)))]
      BY <2>4 DEF FeedFile
    <3>3. \A g \in File : g # f => cursors'[g] = cursors[g]
      BY <3>2 DEF TypeOK
    <3>4. cursors'[f].prefix = disk[f].bytes /\ cursors'[f].stamp.changed = disk[f].changed
      BY <3>2 DEF TypeOK, Advance, Stamp
    <3> QED  BY <3>1, <3>3, <3>4 DEF Taken
  <2>5. CASE FeedSeed \/ Rebuild
    <3>1. cursors' = CursorsOfSnapshots /\ UNCHANGED <<diskVars, snapshots>>
      BY <2>5 DEF FeedSeed, Rebuild
    <3>2. \A f \in File : cursors'[f] # Gone =>
             /\ snapshots[f] # Gone /\ cursors'[f].prefix = snapshots[f].bytes
             /\ cursors'[f].stamp = Stamp(snapshots[f])
      BY <3>1, SnapshotCursors
    <3>3. \A image : Stamp(image).changed = image.changed
      BY DEF Stamp
    <3>4. \A f \in File : cursors'[f] # Gone =>
             /\ snapshots[f] # Gone /\ cursors'[f].prefix = snapshots[f].bytes
             /\ cursors'[f].stamp.changed = snapshots[f].changed
      BY <3>2, <3>3
    <3>5. UNCHANGED diskVars /\ \A f \in File : snapshots'[f] = snapshots[f]
      BY <3>1
    <3> QED  BY <3>4, <3>5 DEF Taken
  <2>6. CASE RetryLater \/ EndScan \/ EndFeed \/ FeedEntry
    BY <2>6, NothingTaken DEF RetryLater, EndScan, EndFeed, FeedEntry
  <2> QED  BY <1>4, <2>1, <2>2, <2>3, <2>4, <2>5, <2>6 DEF Reading
<1> QED  BY <1>1, <1>2, <1>3, <1>4 DEF Index

\* An agent changes one log, and dates it.
LEMMA AgentChanges ==
    ASSUME Agent
    PROVE  \E f \in File : \E image :
              Change(f, image) /\ (image = Gone \/ image.changed = clock + 1)
<1>1. PICK f \in File : AppendLine(f) \/ EndLine(f) \/ Rewrite(f) \/ Replace(f) \/ Delete(f)
  BY DEF Agent
<1>2. \A ino, bytes : Image(ino, clock + 1, bytes).changed = clock + 1
  BY DEF Image
<1>3. CASE AppendLine(f)
  BY <1>2, <1>3 DEF AppendLine
<1>4. CASE EndLine(f)
  BY <1>2, <1>4 DEF EndLine
<1>5. CASE Rewrite(f)
  BY <1>2, <1>5 DEF Rewrite
<1>6. CASE Replace(f)
  BY <1>2, <1>6 DEF Replace
<1>7. CASE Delete(f)
  BY <1>7 DEF Delete
<1> QED  BY <1>1, <1>3, <1>4, <1>5, <1>6, <1>7

\* Every step dates what it reads.
LEMMA StepDates == Inv /\ DatedInv /\ [Next]_vars => DatedInv'
<1> SUFFICES ASSUME Inv, DatedInv, [Next]_vars PROVE DatedInv'
  OBVIOUS
<1>1. TypeOK
  BY DEF Inv
<1>2. CASE Agent
  BY <1>1, <1>2, AgentChanges, ChangeDates
<1>3. CASE Index \/ UNCHANGED vars
  <2>1. Taken
    BY <1>1, <1>3, IndexTakes
  <2>2. disk' = disk /\ clock' = clock
    BY <2>1 DEF Taken, diskVars
  <2>3. \A f \in File : f \in Present => Dated(f, disk[f].changed, disk[f].bytes)
    BY DEF Dated, DatedInv
  <2>4. ASSUME NEW f \in File, snapshots'[f] # Gone
        PROVE  Dated(f, snapshots'[f].changed, snapshots'[f].bytes)
    BY <2>1, <2>3, <2>4 DEF Taken, DatedInv, Present
  <2>5. ASSUME NEW f \in File, cursors'[f] # Gone
        PROVE  Dated(f, cursors'[f].stamp.changed, cursors'[f].prefix)
    BY <2>1, <2>3, <2>5 DEF Taken, DatedInv
  <2> QED  BY <2>2, <2>4, <2>5 DEF DatedInv, Dated, Present
<1> QED  BY <1>2, <1>3 DEF Next

\* A file whose stamp is its cursor's has the bytes the cursor consumed.
LEMMA SyncedIsScanned == Inv /\ DatedInv /\ IndexMatchesCursors => IndexMatchesDisk
<1> SUFFICES ASSUME Inv, DatedInv, IndexMatchesCursors, pc # "feed", InSync
             PROVE  Winners(dd.entries) =
                    Winners(ScanFresh(EntriesIn([f \in File |->
                        IF f \in Present THEN disk[f].bytes ELSE Gone])).entries)
  BY DEF IndexMatchesDisk
<1>1. ASSUME NEW f \in File, f \in Present
      PROVE  cursors[f] # Gone /\ cursors[f].prefix = disk[f].bytes
  <2>1. cursors[f] # Gone /\ cursors[f].stamp.changed = disk[f].changed
    <3>1. cursors[f] # Gone /\ cursors[f].stamp = Stamp(disk[f])
      BY <1>1 DEF InSync
    <3> QED  BY <3>1 DEF Stamp
  <2> QED  BY <1>1, <2>1 DEF DatedInv, Dated
<1>2. \A f \in File : f \notin Present => cursors[f] = Gone
  BY DEF InSync
<1>3. [f \in File |-> IF f \in Present THEN disk[f].bytes ELSE Gone]
        = [f \in File |-> IF cursors[f] = Gone THEN Gone ELSE cursors[f].prefix]
  BY <1>1, <1>2
<1> QED  BY <1>3 DEF IndexMatchesCursors

\* What was read of the logs stays dated.
LEMMA ReadsDated == Spec => [](Inv /\ DatedInv)
<1>1. Init => Inv /\ DatedInv
  BY InitInv, InitDated
<1>2. Inv /\ DatedInv /\ [Next]_vars => (Inv /\ DatedInv)'
  BY StepKeeps, StepDates
<1> QED  BY <1>1, <1>2, PTL DEF Spec

\* An index whose cursors carry the stamps of the logs keeps what a fresh scan of the logs
\* keeps: neither a rewrite of the same size, nor a rename over a log, nor a poll that gave up
\* has it keep anything else (poll_file's skip of an unchanged stamp).
THEOREM KeptAsOnDisk == Spec => []IndexMatchesDisk
  BY KeptAsScanned, ReadsDated, SyncedIsScanned, PTL

=============================================================================
