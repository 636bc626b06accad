-------------------------- MODULE ClaudeViews_proofs --------------------------
(***************************************************************************)
(* The two consumers of the Claude index, the live view and the daemon's   *)
(* rows, for all logs, days and thresholds: their index is one of          *)
(* ClaudeWatch, so what is proved of that holds of it.  As long as no log  *)
(* was rewritten, every message that the live totals count was told of.    *)
(* Between polls the live book's totals and the daemon's rows are those of *)
(* the entries the index keeps.                                            *)
(*                                                                         *)
(* The first follows each kept entry from its outcome through the events   *)
(* of the tick to the stream.  While the logs only grow the copies that    *)
(* were ever seen are those seen since the start, so nothing is taken for  *)
(* history; a copy that replaces another is of the same message.           *)
(*                                                                         *)
(* The stream tells of a record no more often than the logs held it: it is *)
(* told of when a poll meets more copies of it than any before, and what a *)
(* poll has met lies under the cursors.                                    *)
(*                                                                         *)
(* The book: what its rows are sums of, and what a single addition,        *)
(* replacement, reset and midnight makes of sums and of rows that may go   *)
(* away, so that no row falls below zero; and that the outcomes a poll     *)
(* still has to deliver lead, one after another, from the index the book   *)
(* agrees with to the index as it stands.                                  *)
(*                                                                         *)
(* The rows of the daemon are rebuilt from the index as it has become, so  *)
(* they follow no such path: the invariant says what each outcome on its   *)
(* way leaves open, and that nothing else is.                              *)
(***************************************************************************)
EXTENDS ClaudeLive, ClaudeResident, ClaudeWatch_proofs, FiniteSetTheorems

AddedType ==
    [kind: {"Added"}, index: Nat, entry: Entry, session: Session, historical: BOOLEAN]

ReplacedType ==
    [kind: {"Replaced"}, index: Nat, previous: Entry, entry: Entry, session: Session,
     previous_session: Session]

OutcomeType ==
    [kind: {"Reset"}] \cup ReplacedType
        \cup {o \in AddedType : Identity(o.entry, o.session) \in Identities}

\* An outcome that the view will make an event of.
Tells(o, k) == o.kind = "Added" /\ ~o.historical /\ Identity(o.entry, o.session) = k

\* An event of k was emitted, or will be in this tick.
ToldOf(k) ==
    \/ streamed[k] > 0
    \/ k \in ToSet(events)
    \/ \E j \in DOMAIN outcomes : Tells(outcomes[j], k)

\* The index was never rebuilt.
Growing ==
    /\ ~reindexed
    /\ ~(pc = "feed" /\ task = "rebuild")
    /\ \A j \in DOMAIN outcomes : outcomes[j].kind # "Reset"

StreamTypes ==
    /\ outcomes \in Seq(OutcomeType)
    /\ events \in Seq(Identities)
    /\ streamed \in [Identities -> Nat]
    /\ reindexed \in BOOLEAN

\* Between ticks everything was delivered and emitted.
Emitted == pc \in {"boot", "idle"} => outcomes = <<>> /\ events = <<>>

NothingForgotten == Growing => current_occurrences = known_occurrences

KeptIsTold ==
    Growing =>
        \A i \in DOMAIN dd.entries : \E k \in Identities :
            SameFamily(k, Identity(dd.entries[i], deduped_sessions[i])) /\ ToldOf(k)

StreamInv == StreamTypes /\ Emitted /\ NothingForgotten /\ KeptIsTold

\* The live view takes the steps of ClaudeWatch, and between them steps that leave the index alone.
LEMMA LiveIsWatch ==
    /\ LiveInit => Init
    /\ [LiveNext]_allVars => [Next]_vars
<1>1. LiveInit => Init
  BY DEF LiveInit
<1>2. ASSUME LiveNext PROVE [Next]_vars
  BY <1>2 DEF LiveNext, LiveAgent, LiveIndex, StartTick, Accept, EndTick, Midnight, Next, Index
<1>3. UNCHANGED allVars => UNCHANGED vars
  BY DEF allVars
<1> QED  BY <1>1, <1>2, <1>3

\* Its index is one of ClaudeWatch: well-shaped, and counting every response once.
THEOREM LiveIndexIsGood == LiveSpec => []Inv
<1>1. LiveSpec => Init /\ [][Next]_vars
  BY LiveIsWatch, PTL DEF LiveSpec
<1> QED  BY <1>1, InitInv, StepKeeps, PTL

\* What a fed entry comes to, and what the index and the counts come to with it.
LEMMA FeedEntryIs ==
    ASSUME Inv, FeedEntry
    PROVE  LET e == Head(pending).entry
               s == Head(pending).session
               k == Identity(e, s)
               at == Place(dd, e)
           IN
           /\ e \in Entry /\ s \in Session /\ k \in Identities
           /\ \/ /\ Outcome(dd, e) = "Added" /\ at = Len(dd.entries) + 1
                 /\ dd'.entries = Append(dd.entries, e)
                 /\ deduped_sessions' = Append(deduped_sessions, s)
                 /\ Sink(AddedOutcome(e, s, current_occurrences[k] + 1 <= known_occurrences[k]))
              \/ /\ Outcome(dd, e) = "Replaced" /\ at \in DOMAIN dd.entries
                 /\ e.id # None /\ dd.entries[at].id = e.id
                 /\ dd'.entries = [dd.entries EXCEPT ![at] = e]
                 /\ deduped_sessions' = [deduped_sessions EXCEPT ![at] = s]
                 /\ Sink(ReplacedOutcome(e, s))
              \/ dd' = dd /\ UNCHANGED <<deduped_sessions, outcomes>>
<1> DEFINE e == Head(pending).entry
           s == Head(pending).session
           k == Identity(e, s)
           at == Place(dd, e)
<1>1. Head(pending) \in Known
  <2>1. pending \in Seq(Known) /\ pending # <<>>
    BY DEF Inv, FeedEntry
  <2> QED  BY <2>1, HeadTailType
<1>2. e \in Entry /\ s \in Session /\ k \in Identities
  BY <1>1 DEF Known, Scanned
<1>3. /\ dd' = PushDeduped(dd, e)
      /\ \/ /\ Outcome(dd, e) = "Added"
            /\ deduped_sessions' = Append(deduped_sessions, s)
            /\ Sink(AddedOutcome(e, s, current_occurrences[k] + 1 <= known_occurrences[k]))
         \/ /\ Outcome(dd, e) # "Added"
            /\ IF Outcome(dd, e) = "Replaced"
               THEN /\ deduped_sessions' = [deduped_sessions EXCEPT ![at] = s]
                    /\ Sink(ReplacedOutcome(e, s))
               ELSE UNCHANGED <<deduped_sessions, outcomes>>
  BY DEF FeedEntry
<1>4. GoodIndex(dd)
  BY DEF Inv
<1> HIDE DEF e, s
<1>5. CASE Outcome(dd, e) = "Added"
  <2>1. at = Len(dd.entries) + 1 /\ dd'.entries = Append(dd.entries, e)
    BY <1>3, <1>5 DEF PushDeduped, Outcome, Place
  <2> QED  BY <1>2, <1>3, <1>5, <2>1 DEF e, s
<1>6. CASE Outcome(dd, e) = "Replaced"
  <2>1. ExistingIndex(dd, e) # 0 /\ at = ExistingIndex(dd, e)
    BY <1>6 DEF Outcome, Place
  <2>2. at \in DOMAIN dd.entries /\ e.id # None /\ dd.entries[at].id = e.id
    BY <1>2, <1>4, <2>1, ExistingIs
  <2>3. dd'.entries = [dd.entries EXCEPT ![at] = e]
    BY <1>3, <1>6 DEF PushDeduped
  <2> QED  BY <1>2, <1>3, <1>6, <2>2, <2>3 DEF e, s
<1>7. CASE Outcome(dd, e) = "Duplicate"
  <2>1. dd' = dd
    BY <1>3, <1>7 DEF PushDeduped
  <2> QED  BY <1>2, <1>3, <1>7, <2>1 DEF e, s
<1> QED  BY <1>5, <1>6, <1>7 DEF Outcome

\* Two copies of a message are of one family.
LEMMA CopiesAreFamily ==
    ASSUME NEW k, NEW d, NEW u, NEW e, NEW s, d.id # None, e.id = d.id, SameFamily(k, Identity(d, u))
    PROVE  SameFamily(k, Identity(e, s))
  BY DEF SameFamily, Identity

\* What the poll tells of an entry has its shape.
LEMMA OutcomesType ==
    ASSUME Inv, FeedEntry, outcomes \in Seq(OutcomeType)
    PROVE  outcomes' \in Seq(OutcomeType)
<1> DEFINE e == Head(pending).entry
           s == Head(pending).session
           k == Identity(e, s)
           at == Place(dd, e)
           historical == current_occurrences[k] + 1 <= known_occurrences[k]
<1>1. e \in Entry /\ s \in Session /\ k \in Identities
  BY FeedEntryIs
<1>2. /\ dd.entries \in Seq(Entry) /\ deduped_sessions \in Seq(Session)
      /\ Len(deduped_sessions) = Len(dd.entries)
  BY DEF Inv, TypeOK
<1>3. ASSUME NEW o \in OutcomeType, Sink(o) PROVE outcomes' \in Seq(OutcomeType)
  BY <1>3 DEF Sink
<1>4. \/ /\ at = Len(dd.entries) + 1 /\ Sink(AddedOutcome(e, s, historical))
      \/ /\ at \in DOMAIN dd.entries /\ Sink(ReplacedOutcome(e, s))
      \/ UNCHANGED outcomes
  BY FeedEntryIs
<1>5. historical \in BOOLEAN
  OBVIOUS
<1> HIDE DEF e, s, historical
<1>6. CASE at = Len(dd.entries) + 1 /\ Sink(AddedOutcome(e, s, historical))
  <2>1. AddedOutcome(e, s, historical) \in OutcomeType
    BY <1>1, <1>2, <1>5, <1>6 DEF AddedOutcome, OutcomeType, AddedType
  <2> QED  BY <1>3, <1>6, <2>1
<1>7. CASE at \in DOMAIN dd.entries /\ Sink(ReplacedOutcome(e, s))
  <2>1. dd.entries[at] \in Entry /\ deduped_sessions[at] \in Session /\ at \in Nat
    BY <1>2, <1>7
  <2>2. ReplacedOutcome(e, s) \in OutcomeType
    BY <1>1, <2>1 DEF ReplacedOutcome, OutcomeType, ReplacedType
  <2> QED  BY <1>3, <1>7, <2>2
<1> QED  BY <1>4, <1>6, <1>7

\* While nothing is rebuilt, a copy that is taken for new is counted and told of as new.
LEMMA FeedEntryIsTold ==
    ASSUME Inv, StreamInv, FeedEntry, UNCHANGED <<liveVars, logVars>>
    PROVE  StreamInv'
<1> DEFINE e == Head(pending).entry
           s == Head(pending).session
           k == Identity(e, s)
           at == Place(dd, e)
           historical == current_occurrences[k] + 1 <= known_occurrences[k]
<1>1. e \in Entry /\ s \in Session /\ k \in Identities
  BY FeedEntryIs
<1>2. /\ UNCHANGED <<events, streamed, reindexed, pc, task>> /\ pc = "feed"
  BY DEF liveVars, FeedEntry
<1>3. outcomes' \in Seq(OutcomeType) /\ outcomes \in Seq(OutcomeType)
  BY OutcomesType DEF StreamInv, StreamTypes
<1>4. StreamTypes' /\ Emitted'
  BY <1>2, <1>3 DEF StreamInv, StreamTypes, Emitted
<1>5. CASE ~Growing'
  BY <1>4, <1>5 DEF StreamInv, NothingForgotten, KeptIsTold
<1>6. CASE Growing'
  <2>1. task # "rebuild"
    BY <1>2, <1>6 DEF Growing
  <2>2. \A o : Sink(o) => outcomes' = Append(outcomes, o)
    BY <2>1 DEF Sink
  <2>3. \/ /\ dd'.entries = Append(dd.entries, e)
           /\ deduped_sessions' = Append(deduped_sessions, s)
           /\ outcomes' = Append(outcomes, AddedOutcome(e, s, historical))
        \/ /\ at \in DOMAIN dd.entries /\ dd.entries[at].id # None /\ e.id = dd.entries[at].id
           /\ dd'.entries = [dd.entries EXCEPT ![at] = e]
           /\ deduped_sessions' = [deduped_sessions EXCEPT ![at] = s]
           /\ outcomes' = Append(outcomes, ReplacedOutcome(e, s))
        \/ dd' = dd /\ UNCHANGED <<deduped_sessions, outcomes>>
    BY <2>2, FeedEntryIs
  <2>4. /\ current_occurrences \in [Identities -> Nat] /\ known_occurrences \in [Identities -> Nat]
        /\ dd.entries \in Seq(Entry) /\ deduped_sessions \in Seq(Session)
        /\ Len(deduped_sessions) = Len(dd.entries)
    BY DEF Inv, TypeOK
  <2>5. \/ /\ current_occurrences' = [current_occurrences EXCEPT ![k] = current_occurrences[k] + 1]
           /\ known_occurrences' =
                 [known_occurrences EXCEPT ![k] = Max({@, current_occurrences[k] + 1})]
        \/ /\ current_occurrences' = [current_occurrences EXCEPT ![k] = AtLeastOne(@)]
           /\ known_occurrences' = [known_occurrences EXCEPT ![k] = AtLeastOne(@)]
    BY DEF FeedEntry
  <2> HIDE DEF e, s, at, k
  <2>6. Len(outcomes') >= Len(outcomes) /\ \A j \in DOMAIN outcomes : outcomes'[j] = outcomes[j]
        /\ j \in DOMAIN outcomes'
    BY <1>3, <2>3
  <2>7. Growing
    BY <1>2, <1>6, <2>6 DEF Growing
  <2>8. current_occurrences = known_occurrences
    BY <2>7 DEF StreamInv, NothingForgotten
  <2>9. ~historical
    BY <1>1, <2>4, <2>8
  <2>10. NothingForgotten'
    <3>1. Max({current_occurrences[k], current_occurrences[k] + 1}) = current_occurrences[k] + 1
      <4> DEFINE n == current_occurrences[k]
      <4>1. n \in Nat
        BY <1>1, <2>4
      <4> HIDE DEF n
      <4>2. {n, n + 1} \in SUBSET Nat /\ \A x \in {n, n + 1} : (\A y \in {n, n + 1} : x >= y) <=> x = n + 1
        BY <4>1
      <4>3. Max({n, n + 1}) = n + 1
        BY <4>2 DEF Max
      <4> QED  BY <4>3 DEF n
    <3> QED  BY <2>5, <2>8, <3>1 DEF NothingForgotten
  <2>11. \A l \in Identities : ToldOf(l) => ToldOf(l)'
    BY <1>2, <2>6 DEF ToldOf
  <2>12. \A i \in DOMAIN dd.entries : \E l \in Identities :
            SameFamily(l, Identity(dd.entries[i], deduped_sessions[i])) /\ ToldOf(l)'
    BY <2>7, <2>11 DEF StreamInv, KeptIsTold
  <2>13. ASSUME NEW i \in DOMAIN dd'.entries
         PROVE  \E l \in Identities :
                   SameFamily(l, Identity(dd'.entries[i], deduped_sessions'[i])) /\ ToldOf(l)'
    <3>1. CASE /\ dd'.entries = Append(dd.entries, e)
               /\ deduped_sessions' = Append(deduped_sessions, s)
               /\ outcomes' = Append(outcomes, AddedOutcome(e, s, historical))
      <4>1. CASE i \in DOMAIN dd.entries
        <5>1. dd'.entries[i] = dd.entries[i] /\ deduped_sessions'[i] = deduped_sessions[i]
          BY <2>4, <3>1, <4>1
        <5> QED  BY <2>12, <4>1, <5>1
      <4>2. CASE i \notin DOMAIN dd.entries
        <5>1. dd'.entries[i] = e /\ deduped_sessions'[i] = s
          BY <2>4, <3>1, <4>2
        <5>0. PICK l \in Identities : l = k
          BY <1>1
        <5>2. ToldOf(l)'
          <6>1. /\ Len(outcomes) + 1 \in DOMAIN outcomes'
                /\ outcomes'[Len(outcomes) + 1] = AddedOutcome(e, s, historical)
            BY <1>3, <3>1
          <6>2. Tells(AddedOutcome(e, s, historical), l)
            BY <2>9, <5>0 DEF Tells, AddedOutcome, k
          <6> QED  BY <6>1, <6>2 DEF ToldOf, Tells
        <5>3. SameFamily(l, Identity(e, s))
          BY <5>0 DEF SameFamily, k
        <5> QED  BY <5>1, <5>2, <5>3
      <4> QED  BY <4>1, <4>2
    <3>2. CASE /\ at \in DOMAIN dd.entries /\ dd.entries[at].id # None /\ e.id = dd.entries[at].id
               /\ dd'.entries = [dd.entries EXCEPT ![at] = e]
               /\ deduped_sessions' = [deduped_sessions EXCEPT ![at] = s]
      <4>0. i \in DOMAIN dd.entries
        BY <3>2
      <4>1. CASE i # at
        <5>1. dd'.entries[i] = dd.entries[i] /\ deduped_sessions'[i] = deduped_sessions[i]
          BY <2>4, <3>2, <4>0, <4>1
        <5> QED  BY <2>12, <4>0, <5>1
      <4>2. CASE i = at
        <5>1. dd'.entries[i] = e /\ deduped_sessions'[i] = s
          BY <2>4, <3>2, <4>2
        <5>2. PICK l \in Identities :
                 SameFamily(l, Identity(dd.entries[at], deduped_sessions[at])) /\ ToldOf(l)'
          BY <2>12, <3>2
        <5> QED  BY <3>2, <5>1, <5>2, CopiesAreFamily
      <4> QED  BY <4>1, <4>2
    <3>3. CASE dd' = dd /\ UNCHANGED deduped_sessions
      BY <2>12, <3>3
    <3> QED  BY <2>3, <3>1, <3>2, <3>3
  <2> QED  BY <1>4, <2>10, <2>13 DEF StreamInv, KeptIsTold
<1> QED  BY <1>5, <1>6

\* Delivering an outcome makes an event of what it tells, or says that the index was rebuilt.
LEMMA AcceptIsTold ==
    ASSUME Inv, StreamInv, Accept
    PROVE  StreamInv'
<1> DEFINE o == Head(outcomes)
<1>1. /\ pc = "deliver" /\ outcomes # <<>> /\ outcomes' = Tail(outcomes)
      /\ UNCHANGED <<pc, task, dd, deduped_sessions, current_occurrences, known_occurrences, streamed>>
      /\ \/ o.kind = "Reset" /\ reindexed' = TRUE /\ UNCHANGED events
         \/ /\ o.kind = "Added" /\ UNCHANGED reindexed
            /\ events' = IF o.historical THEN events
                         ELSE Append(events, Identity(o.entry, o.session))
         \/ o.kind = "Replaced" /\ UNCHANGED <<events, reindexed>>
  BY DEF Accept, Deliver, AcceptReset, AcceptAdded, AcceptReplaced, indexVars
<1>2. /\ o \in OutcomeType /\ outcomes' \in Seq(OutcomeType)
      /\ ToSet(outcomes) = ToSet(outcomes') \cup {o}
  BY <1>1, Dequeued DEF StreamInv, StreamTypes
<1>3. o.kind = "Added" => Identity(o.entry, o.session) \in Identities
  BY <1>2 DEF OutcomeType, ReplacedType
<1> HIDE DEF o
<1>4. /\ events \in Seq(Identities) /\ events' \in Seq(Identities)
      /\ \A k \in ToSet(events) : k \in ToSet(events')
      /\ o.kind = "Added" /\ ~o.historical => Identity(o.entry, o.session) \in ToSet(events')
  <2>1. events \in Seq(Identities)
    BY DEF StreamInv, StreamTypes
  <2>2. CASE o.kind = "Added" /\ ~o.historical
    <3> DEFINE x == Identity(o.entry, o.session)
    <3>1. x \in Identities /\ events' = Append(events, x)
      BY <1>1, <1>3, <2>2
    <3> HIDE DEF x
    <3>2. Append(events, x) \in Seq(Identities) /\ ToSet(Append(events, x)) = ToSet(events) \cup {x}
      BY <2>1, <3>1, Enqueued
    <3> QED  BY <2>1, <3>1, <3>2 DEF x
  <2>3. CASE ~(o.kind = "Added" /\ ~o.historical)
    <3>1. UNCHANGED events
      BY <1>1, <2>3
    <3> QED  BY <2>1, <2>3, <3>1
  <2> QED  BY <2>2, <2>3
<1>5. StreamTypes' /\ Emitted'
  BY <1>1, <1>2, <1>4 DEF StreamInv, StreamTypes, Emitted
<1>6. ASSUME Growing' PROVE Growing
  <2>1. o.kind # "Reset" /\ ~reindexed
    BY <1>1, <1>6 DEF Growing
  <2>2. \A x \in ToSet(outcomes') : x.kind # "Reset"
    BY <1>6 DEF Growing, ToSet
  <2>3. \A x \in ToSet(outcomes) : x.kind # "Reset"
    BY <1>2, <2>1, <2>2
  <2> QED  BY <1>1, <2>1, <2>3 DEF Growing, ToSet
<1>7. ASSUME NEW k \in Identities, ToldOf(k) PROVE ToldOf(k)'
  <2>1. CASE streamed[k] > 0
    BY <1>1, <2>1 DEF ToldOf
  <2>2. CASE k \in ToSet(events)
    BY <1>4, <2>2 DEF ToldOf
  <2>3. CASE \E j \in DOMAIN outcomes : Tells(outcomes[j], k)
    <3>1. PICK x \in ToSet(outcomes) : Tells(x, k)
      BY <2>3 DEF ToSet
    <3>2. CASE x = o
      BY <1>4, <3>1, <3>2 DEF ToldOf, Tells
    <3>3. CASE x \in ToSet(outcomes')
      BY <3>1, <3>3 DEF ToldOf, Tells, ToSet
    <3> QED  BY <1>2, <3>2, <3>3
  <2> QED  BY <1>7, <2>1, <2>2, <2>3 DEF ToldOf
<1>8. NothingForgotten' /\ KeptIsTold'
  BY <1>1, <1>6, <1>7 DEF StreamInv, NothingForgotten, KeptIsTold
<1> QED  BY <1>5, <1>8 DEF StreamInv

\* An event is emitted once for each time it is noted.
LEMMA OccurrencesIs ==
    ASSUME NEW S, NEW q \in Seq(S), NEW x
    PROVE  Occurrences(q, x) \in Nat /\ (x \in ToSet(q) => Occurrences(q, x) > 0)
<1> DEFINE places == {i \in DOMAIN q : q[i] = x}
<1>1. Len(q) \in Nat /\ DOMAIN q = 1 .. Len(q)
  OBVIOUS
<1>2. IsFiniteSet(1 .. Len(q))
  BY <1>1, FS_Interval
<1>3. IsFiniteSet(places)
  BY <1>1, <1>2, FS_Subset
<1>4. x \in ToSet(q) => places # {}
  BY DEF ToSet
<1> HIDE DEF places
<1>5. Cardinality(places) \in Nat /\ (Cardinality(places) = 0 <=> places = {})
  BY <1>3, FS_CardinalityType, FS_EmptySet
<1> QED  BY <1>4, <1>5 DEF Occurrences, places

\* The end of a tick emits what was noted.
LEMMA EndTickIsTold ==
    ASSUME Inv, StreamInv, EndTick
    PROVE  StreamInv'
<1>1. /\ pc = "deliver" /\ pc' = "idle" /\ outcomes = <<>> /\ outcomes' = <<>> /\ events' = <<>>
      /\ UNCHANGED <<task, dd, deduped_sessions, current_occurrences, known_occurrences, reindexed>>
      /\ streamed' = [k \in Identities |-> streamed[k] + Occurrences(events, k)]
  BY DEF EndTick, Sleep, indexVars
<1>2. \A k \in Identities : /\ Occurrences(events, k) \in Nat
                            /\ k \in ToSet(events) => Occurrences(events, k) > 0
  BY OccurrencesIs DEF StreamInv, StreamTypes
<1>3. streamed \in [Identities -> Nat]
  BY DEF StreamInv, StreamTypes
<1>4. StreamTypes' /\ Emitted'
  BY <1>1, <1>2, <1>3 DEF StreamInv, StreamTypes, Emitted
<1>5. \A k \in Identities : ToldOf(k) => ToldOf(k)'
  BY <1>1, <1>2, <1>3 DEF ToldOf
<1>6. Growing' => Growing
  BY <1>1 DEF Growing
<1> QED  BY <1>1, <1>4, <1>5, <1>6 DEF StreamInv, NothingForgotten, KeptIsTold

\* The other steps of the poll tell of nothing; a rebuild says so.
LEMMA ReadingIsTold ==
    ASSUME Inv, StreamInv, Seed \/ PollPaths \/ (Reading /\ ~FeedEntry),
           UNCHANGED <<events, streamed, reindexed>>
    PROVE  StreamInv'
<1>1. CASE /\ UNCHANGED <<dd, deduped_sessions, current_occurrences, known_occurrences, outcomes>>
           /\ pc' \notin {"boot", "idle"}
           /\ ~(pc = "feed" /\ task = "rebuild")
  <2>1. Growing' => Growing
    BY <1>1 DEF Growing
  <2>2. StreamTypes' /\ Emitted'
    BY <1>1 DEF StreamInv, StreamTypes, Emitted
  <2>3. \A k \in Identities : ToldOf(k)' <=> ToldOf(k)
    BY <1>1 DEF ToldOf
  <2> QED  BY <1>1, <2>1, <2>2, <2>3 DEF StreamInv, NothingForgotten, KeptIsTold
<1>2. CASE Seed \/ PollPaths
  BY <1>1, <1>2 DEF Seed, PollPaths, StartReads, indexVars
<1>3. CASE \E f \in File : \/ SkipFile(f) \/ OpenFile(f) \/ ReadNothing(f) \/ ReadSnapshot(f)
                           \/ FeedFile(f) \/ FindRewritten(f)
  BY <1>1, <1>3 DEF SkipFile, OpenFile, ReadNothing, ReadSnapshot, FeedFile, FindRewritten, IsNext,
                    StartReads, indexVars
<1>4. CASE FeedSeed \/ RetryLater \/ EndScan
  BY <1>1, <1>4 DEF FeedSeed, RetryLater, EndScan, indexVars
<1>5. CASE Rebuild
  <2>1. ~Growing' /\ StreamTypes' /\ Emitted'
    BY <1>5 DEF Rebuild, Growing, StreamInv, StreamTypes, Emitted
  <2> QED  BY <2>1 DEF StreamInv, NothingForgotten, KeptIsTold
<1>6. CASE EndFeed
  <2>1. CASE task = "rebuild"
    <3>1. outcomes' = <<[kind |-> "Reset"]>> /\ pc' = "deliver"
      BY <1>6, <2>1 DEF EndFeed
    <3>2. ~Growing' /\ StreamTypes' /\ Emitted'
      BY <3>1 DEF Growing, StreamInv, StreamTypes, Emitted, OutcomeType
    <3> QED  BY <3>2 DEF StreamInv, NothingForgotten, KeptIsTold
  <2>2. CASE task # "rebuild"
    BY <1>1, <1>6, <2>2 DEF EndFeed, indexVars
  <2> QED  BY <2>1, <2>2
<1> QED  BY <1>2, <1>3, <1>4, <1>5, <1>6 DEF Reading

\* Every step of the view, of the agents and of the calendar.
LEMMA StepIsTold == Inv /\ StreamInv /\ [LiveNext]_allVars => StreamInv'
<1> SUFFICES ASSUME Inv, StreamInv, [LiveNext]_allVars PROVE StreamInv'
  OBVIOUS
<1>1. ASSUME UNCHANGED <<dd, deduped_sessions, current_occurrences, known_occurrences, outcomes, pc,
                         task, events, streamed, reindexed>>
      PROVE  StreamInv'
  BY <1>1 DEF StreamInv, StreamTypes, Emitted, NothingForgotten, KeptIsTold, Growing, ToldOf
<1>2. CASE LiveAgent \/ Midnight \/ UNCHANGED allVars
  <2>1. LiveAgent => UNCHANGED <<indexVars, outcomes, pc, task, liveVars>>
    BY DEF LiveAgent, Agent, AppendLine, EndLine, Rewrite, Replace, Delete, Change
  <2> QED  BY <1>1, <1>2, <2>1 DEF Midnight, allVars, vars, liveVars, indexVars
<1>3. CASE (Seed \/ Reading) /\ UNCHANGED <<liveVars, logVars>>
  BY <1>3, FeedEntryIsTold, ReadingIsTold DEF liveVars
<1>4. CASE StartTick
  BY <1>4, ReadingIsTold DEF StartTick
<1>5. CASE Accept
  BY <1>5, AcceptIsTold
<1>6. CASE EndTick
  BY <1>6, EndTickIsTold
<1> QED  BY <1>2, <1>3, <1>4, <1>5, <1>6 DEF LiveNext, LiveIndex

\* Nothing was told of, and nothing is kept, before anything was read.
LEMMA StreamStarts == LiveInit => StreamInv
<1> SUFFICES ASSUME LiveInit PROVE StreamInv
  OBVIOUS
<1>1. /\ outcomes = <<>> /\ events = <<>> /\ reindexed = FALSE /\ dd.entries = <<>>
      /\ streamed = [k \in Identities |-> 0] /\ current_occurrences = known_occurrences
  BY DEF LiveInit, Init, EmptyIndex
<1>4. streamed \in [Identities -> Nat] /\ <<>> \in Seq(OutcomeType) /\ <<>> \in Seq(Identities)
  BY <1>1
<1>5. StreamTypes
  BY <1>1, <1>4 DEF StreamTypes
<1>2. StreamTypes /\ Emitted /\ NothingForgotten
  BY <1>1, <1>5 DEF Emitted, NothingForgotten
<1>3. KeptIsTold
  BY <1>1 DEF KeptIsTold
<1> QED  BY <1>2, <1>3 DEF StreamInv

\* What the view knows of its stream, at any time.
LEMMA StreamInvariant == LiveSpec => []StreamInv
  BY StreamStarts, StepIsTold, LiveIndexIsGood, PTL DEF LiveSpec

\* While the logs only grow, every message that the totals count was streamed: whatever the polls
\* read of them and in which order (accept_outcome, and identity_occurrences of watch.rs).
THEOREM GrowthStreamed == LiveSpec => []GrowthIsStreamed
<1>1. StreamInv => GrowthIsStreamed
  <2> SUFFICES ASSUME StreamInv, pc = "idle", ~reindexed, NEW i \in DOMAIN dd.entries
               PROVE  \E k \in Identities :
                         streamed[k] > 0 /\ SameFamily(k, Identity(dd.entries[i], deduped_sessions[i]))
    BY DEF GrowthIsStreamed, KeptWasStreamed
  <2>1. outcomes = <<>> /\ events = <<>>
    BY DEF StreamInv, Emitted
  <2>2. Growing
    BY <2>1 DEF Growing
  <2>3. \A k \in Identities : ToldOf(k) => streamed[k] > 0
    BY <2>1, EmptyElements DEF ToldOf
  <2> QED  BY <2>2, <2>3 DEF StreamInv, KeptIsTold
<1> QED  BY <1>1, StreamInvariant, PTL

----------------------------------------------------------------------------
(***************************************************************************)
(* What the stream tells, and what the logs held.  A copy is told of as    *)
(* new when it is seen more often at a time than any before it; what is    *)
(* seen at a time lies under the cursors, and what lies under a cursor was *)
(* at some time in its file.                                               *)
(***************************************************************************)
\* The larger of two naturals is one of them, and as large as both.
LEMMA MaxIs ==
    \A a, b \in Nat : Max({a, b}) \in {a, b} /\ a <= Max({a, b}) /\ b <= Max({a, b})
<1> SUFFICES ASSUME NEW a \in Nat, NEW b \in Nat
             PROVE  Max({a, b}) \in {a, b} /\ a <= Max({a, b}) /\ b <= Max({a, b})
  OBVIOUS
<1>1. \E x \in {a, b} : \A y \in {a, b} : x >= y
  OBVIOUS
<1>2. Max({a, b}) \in {a, b} /\ \A y \in {a, b} : Max({a, b}) >= y
  BY <1>1 DEF Max
<1> QED  BY <1>2

\* The copies of an identity that a file holds are those a scan of it finds.
LEMMA CopiesAre ==
    ASSUME NEW image \in Images, NEW f \in File, NEW k, image # Gone
    PROVE  Copies(image, f, k) = Found(f, image.bytes, Ids(k)) /\ Copies(image, f, k) \in Nat
<1> DEFINE scanned == ScanLines(f, image.bytes)
           ids == [i \in DOMAIN scanned |-> Identity(scanned[i].entry, scanned[i].session)]
<1>1. image.bytes \in Bytes
  BY DEF Images, ImageOf
<1>2. scanned \in Seq(Scanned)
  BY <1>1, ScanLinesType, KnownScanned
<1> HIDE DEF scanned
<1>3. DOMAIN ids = DOMAIN scanned /\ \A i \in DOMAIN ids : ids[i] \in {k} <=> scanned[i] \in Ids(k)
  BY <1>2 DEF Ids
<1>4. HowMany(ids, {k}) = HowMany(scanned, Ids(k))
  <2> HIDE DEF ids
  <2> QED  BY <1>3, HowManySame
<1>5. Occurrences(ids, k) = HowMany(ids, {k})
  BY DEF Occurrences, HowMany
<1>6. Copies(image, f, k) = Occurrences(ids, k)
  BY DEF Copies, scanned
<1>7. HowMany(scanned, Ids(k)) \in Nat
  BY <1>2, HowManyType
<1> HIDE DEF ids
<1> QED  BY <1>4, <1>5, <1>6, <1>7 DEF Found, scanned

\* These bytes of the file f hold no more of any identity than this.
Holds(most, f, bytes) == \A k \in Identities : Found(f, bytes, Ids(k)) <= most[f][k]

\* Nothing on disk, in a snapshot or under a cursor holds more.
HeldInv ==
    /\ held \in [File -> [Identities -> Nat]]
    /\ \A f \in File : f \in Present => Holds(held, f, disk[f].bytes)
    /\ \A f \in File : snapshots[f] # Gone => Holds(held, f, snapshots[f].bytes)
    /\ \A f \in File : cursors[f] # Gone => Holds(held, f, cursors[f].prefix)

\* The history starts with what the logs hold.
LEMMA InitHolds == LiveInit => HeldInv
<1> SUFFICES ASSUME LiveInit PROVE HeldInv
  OBVIOUS
<1>1. Inv /\ \A f \in File : cursors[f] = Gone /\ snapshots[f] = Gone
  BY InitInv DEF LiveInit, Init
<1>2. \A f \in File : f \in Present => disk[f] \in Images /\ disk[f] # Gone
  BY <1>1 DEF Inv, TypeOK, Present, Images
<1>3. held = [f \in File |-> [k \in Identities |-> Copies(disk[f], f, k)]]
  BY DEF LiveInit
<1>4. \A f \in File, k \in Identities : Copies(disk[f], f, k) \in Nat
  <2> SUFFICES ASSUME NEW f \in File, NEW k \in Identities PROVE Copies(disk[f], f, k) \in Nat
    OBVIOUS
  <2>1. CASE f \in Present
    BY <1>2, <2>1, CopiesAre
  <2>2. CASE f \notin Present
    BY <2>2 DEF Present, Copies
  <2> QED  BY <2>1, <2>2
<1>5. held \in [File -> [Identities -> Nat]]
  BY <1>3, <1>4
<1>6. ASSUME NEW f \in File, f \in Present, NEW k \in Identities
      PROVE  Found(f, disk[f].bytes, Ids(k)) <= held[f][k]
  <2>1. Copies(disk[f], f, k) = Found(f, disk[f].bytes, Ids(k)) /\ Copies(disk[f], f, k) \in Nat
    BY <1>2, <1>6, CopiesAre
  <2>2. held[f][k] = Copies(disk[f], f, k)
    BY <1>3
  <2> QED  BY <2>1, <2>2
<1> QED  BY <1>1, <1>5, <1>6 DEF HeldInv, Holds

\* An agent's change is recorded, and what was held stays recorded.
LEMMA AgentHolds ==
    ASSUME Inv, Inv', HeldInv, LiveAgent
    PROVE  HeldInv' /\ \A f \in File, k \in Identities : held[f][k] <= held'[f][k]
<1>1. /\ UNCHANGED <<cursors, snapshots>>
      /\ held' = [f \in File |->
                    IF disk'[f] = disk[f] THEN held[f]
                    ELSE [k \in Identities |-> Max({held[f][k], Copies(disk'[f], f, k)})]]
  BY AgentChanges DEF LiveAgent, Change, cursorVars, readVars
<1>2. \A f \in File : f \in Present' => disk'[f] \in Images /\ disk'[f] # Gone
  BY DEF Inv, TypeOK, Present, Images
<1>3. \A f \in File, k \in Identities : Copies(disk'[f], f, k) \in Nat
  <2> SUFFICES ASSUME NEW f \in File, NEW k \in Identities PROVE Copies(disk'[f], f, k) \in Nat
    OBVIOUS
  <2>1. CASE f \in Present'
    BY <1>2, <2>1, CopiesAre
  <2>2. CASE f \notin Present'
    BY <2>2 DEF Present, Copies
  <2> QED  BY <2>1, <2>2
<1>4. \A f \in File, k \in Identities : held[f][k] \in Nat /\ held[f] \in [Identities -> Nat]
  BY DEF HeldInv
<1>5. ASSUME NEW f \in File
      PROVE  /\ held'[f] \in [Identities -> Nat]
             /\ \A k \in Identities : held[f][k] <= held'[f][k]
             /\ disk'[f] # disk[f] =>
                   \A k \in Identities : Copies(disk'[f], f, k) <= held'[f][k]
  <2>1. CASE disk'[f] = disk[f]
    <3>1. held'[f] = held[f]
      BY <1>1, <2>1
    <3> QED  BY <1>4, <2>1, <3>1 DEF HeldInv
  <2>2. CASE disk'[f] # disk[f]
    <3> DEFINE most(k) == Max({held[f][k], Copies(disk'[f], f, k)})
    <3>1. held'[f] = [k \in Identities |-> most(k)]
      BY <1>1, <2>2
    <3>2. \A k \in Identities : most(k) \in Nat /\ held[f][k] <= most(k)
                                /\ Copies(disk'[f], f, k) <= most(k)
      BY <1>3, <1>4, MaxIs
    <3> HIDE DEF most
    <3> QED  BY <3>1, <3>2
  <2> QED  BY <2>1, <2>2
<1>6. held' \in [File -> [Identities -> Nat]]
  <2>1. \E h : held' = [f \in File |-> h[f]]
    <3> DEFINE h == [f \in File |->
                    IF disk'[f] = disk[f] THEN held[f]
                    ELSE [k \in Identities |-> Max({held[f][k], Copies(disk'[f], f, k)})]]
    <3>1. held' = h /\ h = [f \in File |-> h[f]]
      BY <1>1
    <3> HIDE DEF h
    <3> QED  BY <3>1
  <2>2. held' = [f \in File |-> held'[f]]
    BY <2>1
  <2> QED  BY <1>5, <2>2
<1>7. ASSUME NEW f \in File, NEW bytes \in Bytes, Holds(held, f, bytes) PROVE Holds(held', f, bytes)
  <2> SUFFICES ASSUME NEW k \in Identities PROVE Found(f, bytes, Ids(k)) <= held'[f][k]
    BY DEF Holds
  <2>1. Found(f, bytes, Ids(k)) <= held[f][k] /\ Found(f, bytes, Ids(k)) \in Nat
    BY <1>7, FoundIs DEF Holds
  <2>2. held[f][k] \in Nat /\ held'[f][k] \in Nat /\ held[f][k] <= held'[f][k]
    BY <1>4, <1>5
  <2> QED  BY <2>1, <2>2
<1>8. ASSUME NEW f \in File, f \in Present' PROVE Holds(held', f, disk'[f].bytes)
  <2>1. CASE disk'[f] = disk[f]
    <3>1. f \in Present /\ disk[f].bytes \in Bytes
      BY <1>2, <1>8, <2>1 DEF Present, Images, ImageOf
    <3>2. Holds(held, f, disk[f].bytes)
      BY <3>1 DEF HeldInv
    <3> QED  BY <1>7, <2>1, <3>1, <3>2
  <2>2. CASE disk'[f] # disk[f]
    <3>1. \A k \in Identities : Copies(disk'[f], f, k) = Found(f, disk'[f].bytes, Ids(k))
      BY <1>2, <1>8, CopiesAre
    <3> QED  BY <1>5, <2>2, <3>1 DEF Holds
  <2> QED  BY <2>1, <2>2
<1>9. \A f \in File : /\ snapshots[f] # Gone => snapshots[f].bytes \in Bytes
                      /\ cursors[f] # Gone => cursors[f].prefix \in Bytes
  BY DEF Inv, TypeOK, ImageOf, Cursors
<1>10. \A f \in File : /\ snapshots'[f] # Gone => Holds(held', f, snapshots'[f].bytes)
                       /\ cursors'[f] # Gone => Holds(held', f, cursors'[f].prefix)
  BY <1>1, <1>7, <1>9 DEF HeldInv
<1> QED  BY <1>5, <1>6, <1>8, <1>10 DEF HeldInv

\* The poll reads what is there.
LEMMA IndexHolds ==
    ASSUME Inv, HeldInv, Index \/ UNCHANGED vars, UNCHANGED held
    PROVE  HeldInv'
<1>1. Taken /\ UNCHANGED disk
  BY IndexTakes DEF Inv, Taken, diskVars
<1>2. held' = held
  OBVIOUS
<1>3. ASSUME NEW f \in File, snapshots'[f] # Gone PROVE Holds(held, f, snapshots'[f].bytes)
  BY <1>1, <1>3 DEF Taken, HeldInv, Present
<1>4. ASSUME NEW f \in File, cursors'[f] # Gone PROVE Holds(held, f, cursors'[f].prefix)
  BY <1>1, <1>4 DEF Taken, HeldInv
<1> QED  BY <1>1, <1>2, <1>3, <1>4 DEF HeldInv, Present

\* The most copies of an identity that the logs ever held.
HeldOf(k) == SumTo([f \in File |-> held[f][k]], NumFiles)

\* What the cursors claim the logs held.
LEMMA ClaimedIsHeld ==
    ASSUME Inv, HeldInv, NEW k \in Identities
    PROVE  Claimed(cursors, Ids(k)) <= HeldOf(k) /\ HeldOf(k) \in Nat
<1> DEFINE n == [f \in File |-> Found(f, PrefixOf(cursors, f), Ids(k))]
           m == [f \in File |-> held[f][k]]
<1>1. cursors \in SomeCursors
  BY DEF Inv, TypeOK, SomeCursors
<1>2. /\ n \in [1 .. NumFiles -> Nat] /\ NumFiles \in Nat
      /\ \A f \in File : Found(f, PrefixOf(cursors, f), Ids(k)) \in Nat
  BY <1>1, ClaimedIs
<1>3. \A f \in File : held[f][k] \in Nat
  BY DEF HeldInv
<1>4. m \in [1 .. NumFiles -> Nat]
  BY <1>3 DEF File
<1>5. \A f \in 1 .. NumFiles : n[f] <= m[f]
  <2> SUFFICES ASSUME NEW f \in File PROVE Found(f, PrefixOf(cursors, f), Ids(k)) <= held[f][k]
    BY DEF File
  <2>1. CASE cursors[f] = Gone
    <3>1. Found(f, PrefixOf(cursors, f), Ids(k)) = 0
      BY <2>1, NothingFound DEF PrefixOf
    <3> QED  BY <1>3, <3>1
  <2>2. CASE cursors[f] # Gone
    BY <2>2 DEF PrefixOf, HeldInv, Holds
  <2> QED  BY <2>1, <2>2
<1>6. SumTo(n, NumFiles) <= SumTo(m, NumFiles) /\ SumTo(m, NumFiles) \in Nat
  <2> HIDE DEF n, m
  <2> QED  BY <1>2, <1>4, <1>5, SumOfLarger
<1> QED  BY <1>6 DEF Claimed, HeldOf

\* What is held grows.
LEMMA HeldGrows ==
    ASSUME HeldInv, HeldInv', NEW k \in Identities,
           \A f \in File : held[f][k] <= held'[f][k]
    PROVE  HeldOf(k) <= HeldOf(k)' /\ HeldOf(k) \in Nat /\ HeldOf(k)' \in Nat
<1> DEFINE n == [f \in File |-> held[f][k]]
           m == [f \in File |-> held'[f][k]]
<1>1. /\ n \in [1 .. NumFiles -> Nat] /\ m \in [1 .. NumFiles -> Nat] /\ NumFiles \in Nat
      /\ \A f \in 1 .. NumFiles : n[f] <= m[f]
  <2>1. \A f \in File : held[f][k] \in Nat /\ held'[f][k] \in Nat
    BY DEF HeldInv
  <2>2. File = 1 .. NumFiles /\ NumFiles \in Nat
    BY WatchAssumption DEF File
  <2> QED  BY <2>1, <2>2
<1>2. SumTo(n, NumFiles) <= SumTo(m, NumFiles)
      /\ SumTo(n, NumFiles) \in Nat /\ SumTo(m, NumFiles) \in Nat
  <2> HIDE DEF n, m
  <2> QED  BY <1>1, SumOfLarger
<1> QED  BY <1>2 DEF HeldOf

\* The outcomes that will make an event of k.
NewOf(k) == {o \in OutcomeType : Tells(o, k)}

\* How often k was told of as new: emitted, noted for this tick, and still to be delivered.
Tellings(k) == streamed[k] + HowMany(events, {k}) + HowMany(outcomes, NewOf(k))

\* An identity is told of as new no more often than it was kept at a time, and it was kept no
\* more often than the logs held it.
ToldInv ==
    \A k \in Identities : Tellings(k) <= known_occurrences[k] /\ known_occurrences[k] <= HeldOf(k)

\* They are counts.
LEMMA TellingsIs ==
    ASSUME StreamInv, NEW k \in Identities
    PROVE  /\ streamed[k] \in Nat /\ HowMany(events, {k}) \in Nat
           /\ HowMany(outcomes, NewOf(k)) \in Nat /\ Tellings(k) \in Nat
           /\ events \in Seq(Identities) /\ outcomes \in Seq(OutcomeType)
<1>1. /\ streamed[k] \in Nat /\ events \in Seq(Identities) /\ outcomes \in Seq(OutcomeType)
  BY DEF StreamInv, StreamTypes
<1>2. HowMany(events, {k}) \in Nat /\ HowMany(outcomes, NewOf(k)) \in Nat
  BY <1>1, HowManyType
<1> QED  BY <1>1, <1>2 DEF Tellings

\* A fed entry that is taken for new was kept once more than ever before, and the logs held it
\* that often.
LEMMA FeedEntryTells ==
    ASSUME Inv, ReadInv, HeldInv, StreamInv, StreamInv', ToldInv, FeedEntry,
           UNCHANGED <<liveVars, logVars>>
    PROVE  ToldInv'
<1> DEFINE x == Head(pending)
           e == x.entry
           s == x.session
           k == Identity(e, s)
           seen == current_occurrences[k] + 1
           historical == seen <= known_occurrences[k]
<1>1. /\ pending \in Seq(Scanned) /\ pending # <<>> /\ x \in Scanned
      /\ UNCHANGED <<events, streamed, held>>
  <2>1. pending \in Seq(Scanned) /\ pending # <<>>
    BY DEF Inv, TypeOK, FeedEntry
  <2> QED  BY <2>1, HeadTailType DEF liveVars, logVars
<1>2. k \in Identities
  BY FeedEntryIs
<1>3. /\ current_occurrences \in [Identities -> Nat] /\ known_occurrences \in [Identities -> Nat]
  BY DEF Inv, TypeOK
\* The logs held this copy beside those seen.
<1>4. seen <= HeldOf(k) /\ HeldOf(k) \in Nat /\ seen \in Nat \ {0}
  <2>1. current_occurrences[k] + HowMany(pending, Ids(k)) <= Claimed(cursors, Ids(k))
    BY <1>2 DEF ReadInv, OccurrencesClaimed
  <2>2. Claimed(cursors, Ids(k)) <= HeldOf(k) /\ HeldOf(k) \in Nat
    BY <1>2, ClaimedIsHeld
  <2>3. HowMany(pending, Ids(k)) = 1 + HowMany(Tail(pending), Ids(k))
        /\ HowMany(Tail(pending), Ids(k)) \in Nat
    <3>1. x \in Ids(k)
      BY <1>1 DEF Ids
    <3> HIDE DEF k
    <3> QED  BY <1>1, <3>1, HowManyOfTail
  <2>4. Claimed(cursors, Ids(k)) \in Nat
    BY OfferedIs DEF Inv, ReadInv
  <2>5. current_occurrences[k] \in Nat
    BY <1>2, <1>3
  <2> HIDE DEF k
  <2> QED  BY <2>1, <2>2, <2>3, <2>4, <2>5
<1>5. \/ /\ known_occurrences' = [known_occurrences EXCEPT ![k] = Max({@, seen})]
         /\ Sink(AddedOutcome(e, s, historical))
      \/ /\ known_occurrences' = [known_occurrences EXCEPT ![k] = AtLeastOne(@)]
         /\ UNCHANGED outcomes \/ Sink(ReplacedOutcome(e, s))
  BY DEF FeedEntry
<1> HIDE DEF k, e, s, historical, seen, x
<1>6. \A j \in Identities : j # k => known_occurrences'[j] = known_occurrences[j]
  BY <1>3, <1>5
<1>7. /\ known_occurrences[k] <= known_occurrences'[k] /\ known_occurrences'[k] \in Nat
      /\ known_occurrences'[k] <= HeldOf(k)
      /\ Sink(AddedOutcome(e, s, historical)) /\ ~historical
            => UNCHANGED outcomes \/ known_occurrences[k] + 1 <= known_occurrences'[k]
  <2> DEFINE n == known_occurrences[k]
  <2>1. n \in Nat /\ n <= HeldOf(k)
    BY <1>2, <1>3 DEF ToldInv
  <2>2. CASE /\ known_occurrences' = [known_occurrences EXCEPT ![k] = Max({@, seen})]
    <3>1. known_occurrences'[k] = Max({n, seen})
      BY <1>2, <1>3, <2>2
    <3> HIDE DEF n
    <3>2. Max({n, seen}) \in {n, seen} /\ n <= Max({n, seen}) /\ seen <= Max({n, seen})
      BY <1>4, <2>1, MaxIs
    <3>3. ~historical => n + 1 <= seen
      BY <1>4, <2>1 DEF historical, n
    <3> QED  BY <1>4, <2>1, <3>1, <3>2, <3>3 DEF n
  <2>3. CASE /\ known_occurrences' = [known_occurrences EXCEPT ![k] = AtLeastOne(@)]
             /\ UNCHANGED outcomes \/ Sink(ReplacedOutcome(e, s))
    <3>1. known_occurrences'[k] = AtLeastOne(n)
      BY <1>2, <1>3, <2>3
    <3>2. ~Sink(AddedOutcome(e, s, historical)) \/ UNCHANGED outcomes
      <4>1. outcomes \in Seq(OutcomeType)
        BY DEF StreamInv, StreamTypes
      <4> QED  BY <2>3, <4>1 DEF Sink, AddedOutcome, ReplacedOutcome
    <3> HIDE DEF n
    <3> QED  BY <1>4, <2>1, <3>1, <3>2 DEF AtLeastOne, n
  <2> QED  BY <1>5, <2>2, <2>3
<1>8. ASSUME NEW j \in Identities
      PROVE  HowMany(outcomes', NewOf(j)) = HowMany(outcomes, NewOf(j))
             \/ /\ j = k /\ Sink(AddedOutcome(e, s, historical)) /\ ~historical
                /\ ~UNCHANGED outcomes
                /\ HowMany(outcomes', NewOf(j)) = HowMany(outcomes, NewOf(j)) + 1
  <2>1. outcomes \in Seq(OutcomeType) /\ outcomes' \in Seq(OutcomeType)
    BY DEF StreamInv, StreamTypes
  <2>2. ASSUME NEW o, Sink(o)
        PROVE  HowMany(outcomes', NewOf(j)) = HowMany(outcomes, NewOf(j))
               \/ /\ o \in NewOf(j) /\ ~UNCHANGED outcomes
                  /\ HowMany(outcomes', NewOf(j)) = HowMany(outcomes, NewOf(j)) + 1
    <3>1. CASE task = "rebuild"
      BY <2>2, <3>1 DEF Sink
    <3>2. CASE task # "rebuild"
      <4>1. outcomes' = Append(outcomes, o)
        BY <2>2, <3>2 DEF Sink
      <4>2. o \in OutcomeType /\ ~UNCHANGED outcomes
        <5>1. Len(outcomes') = Len(outcomes) + 1 /\ outcomes'[Len(outcomes) + 1] = o
              /\ Len(outcomes) \in Nat
          BY <2>1, <4>1
        <5> QED  BY <2>1, <5>1
      <4>3. HowMany(Append(outcomes, o), NewOf(j))
              = HowMany(outcomes, NewOf(j)) + IF o \in NewOf(j) THEN 1 ELSE 0
        BY <2>1, <4>2, HowManyOfMore
      <4>4. HowMany(outcomes, NewOf(j)) \in Nat
        BY <2>1, HowManyType
      <4> QED  BY <4>1, <4>2, <4>3, <4>4
    <3> QED  BY <3>1, <3>2
  <2>3. CASE Sink(AddedOutcome(e, s, historical))
    <3>1. AddedOutcome(e, s, historical) \in NewOf(j) => j = k /\ ~historical
      BY DEF NewOf, Tells, AddedOutcome, k
    <3> QED  BY <2>2, <2>3, <3>1
  <2>4. CASE Sink(ReplacedOutcome(e, s))
    <3>1. ReplacedOutcome(e, s) \notin NewOf(j)
      BY DEF NewOf, Tells, ReplacedOutcome
    <3> QED  BY <2>2, <2>4, <3>1
  <2> QED  BY <1>5, <2>3, <2>4
<1>9. ASSUME NEW j \in Identities
      PROVE  Tellings(j)' <= known_occurrences'[j] /\ known_occurrences'[j] <= HeldOf(j)'
  <2>1. /\ Tellings(j)' = streamed[j] + HowMany(events, {j}) + HowMany(outcomes', NewOf(j))
        /\ Tellings(j) = streamed[j] + HowMany(events, {j}) + HowMany(outcomes, NewOf(j))
        /\ HeldOf(j)' = HeldOf(j)
    BY <1>1 DEF Tellings, HeldOf
  <2>2. /\ streamed[j] \in Nat /\ HowMany(events, {j}) \in Nat
        /\ HowMany(outcomes, NewOf(j)) \in Nat
    BY TellingsIs
  <2>3. /\ Tellings(j) <= known_occurrences[j] /\ known_occurrences[j] <= HeldOf(j)
        /\ known_occurrences[j] \in Nat
    BY <1>3 DEF ToldInv
  <2> QED  BY <1>6, <1>7, <1>8, <2>1, <2>2, <2>3
<1> QED  BY <1>9 DEF ToldInv

\* An outcome delivered becomes an event at most.
LEMMA AcceptTells ==
    ASSUME Inv, StreamInv, ToldInv, Accept
    PROVE  ToldInv'
<1> DEFINE o == Head(outcomes)
<1>1. /\ outcomes # <<>> /\ outcomes' = Tail(outcomes)
      /\ UNCHANGED <<known_occurrences, streamed, held>>
      /\ \/ /\ o.kind = "Added"
            /\ events' = IF o.historical THEN events
                         ELSE Append(events, Identity(o.entry, o.session))
         \/ events' = events
  BY DEF Accept, Deliver, AcceptReset, AcceptAdded, AcceptReplaced, indexVars, logVars
<1>2. o \in OutcomeType
  BY <1>1, Dequeued DEF StreamInv, StreamTypes
<1>3. ASSUME NEW k \in Identities
      PROVE  Tellings(k)' <= Tellings(k) /\ Tellings(k) \in Nat /\ Tellings(k)' \in Nat
  <2>1. /\ events \in Seq(Identities) /\ outcomes \in Seq(OutcomeType)
        /\ streamed[k] \in Nat /\ HowMany(events, {k}) \in Nat
    BY TellingsIs
  <2>2. HowMany(outcomes, NewOf(k)) = (IF o \in NewOf(k) THEN 1 ELSE 0) + HowMany(outcomes', NewOf(k))
        /\ HowMany(outcomes', NewOf(k)) \in Nat
    BY <1>1, <2>1, HowManyOfTail
  <2> HIDE DEF o
  <2>3. \/ HowMany(events', {k}) = HowMany(events, {k})
        \/ o \in NewOf(k) /\ HowMany(events', {k}) = HowMany(events, {k}) + 1
    <3>1. CASE events' = events
      BY <3>1
    <3>2. CASE /\ o.kind = "Added" /\ ~o.historical
               /\ events' = Append(events, Identity(o.entry, o.session))
      <4> DEFINE i == Identity(o.entry, o.session)
      <4>1. i \in Identities
        BY <1>2, <3>2 DEF OutcomeType, ReplacedType
      <4>2. i = k => o \in NewOf(k)
        BY <1>2, <3>2 DEF NewOf, Tells
      <4>3. events' = Append(events, i)
        BY <3>2
      <4> HIDE DEF i
      <4>4. HowMany(Append(events, i), {k}) = HowMany(events, {k}) + IF i \in {k} THEN 1 ELSE 0
        BY <2>1, <4>1, HowManyOfMore
      <4> QED  BY <2>1, <4>2, <4>3, <4>4
    <3> QED  BY <1>1, <3>1, <3>2
  <2>4. Tellings(k)' = streamed[k] + HowMany(events', {k}) + HowMany(outcomes', NewOf(k))
    BY <1>1 DEF Tellings
  <2> QED  BY <2>1, <2>2, <2>3, <2>4 DEF Tellings
<1>4. \A k \in Identities : HeldOf(k)' = HeldOf(k)
  BY <1>1 DEF HeldOf
<1>5. ASSUME NEW k \in Identities
      PROVE  Tellings(k)' <= known_occurrences'[k] /\ known_occurrences'[k] <= HeldOf(k)'
  <2>1. Tellings(k) <= known_occurrences[k] /\ known_occurrences[k] <= HeldOf(k)
    BY DEF ToldInv
  <2>2. known_occurrences[k] \in Nat
    BY DEF Inv, TypeOK
  <2> QED  BY <1>1, <1>3, <1>4, <2>1, <2>2
<1> QED  BY <1>5 DEF ToldInv

\* The end of a tick emits what was noted for it, and nothing is left to deliver.
LEMMA EndTickTells ==
    ASSUME Inv, StreamInv, ToldInv, EndTick
    PROVE  ToldInv'
<1>1. /\ outcomes = <<>> /\ outcomes' = <<>> /\ events' = <<>>
      /\ streamed' = [k \in Identities |-> streamed[k] + Occurrences(events, k)]
      /\ UNCHANGED <<known_occurrences, held>>
  BY DEF EndTick, Sleep, indexVars, logVars
<1>2. ASSUME NEW k \in Identities
      PROVE  Tellings(k)' <= known_occurrences'[k] /\ known_occurrences'[k] <= HeldOf(k)'
  <2>1. Occurrences(events, k) = HowMany(events, {k})
    BY DEF Occurrences, HowMany
  <2>2. HowMany(outcomes', NewOf(k)) = 0 /\ HowMany(outcomes, NewOf(k)) = 0
        /\ HowMany(events', {k}) = 0
    BY <1>1, HowManyOfNothing
  <2>3. streamed'[k] = streamed[k] + HowMany(events, {k})
    BY <1>1, <2>1
  <2>4. streamed[k] \in Nat /\ HowMany(events, {k}) \in Nat
    BY TellingsIs
  <2>5. Tellings(k)' = Tellings(k)
    <3>1. Tellings(k)' = streamed'[k] + HowMany(events', {k}) + HowMany(outcomes', NewOf(k))
      BY DEF Tellings
    <3>2. Tellings(k) = streamed[k] + HowMany(events, {k}) + HowMany(outcomes, NewOf(k))
      BY DEF Tellings
    <3> QED  BY <2>2, <2>3, <2>4, <3>1, <3>2
  <2>6. HeldOf(k)' = HeldOf(k)
    BY <1>1 DEF HeldOf
  <2> QED  BY <1>1, <2>5, <2>6 DEF ToldInv
<1> QED  BY <1>2 DEF ToldInv

\* What neither tells of anything nor changes the logs.
LEMMA QuietTells ==
    ASSUME Inv, StreamInv, ToldInv, UNCHANGED <<known_occurrences, events, streamed, held>>,
           outcomes' \in {outcomes, <<>>, <<[kind |-> "Reset"]>>}
    PROVE  ToldInv'
<1>1. ASSUME NEW k \in Identities
      PROVE  Tellings(k)' <= known_occurrences'[k] /\ known_occurrences'[k] <= HeldOf(k)'
  <2>1. /\ streamed[k] \in Nat /\ HowMany(events, {k}) \in Nat
        /\ HowMany(outcomes, NewOf(k)) \in Nat
    BY TellingsIs
  <2>2. HowMany(outcomes', NewOf(k)) \in {0, HowMany(outcomes, NewOf(k))}
    <3>1. HowMany(<<>>, NewOf(k)) = 0 /\ HowMany(<<[kind |-> "Reset"]>>, NewOf(k)) = 0
      <4>1. [kind |-> "Reset"] \notin NewOf(k)
        BY DEF NewOf, Tells
      <4> QED  BY <4>1, HowManyOfNothing, HowManyOfOne
    <3> QED  BY <3>1
  <2>3. Tellings(k)' = streamed[k] + HowMany(events, {k}) + HowMany(outcomes', NewOf(k))
    BY DEF Tellings
  <2>4. Tellings(k) = streamed[k] + HowMany(events, {k}) + HowMany(outcomes, NewOf(k))
    BY DEF Tellings
  <2>5. Tellings(k) <= known_occurrences[k] /\ known_occurrences[k] <= HeldOf(k)
    BY DEF ToldInv
  <2>6. HeldOf(k)' = HeldOf(k)
    BY DEF HeldOf
  <2>7. known_occurrences' = known_occurrences /\ known_occurrences[k] \in Nat
    BY DEF Inv, TypeOK
  <2>8. Tellings(k)' <= known_occurrences[k]
    BY <2>1, <2>2, <2>3, <2>4, <2>5, <2>7
  <2> QED  BY <2>5, <2>6, <2>7, <2>8
<1> QED  BY <1>1 DEF ToldInv

\* No more was told of before anything was read.
LEMMA InitTells == LiveInit => ToldInv
<1> SUFFICES ASSUME LiveInit PROVE ToldInv
  OBVIOUS
<1>1. /\ outcomes = <<>> /\ events = <<>> /\ streamed = [k \in Identities |-> 0]
      /\ known_occurrences = [k \in Identities |-> 0]
  BY DEF LiveInit, Init
<1>2. Inv /\ HeldInv
  BY InitInv, InitHolds, LiveIsWatch
<1>3. ASSUME NEW k \in Identities
      PROVE  Tellings(k) <= known_occurrences[k] /\ known_occurrences[k] <= HeldOf(k)
  <2>1. Tellings(k) = 0 /\ known_occurrences[k] = 0
    BY <1>1, HowManyOfNothing DEF Tellings
  <2>2. Claimed(cursors, Ids(k)) <= HeldOf(k) /\ HeldOf(k) \in Nat
    BY <1>2, ClaimedIsHeld
  <2> QED  BY <2>1, <2>2
<1> QED  BY <1>3 DEF ToldInv

\* The history keeps up with the logs, and the poll reads what is there.
LEMMA StepHolds ==
    ASSUME Inv, Inv', HeldInv, [LiveNext]_allVars
    PROVE  HeldInv'
<1>1. CASE LiveAgent
  BY <1>1, AgentHolds
<1>2. CASE Midnight \/ UNCHANGED allVars
  BY <1>2, IndexHolds DEF Midnight, allVars, logVars
<1>3. CASE LiveIndex
  <2>1. Index /\ UNCHANGED held
    BY <1>3 DEF LiveIndex, StartTick, Accept, EndTick, Index, logVars
  <2> QED  BY <2>1, IndexHolds
<1> QED  BY <1>1, <1>2, <1>3 DEF LiveNext

\* Every step of the view, of the agents and of the calendar: what was told, the counts of it, and
\* what was held.
LEMMA StepTells ==
    ASSUME Inv, Inv', ReadInv, HeldInv, HeldInv', StreamInv, StreamInv', ToldInv,
           [LiveNext]_allVars
    PROVE  ToldInv'
<1>1. CASE LiveAgent
  <2>1. /\ UNCHANGED <<known_occurrences, events, streamed, outcomes>>
        /\ \A f \in File, k \in Identities : held[f][k] <= held'[f][k]
    <3>1. UNCHANGED <<indexVars, outcomes, liveVars>>
      BY <1>1 DEF LiveAgent, Agent, AppendLine, EndLine, Rewrite, Replace, Delete, Change
    <3> QED  BY <1>1, <3>1, AgentHolds DEF indexVars, liveVars
  <2>2. ASSUME NEW k \in Identities
        PROVE  Tellings(k)' <= known_occurrences'[k] /\ known_occurrences'[k] <= HeldOf(k)'
    <3>1. HeldOf(k) <= HeldOf(k)' /\ HeldOf(k) \in Nat /\ HeldOf(k)' \in Nat
      BY <2>1, HeldGrows
    <3>2. Tellings(k)' = Tellings(k)
      BY <2>1 DEF Tellings
    <3>3. Tellings(k) <= known_occurrences[k] /\ known_occurrences[k] <= HeldOf(k)
      BY DEF ToldInv
    <3>4. known_occurrences'[k] = known_occurrences[k] /\ known_occurrences[k] \in Nat
      BY <2>1 DEF Inv, TypeOK
    <3>5. known_occurrences[k] <= HeldOf(k)'
      BY <3>1, <3>3, <3>4
    <3> QED  BY <3>2, <3>3, <3>4, <3>5
  <2> QED  BY <2>2 DEF ToldInv
<1>2. CASE Midnight \/ UNCHANGED allVars
  BY <1>2, QuietTells DEF Midnight, allVars, vars, liveVars, logVars, indexVars
<1>3. CASE FeedEntry /\ UNCHANGED <<liveVars, logVars>>
  BY <1>3, FeedEntryTells
<1>4. CASE (Seed \/ (Reading /\ ~FeedEntry)) /\ UNCHANGED <<liveVars, logVars>>
  <2>1. UNCHANGED <<events, streamed, held>>
    BY <1>4 DEF liveVars, logVars
  <2>2. CASE \E f \in File : \/ SkipFile(f) \/ OpenFile(f) \/ ReadNothing(f) \/ ReadSnapshot(f)
                             \/ FeedFile(f) \/ FindRewritten(f)
    BY <2>1, <2>2, QuietTells DEF SkipFile, OpenFile, ReadNothing, ReadSnapshot, FeedFile,
       FindRewritten, IsNext, StartReads, indexVars
  <2>3. CASE FeedSeed \/ RetryLater \/ EndScan \/ Seed \/ EndFeed
    BY <2>1, <2>3, QuietTells DEF FeedSeed, RetryLater, EndScan, Seed, StartReads, EndFeed,
       indexVars
  <2>4. CASE Rebuild
    BY <2>1, <2>4, QuietTells DEF Rebuild
  <2> QED  BY <1>4, <2>2, <2>3, <2>4 DEF Reading
<1>5. CASE StartTick
  BY <1>5, QuietTells DEF StartTick, PollPaths, StartReads, indexVars, logVars
<1>6. CASE Accept
  BY <1>6, AcceptTells
<1>7. CASE EndTick
  BY <1>7, EndTickTells
<1> QED  BY <1>1, <1>2, <1>3, <1>4, <1>5, <1>6, <1>7 DEF LiveNext, LiveIndex

\* Whatever a truncation removes and an append restores, and whatever a rebuild feeds again: a
\* record is streamed no more often than the logs have held it (identity_occurrences of watch.rs,
\* accept_outcome).
THEOREM StreamedOnceEach == LiveSpec => []StreamedAtMostHeld
<1> DEFINE I == Inv /\ ReadInv /\ StreamInv /\ HeldInv /\ ToldInv
<1>1. LiveInit => I
  BY LiveIsWatch, InitInv, InitRead, StreamStarts, InitHolds, InitTells
<1>2. I /\ [LiveNext]_allVars => I'
  BY LiveIsWatch, StepKeeps, StepReads, StepIsTold, StepHolds, StepTells
<1>3. I => StreamedAtMostHeld
  <2> SUFFICES ASSUME I, NEW k \in Identities
               PROVE  streamed[k] + Occurrences(events, k)
                        <= SumTo([f \in File |-> held[f][k]], NumFiles)
    BY DEF StreamedAtMostHeld
  <2>1. /\ streamed[k] \in Nat /\ HowMany(events, {k}) \in Nat
        /\ HowMany(outcomes, NewOf(k)) \in Nat
    BY TellingsIs
  <2>2. Tellings(k) = streamed[k] + HowMany(events, {k}) + HowMany(outcomes, NewOf(k))
    BY DEF Tellings
  <2>3. Tellings(k) <= known_occurrences[k] /\ known_occurrences[k] <= HeldOf(k)
    BY DEF ToldInv
  <2>4. known_occurrences[k] \in Nat /\ HeldOf(k) \in Nat
    BY ClaimedIsHeld DEF Inv, TypeOK
  <2>5. Occurrences(events, k) = HowMany(events, {k})
    BY DEF Occurrences, HowMany
  <2>6. streamed[k] + Occurrences(events, k) <= HeldOf(k)
    BY <2>1, <2>2, <2>3, <2>4, <2>5
  <2> QED  BY <2>6 DEF HeldOf
<1> HIDE DEF I
<1> QED  BY <1>1, <1>2, <1>3, PTL DEF LiveSpec

----------------------------------------------------------------------------
(***************************************************************************)
(* Rows.  A row of the book is the sum of the kept entries of a set of     *)
(* entries with their sessions.                                            *)
(***************************************************************************)
IndexState ==
    {x \in [entries: Seq(Entry), sessions: Seq(Session)] : Len(x.sessions) = Len(x.entries)}

PlacesIn(x, row) == {i \in DOMAIN x.entries : <<x.entries[i], x.sessions[i]>> \in row}

RowSum(x, row) == Sum(x.entries, PlacesIn(x, row))

With(x, e, s) == [entries |-> Append(x.entries, e), sessions |-> Append(x.sessions, s)]

WithAt(x, at, e, s) ==
    [entries |-> [x.entries EXCEPT ![at] = e], sessions |-> [x.sessions EXCEPT ![at] = s]]

\* What each place adds to a row.
TokensOf(x, row) ==
    [i \in DOMAIN x.entries |-> IF i \in PlacesIn(x, row) THEN x.entries[i].tokens ELSE 0]

CostOf(x, row) ==
    [i \in DOMAIN x.entries |-> IF i \in PlacesIn(x, row) THEN x.entries[i].cost ELSE 0]

\* A row's sum is that of its places, class by class.
LEMMA RowSumIs ==
    ASSUME NEW x \in IndexState, NEW row
    PROVE  /\ TokensOf(x, row) \in [1 .. Len(x.entries) -> Nat]
           /\ CostOf(x, row) \in [1 .. Len(x.entries) -> Nat]
           /\ RowSum(x, row) = [tokens |-> SumTo(TokensOf(x, row), Len(x.entries)),
                                cost |-> SumTo(CostOf(x, row), Len(x.entries))]
           /\ RowSum(x, row) \in Amounts
<1> DEFINE N == Len(x.entries)
<1>1. N \in Nat /\ DOMAIN x.entries = 1 .. N /\ \A i \in 1 .. N : x.entries[i] \in Entry
  BY DEF IndexState
<1>2. \A i \in 1 .. N : x.entries[i].tokens \in Nat /\ x.entries[i].cost \in Nat
  BY <1>1 DEF Entry
<1>3. TokensOf(x, row) \in [1 .. N -> Nat] /\ CostOf(x, row) \in [1 .. N -> Nat]
  BY <1>1, <1>2 DEF TokensOf, CostOf
<1>4. RowSum(x, row) = [tokens |-> SumTo(TokensOf(x, row), N), cost |-> SumTo(CostOf(x, row), N)]
  BY DEF RowSum, Sum, TokensOf, CostOf
<1>5. SumTo(TokensOf(x, row), N) \in Nat /\ SumTo(CostOf(x, row), N) \in Nat
  <2>1. N \in 0 .. N
    BY <1>1
  <2> HIDE DEF N
  <2> QED  BY <1>1, <1>3, <2>1, SumToIs
<1> QED  BY <1>3, <1>4, <1>5 DEF Amounts

\* The sums of nothing.
LEMMA RowOfNothing ==
    ASSUME NEW x \in IndexState, x.entries = <<>>, NEW row
    PROVE  RowSum(x, row) = Zero
<1>1. /\ TokensOf(x, row) \in [1 .. 0 -> Nat] /\ CostOf(x, row) \in [1 .. 0 -> Nat]
      /\ RowSum(x, row) = [tokens |-> SumTo(TokensOf(x, row), 0), cost |-> SumTo(CostOf(x, row), 0)]
  <2>1. Len(x.entries) = 0
    OBVIOUS
  <2> QED  BY <2>1, RowSumIs
<1>2. SumTo(TokensOf(x, row), 0) = 0 /\ SumTo(CostOf(x, row), 0) = 0
  <2>1. 0 \in Nat
    OBVIOUS
  <2> QED  BY <1>1, <2>1, SumToIs
<1> QED  BY <1>1, <1>2 DEF Zero

\* An entry added to the index adds to the rows it is of.
LEMMA RowOfAdded ==
    ASSUME NEW x \in IndexState, NEW e \in Entry, NEW s \in Session, NEW row
    PROVE  /\ With(x, e, s) \in IndexState
           /\ RowSum(With(x, e, s), row) =
                 IF <<e, s>> \in row THEN Plus(RowSum(x, row), e) ELSE RowSum(x, row)
<1> DEFINE y == With(x, e, s)
           N == Len(x.entries)
           mine(n) == IF <<e, s>> \in row THEN n ELSE 0
<1>1. /\ y \in IndexState /\ N \in Nat /\ Len(y.entries) = N + 1
      /\ DOMAIN x.entries = 1 .. N /\ DOMAIN y.entries = 1 .. N + 1
      /\ \A i \in 1 .. N : y.entries[i] = x.entries[i] /\ y.sessions[i] = x.sessions[i]
      /\ y.entries[N + 1] = e /\ y.sessions[N + 1] = s
  BY DEF IndexState, With
<1>2. e.tokens \in Nat /\ e.cost \in Nat
  BY DEF Entry
<1> HIDE DEF y
<1>3. /\ \A i \in 1 .. N : /\ TokensOf(x, row)[i] = TokensOf(y, row)[i]
                           /\ CostOf(x, row)[i] = CostOf(y, row)[i]
      /\ TokensOf(y, row)[N + 1] = mine(e.tokens) /\ CostOf(y, row)[N + 1] = mine(e.cost)
  <2>1. \A i \in 1 .. N : i \in PlacesIn(y, row) <=> i \in PlacesIn(x, row)
    BY <1>1 DEF PlacesIn
  <2>2. N + 1 \in 1 .. N + 1 /\ \A i \in 1 .. N : i \in 1 .. N + 1
    BY <1>1
  <2>3. N + 1 \in PlacesIn(y, row) <=> <<e, s>> \in row
    BY <1>1, <2>2 DEF PlacesIn
  <2>4. \A i \in 1 .. N : /\ TokensOf(x, row)[i] = TokensOf(y, row)[i]
                          /\ CostOf(x, row)[i] = CostOf(y, row)[i]
    BY <1>1, <2>1, <2>2 DEF TokensOf, CostOf
  <2>5. TokensOf(y, row)[N + 1] = mine(e.tokens) /\ CostOf(y, row)[N + 1] = mine(e.cost)
    BY <1>1, <2>2, <2>3 DEF TokensOf, CostOf
  <2> QED  BY <2>4, <2>5
<1>4. /\ TokensOf(x, row) \in [1 .. N -> Nat] /\ CostOf(x, row) \in [1 .. N -> Nat]
      /\ RowSum(x, row) = [tokens |-> SumTo(TokensOf(x, row), N), cost |-> SumTo(CostOf(x, row), N)]
      /\ RowSum(x, row) \in Amounts
  BY RowSumIs
<1>5. /\ TokensOf(y, row) \in [1 .. N + 1 -> Nat] /\ CostOf(y, row) \in [1 .. N + 1 -> Nat]
      /\ RowSum(y, row) = [tokens |-> SumTo(TokensOf(y, row), N + 1),
                           cost |-> SumTo(CostOf(y, row), N + 1)]
  <2>1. /\ TokensOf(y, row) \in [1 .. Len(y.entries) -> Nat]
        /\ CostOf(y, row) \in [1 .. Len(y.entries) -> Nat]
        /\ RowSum(y, row) = [tokens |-> SumTo(TokensOf(y, row), Len(y.entries)),
                             cost |-> SumTo(CostOf(y, row), Len(y.entries))]
    BY <1>1, RowSumIs
  <2> QED  BY <1>1, <2>1
<1>6. /\ SumTo(TokensOf(y, row), N + 1) = SumTo(TokensOf(x, row), N) + mine(e.tokens)
      /\ SumTo(CostOf(y, row), N + 1) = SumTo(CostOf(x, row), N) + mine(e.cost)
  <2> HIDE DEF N
  <2>1. /\ SumTo(TokensOf(y, row), N + 1) = SumTo(TokensOf(x, row), N) + TokensOf(y, row)[N + 1]
        /\ SumTo(CostOf(y, row), N + 1) = SumTo(CostOf(x, row), N) + CostOf(y, row)[N + 1]
    BY <1>1, <1>3, <1>4, <1>5, SumOfOneMore
  <2> QED  BY <1>3, <2>1, Zenon
<1>7. RowSum(y, row) = IF <<e, s>> \in row THEN Plus(RowSum(x, row), e) ELSE RowSum(x, row)
  <2>1. CASE <<e, s>> \in row
    BY <1>4, <1>5, <1>6, <2>1 DEF Plus
  <2>2. CASE <<e, s>> \notin row
    BY <1>2, <1>4, <1>5, <1>6, <2>2 DEF Amounts
  <2> QED  BY <2>1, <2>2
<1> QED  BY <1>1, <1>7 DEF y

\* An amount added to or taken from an amount that holds it is one again.
LEMMA SumOfAmounts ==
    ASSUME NEW a \in Amounts, NEW e \in Entry
    PROVE  /\ Plus(a, e) \in Amounts
           /\ e.tokens <= a.tokens /\ e.cost <= a.cost => Minus(a, e) \in Amounts
<1>1. a.tokens \in Nat /\ a.cost \in Nat /\ e.tokens \in Nat /\ e.cost \in Nat
  BY DEF Amounts, Entry
<1>2. \A m, n \in Nat : m + n \in Nat /\ (n <= m => m - n \in Nat)
  OBVIOUS
<1> QED  BY <1>1, <1>2 DEF Plus, Minus, Amounts

\* An entry that takes another's place takes it out of that one's rows and adds to its own.
LEMMA RowOfReplaced ==
    ASSUME NEW x \in IndexState, NEW at \in DOMAIN x.entries, NEW e \in Entry, NEW s \in Session,
           NEW row
    PROVE  LET p == x.entries[at]
               less == IF <<p, x.sessions[at]>> \in row THEN Minus(RowSum(x, row), p)
                       ELSE RowSum(x, row)
           IN
           /\ WithAt(x, at, e, s) \in IndexState
           /\ less \in Amounts
           /\ RowSum(WithAt(x, at, e, s), row) = IF <<e, s>> \in row THEN Plus(less, e) ELSE less
<1> DEFINE y == WithAt(x, at, e, s)
           N == Len(x.entries)
           p == x.entries[at]
           ps == x.sessions[at]
           was(n) == IF <<p, ps>> \in row THEN n ELSE 0
           is(n) == IF <<e, s>> \in row THEN n ELSE 0
           less == IF <<p, ps>> \in row THEN Minus(RowSum(x, row), p) ELSE RowSum(x, row)
<1>1. /\ y \in IndexState /\ N \in Nat /\ Len(y.entries) = N /\ at \in 1 .. N /\ p \in Entry
      /\ DOMAIN x.entries = 1 .. N /\ DOMAIN y.entries = 1 .. N
      /\ \A i \in 1 .. N : i # at => y.entries[i] = x.entries[i] /\ y.sessions[i] = x.sessions[i]
      /\ y.entries[at] = e /\ y.sessions[at] = s
  BY DEF IndexState, WithAt
<1>2. e.tokens \in Nat /\ e.cost \in Nat /\ p.tokens \in Nat /\ p.cost \in Nat
  BY <1>1 DEF Entry
<1> HIDE DEF y
<1>3. /\ \A i \in 1 .. N : i # at => /\ TokensOf(x, row)[i] = TokensOf(y, row)[i]
                                     /\ CostOf(x, row)[i] = CostOf(y, row)[i]
      /\ TokensOf(x, row)[at] = was(p.tokens) /\ CostOf(x, row)[at] = was(p.cost)
      /\ TokensOf(y, row)[at] = is(e.tokens) /\ CostOf(y, row)[at] = is(e.cost)
  <2>1. \A i \in 1 .. N : i # at => (i \in PlacesIn(y, row) <=> i \in PlacesIn(x, row))
    BY <1>1 DEF PlacesIn
  <2>2. /\ at \in PlacesIn(y, row) <=> <<e, s>> \in row
        /\ at \in PlacesIn(x, row) <=> <<p, ps>> \in row
    BY <1>1 DEF PlacesIn
  <2>3. \A i \in 1 .. N : i # at => /\ TokensOf(x, row)[i] = TokensOf(y, row)[i]
                                    /\ CostOf(x, row)[i] = CostOf(y, row)[i]
    BY <1>1, <2>1 DEF TokensOf, CostOf
  <2>4. /\ TokensOf(x, row)[at] = was(p.tokens) /\ CostOf(x, row)[at] = was(p.cost)
        /\ TokensOf(y, row)[at] = is(e.tokens) /\ CostOf(y, row)[at] = is(e.cost)
    BY <1>1, <2>2 DEF TokensOf, CostOf
  <2> QED  BY <2>3, <2>4
<1>4. /\ TokensOf(x, row) \in [1 .. N -> Nat] /\ CostOf(x, row) \in [1 .. N -> Nat]
      /\ RowSum(x, row) = [tokens |-> SumTo(TokensOf(x, row), N), cost |-> SumTo(CostOf(x, row), N)]
      /\ RowSum(x, row) \in Amounts
  BY RowSumIs
<1>5. /\ TokensOf(y, row) \in [1 .. N -> Nat] /\ CostOf(y, row) \in [1 .. N -> Nat]
      /\ RowSum(y, row) = [tokens |-> SumTo(TokensOf(y, row), N), cost |-> SumTo(CostOf(y, row), N)]
      /\ RowSum(y, row) \in Amounts
  <2>1. /\ TokensOf(y, row) \in [1 .. Len(y.entries) -> Nat]
        /\ CostOf(y, row) \in [1 .. Len(y.entries) -> Nat]
        /\ RowSum(y, row) = [tokens |-> SumTo(TokensOf(y, row), Len(y.entries)),
                             cost |-> SumTo(CostOf(y, row), Len(y.entries))]
        /\ RowSum(y, row) \in Amounts
    BY <1>1, RowSumIs
  <2> QED  BY <1>1, <2>1
<1> DEFINE a == RowSum(x, row)
           b == RowSum(y, row)
<1>6. /\ a.tokens + is(e.tokens) = b.tokens + was(p.tokens) /\ was(p.tokens) <= a.tokens
      /\ a.cost + is(e.cost) = b.cost + was(p.cost) /\ was(p.cost) <= a.cost
  <2> HIDE DEF N, p, ps
  <2>1. /\ SumTo(TokensOf(x, row), N) + TokensOf(y, row)[at]
              = SumTo(TokensOf(y, row), N) + TokensOf(x, row)[at]
        /\ TokensOf(x, row)[at] <= SumTo(TokensOf(x, row), N)
    BY <1>1, <1>3, <1>4, <1>5, SumOfReplaced
  <2>2. /\ SumTo(CostOf(x, row), N) + CostOf(y, row)[at]
              = SumTo(CostOf(y, row), N) + CostOf(x, row)[at]
        /\ CostOf(x, row)[at] <= SumTo(CostOf(x, row), N)
    BY <1>1, <1>3, <1>4, <1>5, SumOfReplaced
  <2>3. /\ a.tokens = SumTo(TokensOf(x, row), N) /\ a.cost = SumTo(CostOf(x, row), N)
        /\ b.tokens = SumTo(TokensOf(y, row), N) /\ b.cost = SumTo(CostOf(y, row), N)
    BY <1>4, <1>5
  <2> QED  BY <1>3, <2>1, <2>2, <2>3, Zenon
<1>7. /\ a \in Amounts /\ b \in Amounts /\ p \in Entry /\ e \in Entry
  BY <1>1, <1>4, <1>5
<1> HIDE DEF a, b, p, ps
<1>8. less \in Amounts
  BY <1>6, <1>7, SumOfAmounts DEF a
<1>9. b = IF <<e, s>> \in row THEN Plus(less, e) ELSE less
  <2>1. /\ b = [tokens |-> b.tokens, cost |-> b.cost] /\ a = [tokens |-> a.tokens, cost |-> a.cost]
        /\ a.tokens \in Nat /\ a.cost \in Nat /\ b.tokens \in Nat /\ b.cost \in Nat
    BY <1>7 DEF Amounts
  <2>2. \A m, n, i, w \in Nat : m + i = n + w => n = (m - w) + i
    OBVIOUS
  <2>3. /\ b.tokens = (a.tokens - was(p.tokens)) + is(e.tokens)
        /\ b.cost = (a.cost - was(p.cost)) + is(e.cost)
    <3>1. /\ was(p.tokens) \in Nat /\ was(p.cost) \in Nat
          /\ is(e.tokens) \in Nat /\ is(e.cost) \in Nat
      BY <1>2
    <3> HIDE DEF was, is
    <3> QED  BY <1>6, <2>1, <2>2, <3>1
  <2>4. less = [tokens |-> a.tokens - was(p.tokens), cost |-> a.cost - was(p.cost)]
    BY <2>1 DEF Minus, a
  <2>5. less.tokens \in Nat /\ less.cost \in Nat
    BY <1>8 DEF Amounts
  <2> HIDE DEF less
  <2> QED  BY <2>1, <2>3, <2>4, <2>5 DEF Plus
<1> QED  BY <1>1, <1>8, <1>9 DEF y, b, p, ps

----------------------------------------------------------------------------
(***************************************************************************)
(* The book.                                                               *)
(***************************************************************************)
Told == Entry \X Session

TodayRow(today) == {p \in Told : p[1].date = today}
ModelRow(today, m) == {p \in Told : p[1].date = today /\ p[1].model = m}
SessionRow(k) == {p \in Told : <<p[1].project, p[2]>> = k}

BookType ==
    [today: Date, totals: Amounts, models: [Model -> Amounts],
     sessions: [SessionKey -> Amounts \cup {Gone}]]

\* A session without a row reads as zero.
Read(t) == IF t = Gone THEN Zero ELSE t

\* The book's rows are the sums of what the index keeps.
Agrees(b, x) ==
    /\ b.totals = RowSum(x, TodayRow(b.today))
    /\ \A m \in Model : b.models[m] = RowSum(x, ModelRow(b.today, m))
    /\ \A k \in SessionKey : Read(b.sessions[k]) = RowSum(x, SessionRow(k))

\* The rows an entry is of.
LEMMA RowsOf ==
    ASSUME NEW e \in Entry, NEW s \in Session
    PROVE  /\ <<e.project, s>> \in SessionKey
           /\ \A today : <<e, s>> \in TodayRow(today) <=> e.date = today
           /\ \A today, m : <<e, s>> \in ModelRow(today, m) <=> e.date = today /\ e.model = m
           /\ \A k : <<e, s>> \in SessionRow(k) <=> <<e.project, s>> = k
BY DEF Entry, SessionKey, Told, TodayRow, ModelRow, SessionRow

\* Zero is an amount, and no amount is an absent row.
LEMMA ReadIs ==
    /\ Zero \in Amounts /\ Gone \notin Amounts
    /\ \A t \in Amounts \cup {Gone} : Read(t) \in Amounts
    /\ \A t \in Amounts : Read(t) = t
BY LiveAssumption DEF Zero, Amounts, Read

\* A book with other totals, model rows and a row of one session.
Rebooked(b, totals, models, key, row) ==
    [b EXCEPT !.totals = totals, !.models = models, !.sessions[key] = row]

\* What changing a book's rows makes of it.
LEMMA RebookedIs ==
    ASSUME NEW b \in BookType, NEW totals \in Amounts, NEW models \in [Model -> Amounts],
           NEW key \in SessionKey, NEW row \in Amounts \cup {Gone}
    PROVE  LET c == Rebooked(b, totals, models, key, row) IN
           /\ c.today = b.today /\ c.totals = totals /\ c.models = models
           /\ c.sessions = [b.sessions EXCEPT ![key] = row]
           /\ c \in BookType
<1> DEFINE c == [b EXCEPT !.totals = totals, !.models = models, !.sessions[key] = row]
<1>1. b \in [today: Date, totals: Amounts, models: [Model -> Amounts],
             sessions: [SessionKey -> Amounts \cup {Gone}]]
  BY DEF BookType
<1>2. /\ c.today = b.today /\ c.totals = totals /\ c.models = models
      /\ c.sessions = [b.sessions EXCEPT ![key] = row]
  BY <1>1
<1>3. [b.sessions EXCEPT ![key] = row] \in [SessionKey -> Amounts \cup {Gone}]
  BY <1>1
<1>4. c \in BookType
  BY <1>1, <1>2, <1>3 DEF BookType
<1> QED  BY <1>2, <1>4 DEF Rebooked

\* What adding an entry makes of a book.
LEMMA AddIs ==
    ASSUME NEW b \in BookType, NEW e \in Entry, NEW s \in Session
    PROVE  LET c == AddContribution(b, e, s)
               key == <<e.project, s>>
           IN
           /\ c \in BookType /\ c.today = b.today
           /\ c.totals = IF e.date = b.today THEN Plus(b.totals, e) ELSE b.totals
           /\ \A m \in Model :
                 c.models[m] = IF IsToday(b, e, m) THEN Plus(b.models[m], e) ELSE b.models[m]
           /\ \A k \in SessionKey :
                 Read(c.sessions[k]) =
                    IF k = key THEN Plus(Read(b.sessions[k]), e) ELSE Read(b.sessions[k])
<1> DEFINE c == AddContribution(b, e, s)
           key == <<e.project, s>>
           totals == IF e.date = b.today THEN Plus(b.totals, e) ELSE b.totals
           models == [m \in Model |-> IF IsToday(b, e, m) THEN Plus(b.models[m], e)
                                      ELSE b.models[m]]
           row == Plus(Read(b.sessions[key]), e)
<1>1. key \in SessionKey
  BY RowsOf
<1>2. /\ b.today \in Date /\ b.totals \in Amounts /\ b.models \in [Model -> Amounts]
      /\ b.sessions \in [SessionKey -> Amounts \cup {Gone}]
  BY DEF BookType
<1>3. \A t \in Amounts : Plus(t, e) \in Amounts
  BY SumOfAmounts
<1>4. totals \in Amounts /\ models \in [Model -> Amounts]
  BY <1>2, <1>3
<1>5. row \in Amounts /\ row \in Amounts \cup {Gone}
  BY <1>1, <1>2, <1>3, ReadIs
<1>6. c = Rebooked(b, totals, models, key, row)
  BY DEF AddContribution, Read, Rebooked
<1>7. /\ c.today = b.today /\ c.totals = totals /\ c.models = models
      /\ c.sessions = [b.sessions EXCEPT ![key] = row]
      /\ c \in BookType
  <2> HIDE DEF c, totals, models, row, key
  <2> QED  BY <1>1, <1>4, <1>5, <1>6, RebookedIs
<1> HIDE DEF c, key, row
<1>8. ASSUME NEW k \in SessionKey
      PROVE  Read(c.sessions[k]) = IF k = key THEN row ELSE Read(b.sessions[k])
  BY <1>2, <1>5, <1>7, ReadIs
<1> QED  BY <1>7, <1>8 DEF c, key, row

\* An added entry is added to the rows it is of.
LEMMA AddAgrees ==
    ASSUME NEW b \in BookType, NEW x \in IndexState, Agrees(b, x), NEW e \in Entry, NEW s \in Session
    PROVE  /\ AddContribution(b, e, s) \in BookType
           /\ AddContribution(b, e, s).today = b.today
           /\ Agrees(AddContribution(b, e, s), With(x, e, s))
<1> DEFINE c == AddContribution(b, e, s)
           y == With(x, e, s)
<1>1. \A row : RowSum(y, row) =
                  IF <<e, s>> \in row THEN Plus(RowSum(x, row), e) ELSE RowSum(x, row)
  BY RowOfAdded
<1>2. /\ c \in BookType /\ c.today = b.today
      /\ c.totals = IF e.date = b.today THEN Plus(b.totals, e) ELSE b.totals
      /\ \A m \in Model :
            c.models[m] = IF IsToday(b, e, m) THEN Plus(b.models[m], e) ELSE b.models[m]
      /\ \A k \in SessionKey :
            Read(c.sessions[k]) =
               IF k = <<e.project, s>> THEN Plus(Read(b.sessions[k]), e) ELSE Read(b.sessions[k])
  BY AddIs
<1> HIDE DEF c, y
<1>3. c.totals = RowSum(y, TodayRow(c.today))
  <2>1. <<e, s>> \in TodayRow(b.today) <=> e.date = b.today
    BY RowsOf
  <2>2. b.totals = RowSum(x, TodayRow(b.today))
    BY DEF Agrees
  <2> QED  BY <1>1, <1>2, <2>1, <2>2
<1>4. ASSUME NEW m \in Model PROVE c.models[m] = RowSum(y, ModelRow(c.today, m))
  <2>1. <<e, s>> \in ModelRow(b.today, m) <=> IsToday(b, e, m)
    BY RowsOf DEF IsToday
  <2>2. b.models[m] = RowSum(x, ModelRow(b.today, m))
    BY DEF Agrees
  <2> QED  BY <1>1, <1>2, <2>1, <2>2
<1>5. ASSUME NEW k \in SessionKey PROVE Read(c.sessions[k]) = RowSum(y, SessionRow(k))
  <2>1. <<e, s>> \in SessionRow(k) <=> k = <<e.project, s>>
    BY RowsOf
  <2>2. Read(b.sessions[k]) = RowSum(x, SessionRow(k))
    BY DEF Agrees
  <2> QED  BY <1>1, <1>2, <2>1, <2>2
<1> QED  BY <1>2, <1>3, <1>4, <1>5 DEF Agrees, c, y

\* A row without what one of its entries added to it.
Less(x, row, at) ==
    LET p == x.entries[at] IN
    IF <<p, x.sessions[at]>> \in row THEN Minus(RowSum(x, row), p) ELSE RowSum(x, row)

\* Taking a kept entry out of its rows takes no row below zero, and what a session's row without
\* usage reads as is what its absence reads as.
LEMMA TakenOut ==
    ASSUME NEW b \in BookType, NEW x \in IndexState, Agrees(b, x), NEW at \in DOMAIN x.entries
    PROVE  LET p == x.entries[at]
               key == <<p.project, x.sessions[at]>>
               d == DropEmptySession(SubtractContribution(b, p, x.sessions[at]), key)
           IN
           /\ d \in BookType /\ d.today = b.today
           /\ d.totals = Less(x, TodayRow(b.today), at)
           /\ \A m \in Model : d.models[m] = Less(x, ModelRow(b.today, m), at)
           /\ \A k \in SessionKey : Read(d.sessions[k]) = Less(x, SessionRow(k), at)
<1> DEFINE p == x.entries[at]
           ps == x.sessions[at]
           key == <<p.project, ps>>
           w == SubtractContribution(b, p, ps)
           d == DropEmptySession(w, key)
           totals == IF p.date = b.today THEN Minus(b.totals, p) ELSE b.totals
           models == [m \in Model |-> IF IsToday(b, p, m) THEN Minus(b.models[m], p)
                                      ELSE b.models[m]]
           row == IF b.sessions[key] = Gone THEN Gone ELSE Minus(b.sessions[key], p)
<1>1. p \in Entry /\ ps \in Session
  BY DEF IndexState
<1>2. /\ b.today \in Date /\ b.totals \in Amounts /\ b.models \in [Model -> Amounts]
      /\ b.sessions \in [SessionKey -> Amounts \cup {Gone}]
  BY DEF BookType
<1>3. \A R : Less(x, R, at) \in Amounts
  <2> SUFFICES ASSUME NEW R PROVE Less(x, R, at) \in Amounts
    OBVIOUS
  <2>1. \E e \in Entry, s \in Session : e = p /\ s = ps
    BY <1>1
  <2> QED  BY <2>1, RowOfReplaced DEF Less
<1>4. w = Rebooked(b, totals, models, key, row)
  BY DEF SubtractContribution, Rebooked
<1>5. \A R : Less(x, R, at) = IF <<p, ps>> \in R THEN Minus(RowSum(x, R), p) ELSE RowSum(x, R)
  BY DEF Less
<1> HIDE DEF p, ps, key, w
<1>6. key \in SessionKey
  BY <1>1, RowsOf DEF key
<1>7. totals = Less(x, TodayRow(b.today), at)
  <2>1. <<p, ps>> \in TodayRow(b.today) <=> p.date = b.today
    BY <1>1, RowsOf
  <2>2. b.totals = RowSum(x, TodayRow(b.today))
    BY DEF Agrees
  <2> QED  BY <1>5, <2>1, <2>2
<1>8. ASSUME NEW m \in Model PROVE models[m] = Less(x, ModelRow(b.today, m), at)
  <2>1. <<p, ps>> \in ModelRow(b.today, m) <=> IsToday(b, p, m)
    BY <1>1, RowsOf DEF IsToday
  <2>2. b.models[m] = RowSum(x, ModelRow(b.today, m))
    BY DEF Agrees
  <2> QED  BY <1>5, <2>1, <2>2
<1>9. Less(x, SessionRow(key), at) = Minus(Read(b.sessions[key]), p)
  <2>1. <<p, ps>> \in SessionRow(key)
    BY <1>1, RowsOf DEF key
  <2>2. Read(b.sessions[key]) = RowSum(x, SessionRow(key))
    BY <1>6 DEF Agrees
  <2> QED  BY <1>5, <2>1, <2>2
<1>10. row \in Amounts \cup {Gone} /\ Read(row) = Less(x, SessionRow(key), at)
  <2>1. CASE b.sessions[key] = Gone
    <3>1. Minus(Zero, p) \in Amounts
      BY <1>3, <1>9, <2>1 DEF Read
    <3>2. p.tokens = 0 /\ p.cost = 0
      <4>1. 0 - p.tokens \in Nat /\ 0 - p.cost \in Nat
        BY <3>1 DEF Minus, Zero, Amounts
      <4> QED  BY <1>1, <4>1 DEF Entry
    <3>3. Minus(Zero, p) = Zero
      BY <3>2 DEF Minus, Zero
    <3> QED  BY <1>9, <2>1, <3>3 DEF Read
  <2>2. CASE b.sessions[key] # Gone
    <3>1. row = Less(x, SessionRow(key), at)
      BY <1>9, <2>2 DEF Read
    <3> HIDE DEF row
    <3> QED  BY <1>3, <3>1, ReadIs
  <2> QED  BY <2>1, <2>2
<1> HIDE DEF row
<1>11. totals \in Amounts /\ models \in [Model -> Amounts]
  BY <1>3, <1>7, <1>8
<1> HIDE DEF totals, models
<1>12. /\ w.today = b.today /\ w.totals = totals /\ w.models = models
       /\ w.sessions = [b.sessions EXCEPT ![key] = row]
       /\ w \in BookType
  BY <1>4, <1>6, <1>10, <1>11, RebookedIs
<1> DEFINE kept == IF row = Zero THEN Gone ELSE row
<1>13. kept \in Amounts \cup {Gone} /\ Read(kept) = Read(row)
  BY <1>10, ReadIs DEF Read
<1>14. w.sessions[key] = row /\ w.sessions \in [SessionKey -> Amounts \cup {Gone}]
  BY <1>2, <1>6, <1>10, <1>12
<1>15. d = [w EXCEPT !.sessions[key] = kept]
  <2>1. d = [w EXCEPT !.sessions[key] = IF w.sessions[key] = Zero THEN Gone ELSE w.sessions[key]]
    BY DEF DropEmptySession
  <2> HIDE DEF d
  <2> QED  BY <1>14, <2>1
<1> HIDE DEF d, kept
<1>16. /\ d.today = w.today /\ d.totals = w.totals /\ d.models = w.models
       /\ d.sessions = [w.sessions EXCEPT ![key] = kept]
       /\ d \in BookType
  <2>1. w \in [today: Date, totals: Amounts, models: [Model -> Amounts],
               sessions: [SessionKey -> Amounts \cup {Gone}]]
    BY <1>12 DEF BookType
  <2>2. /\ d.today = w.today /\ d.totals = w.totals /\ d.models = w.models
        /\ d.sessions = [w.sessions EXCEPT ![key] = kept]
    BY <1>15, <2>1
  <2>3. [w.sessions EXCEPT ![key] = kept] \in [SessionKey -> Amounts \cup {Gone}]
    BY <1>13, <1>14
  <2>4. d \in BookType
    BY <1>15, <2>1, <2>2, <2>3 DEF BookType
  <2> QED  BY <2>2, <2>4
<1>17. ASSUME NEW k \in SessionKey PROVE Read(d.sessions[k]) = Less(x, SessionRow(k), at)
  <2>1. CASE k = key
    <3>1. d.sessions[k] = kept
      BY <1>14, <1>16, <2>1
    <3> QED  BY <1>10, <1>13, <2>1, <3>1
  <2>2. CASE k # key
    <3>1. d.sessions[k] = b.sessions[k]
      BY <1>2, <1>12, <1>14, <1>16, <2>2
    <3>2. <<p, ps>> \notin SessionRow(k)
      BY <1>1, <2>2, RowsOf DEF key
    <3>3. Read(b.sessions[k]) = RowSum(x, SessionRow(k))
      BY DEF Agrees
    <3> QED  BY <1>5, <3>1, <3>2, <3>3
  <2> QED  BY <2>1, <2>2
<1>18. \A m \in Model : d.models[m] = Less(x, ModelRow(b.today, m), at)
  BY <1>8, <1>12, <1>16
<1> QED  BY <1>7, <1>12, <1>16, <1>17, <1>18 DEF d, w, key, p, ps

\* A replaced entry leaves the rows it was of, whose row may go away, and its copy enters its own.
LEMMA ReplaceAgrees ==
    ASSUME NEW b \in BookType, NEW x \in IndexState, Agrees(b, x), NEW at \in DOMAIN x.entries,
           NEW e \in Entry, NEW s \in Session
    PROVE  LET p == x.entries[at]
               ps == x.sessions[at]
               cleared == DropEmptySession(SubtractContribution(b, p, ps), <<p.project, ps>>)
               c == AddContribution(cleared, e, s)
           IN  c \in BookType /\ c.today = b.today /\ Agrees(c, WithAt(x, at, e, s))
<1> DEFINE p == x.entries[at]
           ps == x.sessions[at]
           d == DropEmptySession(SubtractContribution(b, p, ps), <<p.project, ps>>)
           c == AddContribution(d, e, s)
           y == WithAt(x, at, e, s)
<1>1. \A row : RowSum(y, row) =
                  IF <<e, s>> \in row THEN Plus(Less(x, row, at), e) ELSE Less(x, row, at)
  BY RowOfReplaced DEF Less
<1>2. /\ d \in BookType /\ d.today = b.today
      /\ d.totals = Less(x, TodayRow(b.today), at)
      /\ \A m \in Model : d.models[m] = Less(x, ModelRow(b.today, m), at)
      /\ \A k \in SessionKey : Read(d.sessions[k]) = Less(x, SessionRow(k), at)
  BY TakenOut
<1> HIDE DEF d, y
<1>3. /\ c \in BookType /\ c.today = d.today
      /\ c.totals = IF e.date = d.today THEN Plus(d.totals, e) ELSE d.totals
      /\ \A m \in Model :
            c.models[m] = IF IsToday(d, e, m) THEN Plus(d.models[m], e) ELSE d.models[m]
      /\ \A k \in SessionKey :
            Read(c.sessions[k]) =
               IF k = <<e.project, s>> THEN Plus(Read(d.sessions[k]), e) ELSE Read(d.sessions[k])
  BY <1>2, AddIs
<1> HIDE DEF c
<1>4. c.totals = RowSum(y, TodayRow(c.today))
  <2>1. <<e, s>> \in TodayRow(b.today) <=> e.date = b.today
    BY RowsOf
  <2> QED  BY <1>1, <1>2, <1>3, <2>1
<1>5. ASSUME NEW m \in Model PROVE c.models[m] = RowSum(y, ModelRow(c.today, m))
  <2>1. <<e, s>> \in ModelRow(b.today, m) <=> IsToday(d, e, m)
    BY <1>2, RowsOf DEF IsToday
  <2> QED  BY <1>1, <1>2, <1>3, <2>1
<1>6. ASSUME NEW k \in SessionKey PROVE Read(c.sessions[k]) = RowSum(y, SessionRow(k))
  <2>1. <<e, s>> \in SessionRow(k) <=> k = <<e.project, s>>
    BY RowsOf
  <2> QED  BY <1>1, <1>2, <1>3, <2>1
<1> QED  BY <1>2, <1>3, <1>4, <1>5, <1>6 DEF Agrees, c, y, d, p, ps

\* The index as it stands.
Now == [entries |-> dd.entries, sessions |-> deduped_sessions]

\* A day's, a model's and a session's row of the index as it stands.
LEMMA NowIs ==
    ASSUME Inv
    PROVE  /\ Now \in IndexState
           /\ \A today : RowSum(Now, TodayRow(today)) =
                         SumAt({i \in DOMAIN dd.entries : dd.entries[i].date = today})
           /\ \A today, m : RowSum(Now, ModelRow(today, m)) =
                            SumAt({i \in DOMAIN dd.entries : dd.entries[i].date = today
                                                             /\ dd.entries[i].model = m})
           /\ \A k : RowSum(Now, SessionRow(k)) =
                     SumAt({i \in DOMAIN dd.entries :
                              <<dd.entries[i].project, deduped_sessions[i]>> = k})
<1>1. /\ dd.entries \in Seq(Entry) /\ deduped_sessions \in Seq(Session)
      /\ Len(deduped_sessions) = Len(dd.entries)
  BY DEF Inv, TypeOK
<1>2. Now \in IndexState /\ Now.entries = dd.entries /\ Now.sessions = deduped_sessions
  BY <1>1 DEF Now, IndexState
<1>3. \A i \in DOMAIN dd.entries : dd.entries[i] \in Entry /\ deduped_sessions[i] \in Session
  BY <1>1
<1> HIDE DEF Now
<1>4. \A row : RowSum(Now, row) = SumAt({i \in DOMAIN dd.entries :
                                             <<dd.entries[i], deduped_sessions[i]>> \in row})
  BY <1>2 DEF RowSum, SumAt, PlacesIn
<1>5. ASSUME NEW today
      PROVE  {i \in DOMAIN dd.entries : <<dd.entries[i], deduped_sessions[i]>> \in TodayRow(today)}
             = {i \in DOMAIN dd.entries : dd.entries[i].date = today}
  <2>1. \A i \in DOMAIN dd.entries :
           <<dd.entries[i], deduped_sessions[i]>> \in TodayRow(today) <=> dd.entries[i].date = today
    <3> SUFFICES ASSUME NEW i \in DOMAIN dd.entries
                 PROVE  <<dd.entries[i], deduped_sessions[i]>> \in TodayRow(today)
                           <=> dd.entries[i].date = today
      OBVIOUS
    <3>1. dd.entries[i] \in Entry /\ deduped_sessions[i] \in Session
      BY <1>3
    <3> QED  BY <3>1, RowsOf
  <2> QED  BY <2>1, Zenon
<1>6. ASSUME NEW today, NEW m
      PROVE  {i \in DOMAIN dd.entries : <<dd.entries[i], deduped_sessions[i]>> \in ModelRow(today, m)}
             = {i \in DOMAIN dd.entries : dd.entries[i].date = today /\ dd.entries[i].model = m}
  <2>1. \A i \in DOMAIN dd.entries :
           <<dd.entries[i], deduped_sessions[i]>> \in ModelRow(today, m)
              <=> dd.entries[i].date = today /\ dd.entries[i].model = m
    BY <1>3, RowsOf
  <2> QED  BY <2>1, Zenon
<1>7. ASSUME NEW k
      PROVE  {i \in DOMAIN dd.entries : <<dd.entries[i], deduped_sessions[i]>> \in SessionRow(k)}
             = {i \in DOMAIN dd.entries : <<dd.entries[i].project, deduped_sessions[i]>> = k}
  <2>1. \A i \in DOMAIN dd.entries :
           <<dd.entries[i], deduped_sessions[i]>> \in SessionRow(k)
              <=> <<dd.entries[i].project, deduped_sessions[i]>> = k
    BY <1>3, RowsOf
  <2> QED  BY <2>1, Zenon
<1>8. ASSUME NEW today
      PROVE  RowSum(Now, TodayRow(today)) =
                SumAt({i \in DOMAIN dd.entries : dd.entries[i].date = today})
  BY <1>4, <1>5, Zenon
<1>9. ASSUME NEW today, NEW m
      PROVE  RowSum(Now, ModelRow(today, m)) =
                SumAt({i \in DOMAIN dd.entries : dd.entries[i].date = today
                                                 /\ dd.entries[i].model = m})
  BY <1>4, <1>6
<1>10. ASSUME NEW k
       PROVE  RowSum(Now, SessionRow(k)) =
                 SumAt({i \in DOMAIN dd.entries :
                          <<dd.entries[i].project, deduped_sessions[i]>> = k})
  BY <1>4, <1>7, Zenon
<1> QED  BY <1>2, <1>8, <1>9, <1>10, Zenon

\* A new book agrees with nothing.
LEMMA NewAgrees ==
    ASSUME NEW today \in Date, NEW x \in IndexState, x.entries = <<>>
    PROVE  NewBook(today) \in BookType /\ NewBook(today).today = today /\ Agrees(NewBook(today), x)
<1>1. NewBook(today) \in BookType
  BY ReadIs DEF NewBook, BookType
<1>2. \A row : RowSum(x, row) = Zero
  BY RowOfNothing
<1> QED  BY <1>1, <1>2 DEF NewBook, Agrees, Read

\* Past midnight the day's rows start again from the index (refresh_today).
LEMMA RefreshAgrees ==
    ASSUME Inv, book \in BookType, Agrees(book, Now), Calendar[day] \in Date, RefreshToday
    PROVE  book' \in BookType /\ Agrees(book', Now)
<1> DEFINE today == Calendar[day]
           totals == RowSum(Now, TodayRow(today))
           models == [m \in Model |-> RowSum(Now, ModelRow(today, m))]
<1>1. CASE book.today = today
  BY <1>1 DEF RefreshToday
<1>2. CASE book.today # today
  <2>1. book' = [book EXCEPT !.today = today, !.totals = totals, !.models = models]
    <3>1. totals = SumAt({i \in DOMAIN dd.entries : dd.entries[i].date = today})
      BY NowIs, Zenon
    <3>2. \A m \in Model : RowSum(Now, ModelRow(today, m)) =
             SumAt({i \in DOMAIN dd.entries : dd.entries[i].date = today /\ dd.entries[i].model = m})
      BY NowIs
    <3>3. models = [m \in Model |-> SumAt({i \in DOMAIN dd.entries :
                       dd.entries[i].date = today /\ dd.entries[i].model = m})]
      BY <3>2, Zenon
    <3> QED  BY <1>2, <3>1, <3>3, Zenon DEF RefreshToday
  <2>2. totals \in Amounts /\ models \in [Model -> Amounts]
    BY NowIs, RowSumIs
  <2>3. \A m \in Model : models[m] = RowSum(Now, ModelRow(today, m))
    OBVIOUS
  <2>4. today \in Date /\ totals = RowSum(Now, TodayRow(today))
    OBVIOUS
  <2> HIDE DEF totals, models, today
  <2>5. /\ book'.today = today /\ book'.totals = totals /\ book'.models = models
        /\ book'.sessions = book.sessions /\ book' \in BookType
    BY <2>1, <2>2, <2>4 DEF BookType
  <2> QED  BY <2>3, <2>4, <2>5 DEF Agrees
<1> QED  BY <1>1, <1>2

\* The book of the whole index agrees with it.
LEMMA BookOfIndexAgrees ==
    ASSUME Inv, NEW today \in Date
    PROVE  BookOfIndex(today) \in BookType /\ Agrees(BookOfIndex(today), Now)
<1> DEFINE N == Len(dd.entries)
           upTo(n) == [entries |-> [i \in 1 .. n |-> dd.entries[i]],
                       sessions |-> [i \in 1 .. n |-> deduped_sessions[i]]]
           Is(h) == h = [n \in 0 .. N |->
                            IF n = 0 THEN NewBook(today)
                            ELSE AddContribution(h[n-1], dd.entries[n], deduped_sessions[n])]
           h == CHOOSE h : Is(h)
           step == [n \in 1 .. N |->
                      [b \in BookType |-> AddContribution(b, dd.entries[n], deduped_sessions[n])]]
<1>1. /\ dd.entries \in Seq(Entry) /\ deduped_sessions \in Seq(Session)
      /\ Len(deduped_sessions) = N /\ N \in Nat
      /\ \A n \in 1 .. N : dd.entries[n] \in Entry /\ deduped_sessions[n] \in Session
  BY DEF Inv, TypeOK
<1>2. BookOfIndex(today) = h[N]
  BY DEF BookOfIndex
<1>3. NewBook(today) \in BookType
  BY ReadIs DEF NewBook, BookType
<1>4. \E g : Is(g)
  <2>1. \A n \in 1 .. N : \A b \in BookType :
           step[n][b] = AddContribution(b, dd.entries[n], deduped_sessions[n])
    OBVIOUS
  <2>2. \A n \in 1 .. N : \A b \in BookType : step[n][b] \in BookType
    BY <1>1, <2>1, AddIs
  <2> HIDE DEF step, N
  <2>3. Recurs(BookType, N, NewBook(today), step)
    BY <1>1, <1>3, <2>2, Recursion
  <2>4. PICK g \in [0 .. N -> BookType] :
           g[0] = NewBook(today) /\ \A n \in 1 .. N : g[n] = step[n][g[n-1]]
    BY <2>3 DEF Recurs
  <2>5. \A n \in 1 .. N : g[n] = AddContribution(g[n-1], dd.entries[n], deduped_sessions[n])
    <3> SUFFICES ASSUME NEW n \in 1 .. N
                 PROVE  g[n] = AddContribution(g[n-1], dd.entries[n], deduped_sessions[n])
      OBVIOUS
    <3>1. n - 1 \in 0 .. N /\ g[n-1] \in BookType
      BY <1>1
    <3> QED  BY <2>1, <2>4, <3>1
  <2>6. \A n \in 0 .. N : g[n] = IF n = 0 THEN NewBook(today)
                                ELSE AddContribution(g[n-1], dd.entries[n], deduped_sessions[n])
    BY <1>1, <2>4, <2>5
  <2>7. g = [n \in 0 .. N |-> g[n]]
    OBVIOUS
  <2> QED  BY <2>6, <2>7
<1>5. Is(h)
  BY <1>4
<1>6. /\ h[0] = NewBook(today)
      /\ \A n \in 1 .. N : h[n] = AddContribution(h[n-1], dd.entries[n], deduped_sessions[n])
  <2> HIDE DEF h
  <2> QED  BY <1>1, <1>5
<1> HIDE DEF h
<1> DEFINE T == {n \in 0 .. N : h[n] \in BookType /\ Agrees(h[n], upTo(n))}
<1>7. \A n \in 0 .. N : upTo(n) \in IndexState /\ Len(upTo(n).entries) = n
  BY <1>1 DEF IndexState
<1>8. 0 \in T
  <2>1. upTo(0) \in IndexState /\ upTo(0).entries = <<>>
    BY <1>1 DEF IndexState
  <2> HIDE DEF upTo
  <2>2. 0 \in 0 .. N
    BY <1>1
  <2> QED  BY <1>6, <2>1, <2>2, NewAgrees
<1>9. ASSUME NEW n \in 1 .. N, n - 1 \in T PROVE n \in T
  <2> DEFINE e == dd.entries[n]
             s == deduped_sessions[n]
  <2>1. upTo(n) = With(upTo(n - 1), e, s)
    <3> DEFINE es == [i \in 1 .. n - 1 |-> dd.entries[i]]
               ss == [i \in 1 .. n - 1 |-> deduped_sessions[i]]
    <3>1. es \in Seq(Entry) /\ ss \in Seq(Session) /\ Len(es) = n - 1 /\ Len(ss) = n - 1
      BY <1>1
    <3>2. Append(es, e) = [i \in 1 .. n |-> dd.entries[i]]
      BY <3>1
    <3>3. Append(ss, s) = [i \in 1 .. n |-> deduped_sessions[i]]
      BY <3>1
    <3> QED  BY <3>2, <3>3 DEF With
  <2>2. e \in Entry /\ s \in Session /\ n - 1 \in 0 .. N /\ n \in 0 .. N
    BY <1>1
  <2>3. upTo(n - 1) \in IndexState
    BY <1>7, <2>2
  <2>4. h[n] = AddContribution(h[n-1], e, s)
    BY <1>6
  <2> HIDE DEF upTo, e, s
  <2>5. h[n] \in BookType /\ Agrees(h[n], upTo(n))
    BY <1>9, <2>1, <2>2, <2>3, <2>4, AddAgrees
  <2> QED  BY <2>2, <2>5
<1>10. upTo(N) = Now
  BY <1>1 DEF Now
<1> HIDE DEF T, upTo
<1>11. \A n \in 0 .. N : n \in T
  BY <1>1, <1>8, <1>9, SetInduction, Zenon
<1>12. N \in T
  BY <1>1, <1>11
<1> QED  BY <1>2, <1>10, <1>12 DEF T

----------------------------------------------------------------------------
(***************************************************************************)
(* The book and the outcomes of a poll.  The outcomes still to be          *)
(* delivered lead from an index that the book agrees with, one index after *)
(* another, to the index as it stands.                                     *)
(***************************************************************************)
\* The outcome o of offering an entry to the index x makes it the index y.
Made(x, o, y) ==
    \/ /\ o.kind = "Added" /\ o.entry \in Entry /\ o.session \in Session
       /\ y = With(x, o.entry, o.session)
    \/ /\ o.kind = "Replaced" /\ o.entry \in Entry /\ o.session \in Session
       /\ \E at \in DOMAIN x.entries :
             /\ o.previous = x.entries[at] /\ o.previous_session = x.sessions[at]
             /\ y = WithAt(x, at, o.entry, o.session)

Leads(h) ==
    /\ Len(h) = Len(outcomes) + 1
    /\ Agrees(book, h[1])
    /\ \A j \in DOMAIN outcomes : Made(h[j], outcomes[j], h[j+1])
    /\ h[Len(h)] = Now

ResetAhead == \E j \in DOMAIN outcomes : outcomes[j].kind = "Reset"

\* The index was emptied and its consumer has yet to hear of it.
Rebuilding == (pc = "feed" /\ task = "rebuild") \/ ResetAhead

BookInv ==
    /\ day \in DOMAIN Calendar
    /\ book \in BookType
    /\ ResetAhead => pc = "deliver" /\ Len(outcomes) = 1
    /\ Rebuilding \/ \E h \in Seq(IndexState) : Leads(h)

\* What leaves the index, the outcomes and the book alone.
LEMMA BookIdles ==
    ASSUME BookInv, UNCHANGED <<dd, deduped_sessions, outcomes, book>>, day' \in DOMAIN Calendar,
           ResetAhead => pc' = "deliver", Rebuilding => Rebuilding'
    PROVE  BookInv'
<1>1. ResetAhead' <=> ResetAhead
  BY DEF ResetAhead
<1>2. ASSUME NEW h \in Seq(IndexState), Leads(h) PROVE Leads(h)'
  BY <1>2 DEF Leads, Now
<1>3. Rebuilding' \/ (\E h \in Seq(IndexState) : Leads(h))'
  BY <1>2 DEF BookInv
<1> QED  BY <1>1, <1>3 DEF BookInv

\* With nothing to be delivered, a book that agrees with the index is led to it.
LEMMA BookSettles ==
    ASSUME Inv, outcomes' = <<>>, book' \in BookType, Agrees(book', Now), day' \in DOMAIN Calendar,
           UNCHANGED <<dd, deduped_sessions>>
    PROVE  BookInv'
<1>1. ~ResetAhead'
  BY DEF ResetAhead
<1>2. Now \in IndexState /\ Now' = Now
  BY NowIs DEF Now
<1>3. PICK x \in IndexState : x = Now
  BY <1>2
<1>4. PICK h : h = <<x>>
  OBVIOUS
<1>5. h \in Seq(IndexState) /\ Len(h) = 1 /\ h[1] = x
  BY <1>4
<1>6. Leads(h)'
  BY <1>2, <1>3, <1>5 DEF Leads
<1> QED  BY <1>1, <1>5, <1>6 DEF BookInv

\* What a fed entry comes to leads one index further.
LEMMA FeedEntryLeads ==
    ASSUME Inv, StreamInv, BookInv, FeedEntry, UNCHANGED <<book, day>>
    PROVE  BookInv'
<1> DEFINE e == Head(pending).entry
           s == Head(pending).session
           k == Identity(e, s)
           at == Place(dd, e)
           historical == current_occurrences[k] + 1 <= known_occurrences[k]
<1>1. pc = "feed" /\ UNCHANGED <<pc, task>> /\ ~ResetAhead /\ day' \in DOMAIN Calendar
  BY DEF FeedEntry, BookInv
<1>2. e \in Entry /\ s \in Session
  BY FeedEntryIs
<1>3. /\ dd.entries \in Seq(Entry) /\ deduped_sessions \in Seq(Session)
      /\ outcomes \in Seq(OutcomeType)
  BY DEF Inv, TypeOK, StreamInv, StreamTypes
<1>4. CASE task = "rebuild"
  <2>1. UNCHANGED outcomes
    BY <1>4, FeedEntryIs DEF Sink
  <2> QED  BY <1>1, <1>4, <2>1 DEF BookInv, Rebuilding, ResetAhead
<1>5. CASE task # "rebuild"
  <2>1. PICK h \in Seq(IndexState) : Leads(h)
    BY <1>1, <1>5 DEF BookInv, Rebuilding
  <2>2. \A o : Sink(o) => outcomes' = Append(outcomes, o)
    BY <1>5 DEF Sink
  <2>3. Now \in IndexState
    BY NowIs
  <2>4. CASE dd' = dd /\ UNCHANGED <<deduped_sessions, outcomes>>
    BY <1>1, <1>5, <2>4, BookIdles DEF Rebuilding
  <2>5. ASSUME NEW o, outcomes' = Append(outcomes, o), Made(Now, o, Now'), Now' \in IndexState,
               o.kind # "Reset"
        PROVE  BookInv'
    <3>1. PICK y \in IndexState : y = Now'
      BY <2>5
    <3>2. PICK g : g = Append(h, y)
      OBVIOUS
    <3>3. /\ g \in Seq(IndexState) /\ Len(g) = Len(h) + 1 /\ g[Len(h) + 1] = y
          /\ \A j \in 1 .. Len(h) : g[j] = h[j]
      BY <3>1, <3>2
    <3>4. /\ Len(outcomes') = Len(outcomes) + 1 /\ outcomes'[Len(outcomes) + 1] = o
          /\ \A j \in DOMAIN outcomes : outcomes'[j] = outcomes[j]
          /\ DOMAIN outcomes = 1 .. Len(outcomes) /\ DOMAIN outcomes' = 1 .. Len(outcomes) + 1
          /\ Len(outcomes) \in Nat
      BY <1>3, <2>5
    <3>5. ASSUME NEW j \in DOMAIN outcomes' PROVE Made(g[j], outcomes'[j], g[j+1])
      <4>1. Len(h) = Len(outcomes) + 1 /\ h[Len(h)] = Now
        BY <2>1 DEF Leads
      <4>2. CASE j \in DOMAIN outcomes
        <5>1. j \in 1 .. Len(h) /\ j + 1 \in 1 .. Len(h)
          BY <3>4, <4>1, <4>2
        <5>2. Made(h[j], outcomes[j], h[j+1])
          BY <2>1, <4>2 DEF Leads
        <5> QED  BY <3>3, <3>4, <4>2, <5>1, <5>2
      <4>3. CASE j \notin DOMAIN outcomes
        <5>1. j = Len(h) /\ j \in 1 .. Len(h) /\ j + 1 = Len(h) + 1 /\ j = Len(outcomes) + 1
          BY <3>4, <4>1, <4>3
        <5>2. g[j] = Now /\ g[j+1] = Now' /\ outcomes'[j] = o
          BY <3>1, <3>3, <3>4, <4>1, <5>1
        <5> QED  BY <2>5, <5>2
      <4> QED  BY <4>2, <4>3
    <3>6. Leads(g)'
      <4>1. Len(h) = Len(outcomes) + 1 /\ Agrees(book, h[1]) /\ 1 \in 1 .. Len(h)
        BY <2>1, <3>4 DEF Leads
      <4> QED  BY <3>1, <3>3, <3>4, <3>5, <4>1 DEF Leads
    <3>7. ~ResetAhead'
      BY <1>1, <2>5, <3>4 DEF ResetAhead
    <3> QED  BY <1>1, <3>3, <3>6, <3>7 DEF BookInv
  <2>6. CASE /\ dd'.entries = Append(dd.entries, e)
             /\ deduped_sessions' = Append(deduped_sessions, s)
             /\ Sink(AddedOutcome(e, s, historical))
    <3> DEFINE o == AddedOutcome(e, s, historical)
    <3>1. Now' = With(Now, e, s) /\ With(Now, e, s) \in IndexState
      BY <1>2, <2>3, <2>6, RowOfAdded DEF Now, With
    <3>2. o.kind = "Added" /\ o.entry = e /\ o.session = s
      BY DEF AddedOutcome
    <3>3. outcomes' = Append(outcomes, o)
      BY <2>2, <2>6
    <3> HIDE DEF o, e, s
    <3>4. Made(Now, o, Now')
      BY <1>2, <3>1, <3>2 DEF Made
    <3> QED  BY <2>5, <3>1, <3>2, <3>3, <3>4
  <2>7. CASE /\ at \in DOMAIN dd.entries
             /\ dd'.entries = [dd.entries EXCEPT ![at] = e]
             /\ deduped_sessions' = [deduped_sessions EXCEPT ![at] = s]
             /\ Sink(ReplacedOutcome(e, s))
    <3> DEFINE o == ReplacedOutcome(e, s)
    <3>1. Now' = WithAt(Now, at, e, s) /\ at \in DOMAIN Now.entries
      BY <2>7 DEF Now, WithAt
    <3>2. WithAt(Now, at, e, s) \in IndexState
      <4> HIDE DEF at, e, s
      <4> QED  BY <1>2, <2>3, <3>1, RowOfReplaced
    <3>3. /\ o.kind = "Replaced" /\ o.entry = e /\ o.session = s
          /\ o.previous = Now.entries[at] /\ o.previous_session = Now.sessions[at]
      BY DEF ReplacedOutcome, Now
    <3>4. outcomes' = Append(outcomes, o)
      BY <2>2, <2>7
    <3> HIDE DEF o, at, e, s
    <3>5. Made(Now, o, Now')
      BY <1>2, <3>1, <3>3 DEF Made
    <3> QED  BY <2>5, <3>1, <3>2, <3>3, <3>4, <3>5
  <2> QED  BY <2>4, <2>6, <2>7, FeedEntryIs
<1> QED  BY <1>4, <1>5

\* Delivering an outcome takes the book one index further; a reset's, to the present one.
LEMMA AcceptLeads ==
    ASSUME Inv, StreamInv, BookInv, Accept
    PROVE  BookInv'
<1> DEFINE o == Head(outcomes)
<1>1. /\ pc = "deliver" /\ outcomes # <<>> /\ outcomes' = Tail(outcomes)
      /\ UNCHANGED <<pc, dd, deduped_sessions, day>>
      /\ AcceptReset \/ AcceptAdded \/ AcceptReplaced
  BY DEF Accept, Deliver, indexVars, logVars
<1>2. /\ outcomes \in Seq(OutcomeType) /\ Len(outcomes) \in Nat /\ 1 \in DOMAIN outcomes
      /\ o = outcomes[1] /\ Len(outcomes') = Len(outcomes) - 1
      /\ DOMAIN outcomes = 1 .. Len(outcomes) /\ DOMAIN outcomes' = 1 .. Len(outcomes) - 1
      /\ \A j \in 1 .. Len(outcomes) - 1 : outcomes'[j] = outcomes[j+1]
  BY <1>1 DEF StreamInv, StreamTypes
<1>3. day' \in DOMAIN Calendar /\ book \in BookType /\ book.today \in Date
  BY <1>1 DEF BookInv, BookType
<1> HIDE DEF o
<1>4. CASE AcceptReset
  <2>1. o.kind = "Reset" /\ book' = BookOfIndex(book.today)
    BY <1>4 DEF AcceptReset, o
  <2>2. outcomes' = <<>>
    BY <1>1, <1>2, <2>1 DEF BookInv, ResetAhead
  <2> QED  BY <1>1, <1>3, <2>1, <2>2, BookOfIndexAgrees, BookSettles
<1>5. ASSUME o.kind # "Reset",
             \A x, y \in IndexState : Made(x, o, y) /\ Agrees(book, x)
                                         => book' \in BookType /\ Agrees(book', y)
      PROVE  BookInv'
  <2>1. ~ResetAhead /\ ~Rebuilding
    BY <1>1, <1>2, <1>5 DEF BookInv, ResetAhead, Rebuilding
  <2>2. PICK h \in Seq(IndexState) : Leads(h)
    BY <2>1 DEF BookInv
  <2>3. PICK g : g = Tail(h)
    OBVIOUS
  <2>4. Len(h) = Len(outcomes) + 1 /\ h[Len(h)] = Now /\ Agrees(book, h[1])
    BY <2>2 DEF Leads
  <2>5. /\ g \in Seq(IndexState) /\ Len(g) = Len(outcomes)
        /\ \A j \in 1 .. Len(outcomes) : g[j] = h[j+1]
    BY <1>2, <2>3, <2>4
  <2>6. h[1] \in IndexState /\ h[2] \in IndexState /\ Made(h[1], o, h[2])
    <3>1. 1 \in 1 .. Len(h) /\ 2 \in 1 .. Len(h)
      BY <1>2, <2>4
    <3>2. Made(h[1], outcomes[1], h[1+1])
      BY <1>2, <2>2 DEF Leads
    <3> QED  BY <1>2, <3>1, <3>2
  <2>7. book' \in BookType /\ Agrees(book', h[2])
    BY <1>5, <2>4, <2>6
  <2>8. ASSUME NEW j \in DOMAIN outcomes' PROVE Made(g[j], outcomes'[j], g[j+1])
    <3>1. j \in 1 .. Len(outcomes) /\ j + 1 \in 1 .. Len(outcomes) /\ j + 1 \in DOMAIN outcomes
          /\ j \in 1 .. Len(outcomes) - 1
      BY <1>2
    <3>2. Made(h[j+1], outcomes[j+1], h[(j+1)+1])
      BY <2>2, <3>1 DEF Leads
    <3> QED  BY <1>2, <2>5, <3>1, <3>2
  <2>9. Leads(g)'
    <3>1. 1 \in 1 .. Len(outcomes) /\ Len(outcomes) \in 1 .. Len(outcomes) /\ Now' = Now
      BY <1>1, <1>2 DEF Now
    <3>2. g[1] = h[2] /\ g[Len(g)] = Now
      BY <2>4, <2>5, <3>1
    <3>3. Len(g) = Len(outcomes') + 1
      BY <1>2, <2>5
    <3> QED  BY <2>7, <2>8, <3>1, <3>2, <3>3 DEF Leads
  <2>10. ~ResetAhead'
    BY <1>2, <2>1 DEF ResetAhead
  <2> QED  BY <1>3, <2>5, <2>7, <2>9, <2>10 DEF BookInv
<1>6. CASE AcceptAdded
  <2>1. o.kind = "Added" /\ book' = AddContribution(book, o.entry, o.session)
    BY <1>6 DEF AcceptAdded, o
  <2>2. ASSUME NEW x \in IndexState, NEW y \in IndexState, Made(x, o, y), Agrees(book, x)
        PROVE  book' \in BookType /\ Agrees(book', y)
    <3>1. o.entry \in Entry /\ o.session \in Session /\ y = With(x, o.entry, o.session)
      BY <2>1, <2>2 DEF Made
    <3> QED  BY <1>3, <2>1, <2>2, <3>1, AddAgrees
  <2> QED  BY <1>5, <2>1, <2>2
<1>7. CASE AcceptReplaced
  <2>1. /\ o.kind = "Replaced"
        /\ book' = AddContribution(
                      DropEmptySession(SubtractContribution(book, o.previous, o.previous_session),
                                       <<o.previous.project, o.previous_session>>),
                      o.entry, o.session)
    BY <1>7 DEF AcceptReplaced, o
  <2>2. ASSUME NEW x \in IndexState, NEW y \in IndexState, Made(x, o, y), Agrees(book, x)
        PROVE  book' \in BookType /\ Agrees(book', y)
    <3>1. o.entry \in Entry /\ o.session \in Session
      BY <2>1, <2>2 DEF Made
    <3>2. PICK at \in DOMAIN x.entries :
             /\ o.previous = x.entries[at] /\ o.previous_session = x.sessions[at]
             /\ y = WithAt(x, at, o.entry, o.session)
      BY <2>1, <2>2 DEF Made
    <3> QED  BY <1>3, <2>1, <2>2, <3>1, <3>2, ReplaceAgrees
  <2> QED  BY <1>5, <2>1, <2>2
<1> QED  BY <1>1, <1>4, <1>6, <1>7

\* Every step of the view, of the agents and of the calendar.
LEMMA StepLeads == Inv /\ StreamInv /\ BookInv /\ [LiveNext]_allVars => BookInv'
<1> SUFFICES ASSUME Inv, StreamInv, BookInv, [LiveNext]_allVars PROVE BookInv'
  OBVIOUS
<1>1. day \in DOMAIN Calendar /\ DOMAIN Calendar = 1 .. Len(Calendar) /\ Len(Calendar) \in Nat
  BY LiveAssumption DEF BookInv
<1>2. ResetAhead => pc = "deliver"
  BY DEF BookInv
<1>3. CASE LiveAgent
  <2>1. UNCHANGED <<dd, deduped_sessions, outcomes, book, day, pc, task>>
    BY <1>3 DEF LiveAgent, Agent, AppendLine, EndLine, Rewrite, Replace, Delete, Change, indexVars,
                liveVars
  <2> QED  BY <1>1, <1>2, <2>1, BookIdles DEF Rebuilding, ResetAhead
<1>4. CASE Midnight \/ UNCHANGED allVars
  <2>1. UNCHANGED <<dd, deduped_sessions, outcomes, book, pc, task>> /\ day' \in DOMAIN Calendar
    BY <1>1, <1>4 DEF Midnight, allVars, vars, liveVars, indexVars, logVars
  <2> QED  BY <1>2, <2>1, BookIdles DEF Rebuilding, ResetAhead
<1>5. ASSUME UNCHANGED <<dd, deduped_sessions, outcomes, book, day>>, pc \notin {"deliver"},
             ~(pc = "feed" /\ task = "rebuild")
      PROVE  BookInv'
  BY <1>1, <1>2, <1>5, BookIdles DEF Rebuilding
<1>6. CASE (Seed \/ Reading) /\ UNCHANGED <<liveVars, logVars>>
  <2>1. UNCHANGED <<book, day>>
    BY <1>6 DEF liveVars, logVars
  <2>2. CASE Seed
    BY <1>5, <2>1, <2>2 DEF Seed, StartReads, indexVars
  <2>3. CASE \E f \in File : \/ SkipFile(f) \/ OpenFile(f) \/ ReadNothing(f) \/ ReadSnapshot(f)
                             \/ FeedFile(f) \/ FindRewritten(f)
    BY <1>5, <2>1, <2>3 DEF SkipFile, OpenFile, ReadNothing, ReadSnapshot, FeedFile, FindRewritten,
                            IsNext, StartReads, indexVars
  <2>4. CASE FeedSeed \/ RetryLater \/ EndScan
    BY <1>5, <2>1, <2>4 DEF FeedSeed, RetryLater, EndScan, indexVars
  <2>5. CASE Rebuild
    <3>1. UNCHANGED outcomes /\ pc = "read" /\ pc' = "feed" /\ task' = "rebuild"
      BY <2>5 DEF Rebuild
    <3> QED  BY <1>1, <1>2, <2>1, <3>1 DEF BookInv, Rebuilding, ResetAhead
  <2>6. CASE FeedEntry
    BY <2>1, <2>6, FeedEntryLeads
  <2>7. CASE EndFeed
    <3>1. CASE task = "rebuild"
      <4>1. outcomes' = <<[kind |-> "Reset"]>> /\ pc' = "deliver"
        BY <2>7, <3>1 DEF EndFeed
      <4>2. Len(outcomes') = 1 /\ 1 \in DOMAIN outcomes' /\ outcomes'[1].kind = "Reset"
        BY <4>1
      <4>3. ResetAhead'
        BY <4>2 DEF ResetAhead
      <4> QED  BY <1>1, <2>1, <4>1, <4>2, <4>3 DEF BookInv, Rebuilding
    <3>2. CASE task # "rebuild"
      BY <1>5, <2>1, <2>7, <3>2 DEF EndFeed, indexVars
    <3> QED  BY <3>1, <3>2
  <2> QED  BY <1>6, <2>2, <2>3, <2>4, <2>5, <2>6, <2>7 DEF Reading
<1>7. CASE StartTick
  <2>1. pc = "idle" /\ UNCHANGED <<dd, deduped_sessions, outcomes, day>> /\ RefreshToday
    BY <1>7 DEF StartTick, PollPaths, indexVars, logVars
  <2>2. outcomes = <<>>
    BY <2>1 DEF StreamInv, Emitted
  <2>3. PICK h \in Seq(IndexState) : Leads(h)
    BY <2>1, <2>2 DEF BookInv, Rebuilding, ResetAhead
  <2>4. Agrees(book, Now)
    BY <2>2, <2>3 DEF Leads
  <2>5. Calendar[day] \in Date
    BY <1>1, LiveAssumption
  <2>6. book \in BookType
    BY DEF BookInv
  <2>7. book' \in BookType /\ Agrees(book', Now)
    BY <2>1, <2>4, <2>5, <2>6, RefreshAgrees
  <2> QED  BY <1>1, <2>1, <2>2, <2>7, BookSettles
<1>8. CASE Accept
  BY <1>8, AcceptLeads
<1>9. CASE EndTick
  <2>1. /\ outcomes = <<>> /\ UNCHANGED <<dd, deduped_sessions, outcomes, book, day>>
        /\ pc = "deliver"
    BY <1>9 DEF EndTick, Sleep, indexVars, logVars
  <2>2. ~ResetAhead /\ ~Rebuilding
    BY <2>1 DEF ResetAhead, Rebuilding
  <2> QED  BY <1>1, <2>1, <2>2, BookIdles
<1> QED  BY <1>3, <1>4, <1>6, <1>7, <1>8, <1>9 DEF LiveNext, LiveIndex

\* Whatever additions, replacements, resets and midnights led there, the book's totals between
\* polls are those of the entries the index keeps, and at no time is one below zero (LiveBook, and
\* accept_outcome of the Claude adapter's live.rs).
THEOREM BookOfEntries == LiveSpec => []BookMatchesIndex
<1>1. ASSUME LiveInit PROVE BookInv
  <2>1. /\ day = 1 /\ book = NewBook(Calendar[1]) /\ outcomes = <<>> /\ dd.entries = <<>>
        /\ deduped_sessions = <<>>
    BY <1>1 DEF LiveInit, Init, EmptyIndex
  <2>2. 1 \in DOMAIN Calendar /\ Calendar[1] \in Date
    BY LiveAssumption
  <2>3. PICK x : x = Now
    OBVIOUS
  <2>4. x \in IndexState /\ x.entries = <<>>
    BY <2>1, <2>3 DEF Now, IndexState
  <2>5. book \in BookType /\ Agrees(book, x)
    BY <2>1, <2>2, <2>4, NewAgrees
  <2>6. <<x>> \in Seq(IndexState) /\ Leads(<<x>>)
    BY <2>1, <2>3, <2>4, <2>5 DEF Leads
  <2>7. ~ResetAhead
    BY <2>1 DEF ResetAhead
  <2> QED  BY <2>1, <2>2, <2>5, <2>6, <2>7 DEF BookInv
<1>2. LiveSpec => [](Inv /\ StreamInv /\ BookInv)
  BY <1>1, StepLeads, LiveIndexIsGood, StreamInvariant, PTL DEF LiveSpec
<1>3. Inv /\ StreamInv /\ BookInv => BookMatchesIndex
  <2> SUFFICES ASSUME Inv, StreamInv, BookInv PROVE BookMatchesIndex
    OBVIOUS
  <2>1. book \in BookType
    BY DEF BookInv
  <2>2. \A k \in SessionKey : SessionTotals(k) = Read(book.sessions[k])
    BY DEF SessionTotals, Read
  <2>3. Positive
    <3>1. /\ book.totals \in Amounts /\ \A m \in Model : book.models[m] \in Amounts
          /\ \A k \in SessionKey : SessionTotals(k) \in Amounts
      BY <2>1, <2>2, ReadIs DEF BookType
    <3> QED  BY <3>1 DEF Positive, Amounts
  <2>4. ASSUME pc = "idle" PROVE Agrees(book, Now)
    <3>1. outcomes = <<>>
      BY <2>4 DEF StreamInv, Emitted
    <3>2. PICK h \in Seq(IndexState) : Leads(h)
      BY <2>4, <3>1 DEF BookInv, Rebuilding, ResetAhead
    <3> QED  BY <3>1, <3>2 DEF Leads
  <2>5. ASSUME pc = "idle", NEW m \in Model
        PROVE  book.models[m] = SumAt({i \in DOMAIN dd.entries : dd.entries[i].date = book.today
                                                                 /\ dd.entries[i].model = m})
    BY <2>4, <2>5, NowIs DEF Agrees
  <2> QED  BY <2>2, <2>3, <2>4, <2>5, NowIs DEF BookMatchesIndex, Agrees, PlacesOf
<1> QED  BY <1>2, <1>3, PTL

----------------------------------------------------------------------------
(***************************************************************************)
(* The daemon's rows.  What one more entry makes of a row, in whatever     *)
(* order the entries come.                                                 *)
(***************************************************************************)
RowType == [totals: Amounts, models: [Model -> Amounts \cup {Gone}]]
MaybeRow == RowType \cup {Gone}

Counted(row, e) == AddToRow(OrDefault(row), e)

\* What becomes of a row's model m.
ModelCounted(amount, e) == Plus(IF amount = Gone THEN Zero ELSE amount, e)

\* Amounts add up to amounts, in either order.
LEMMA AmountsIs ==
    /\ Zero \in Amounts
    /\ \A t \in Amounts, e \in Entry : Plus(t, e) \in Amounts
    /\ \A t \in Amounts, a, b \in Entry : Plus(Plus(t, a), b) = Plus(Plus(t, b), a)
  BY DEF Amounts, Zero, Plus, Entry

\* A model's row stays an amount, and does not depend on the order of its entries.
LEMMA ModelCountedIs ==
    /\ \A t \in Amounts \cup {Gone}, e \in Entry : ModelCounted(t, e) \in Amounts
    /\ \A t \in Amounts \cup {Gone}, a, b \in Entry :
          ModelCounted(ModelCounted(t, a), b) = ModelCounted(ModelCounted(t, b), a)
<1>1. Gone \notin Amounts
  BY ResidentAssumption
<1>2. \A t \in Amounts \cup {Gone} : (IF t = Gone THEN Zero ELSE t) \in Amounts
  BY AmountsIs
<1>3. \A t \in Amounts \cup {Gone}, e \in Entry : ModelCounted(t, e) \in Amounts
  BY <1>2, AmountsIs DEF ModelCounted
<1>4. ASSUME NEW t \in Amounts \cup {Gone}, NEW a \in Entry, NEW b \in Entry
      PROVE  ModelCounted(ModelCounted(t, a), b) = ModelCounted(ModelCounted(t, b), a)
  <2> DEFINE z == IF t = Gone THEN Zero ELSE t
  <2>1. z \in Amounts
    BY <1>2
  <2>2. ModelCounted(t, a) = Plus(z, a) /\ ModelCounted(t, b) = Plus(z, b)
    BY DEF ModelCounted
  <2> HIDE DEF z
  <2>3. Plus(z, a) \in Amounts /\ Plus(z, b) \in Amounts
    BY <2>1, AmountsIs
  <2>4. /\ ModelCounted(Plus(z, a), b) = Plus(Plus(z, a), b)
        /\ ModelCounted(Plus(z, b), a) = Plus(Plus(z, b), a)
    BY <1>1, <2>3 DEF ModelCounted
  <2> QED  BY <2>1, <2>2, <2>4, AmountsIs
<1> QED  BY <1>3, <1>4

\* A row and one more entry make a row, and two entries make it the same in either order.
LEMMA CountedIs ==
    ASSUME NEW row \in MaybeRow, NEW e \in Entry
    PROVE  /\ Counted(row, e) \in RowType /\ Counted(row, e) # Gone
           /\ Counted(row, e) = [totals |-> Plus(OrDefault(row).totals, e),
                                 models |-> [m \in Model |->
                                    IF m # e.model THEN OrDefault(row).models[m]
                                    ELSE ModelCounted(OrDefault(row).models[m], e)]]
<1>1. OrDefault(row) \in RowType
  <2>1. EmptyRow \in RowType
    BY AmountsIs DEF EmptyRow, RowType
  <2> QED  BY <2>1 DEF OrDefault, MaybeRow
<1>2. /\ OrDefault(row).totals \in Amounts
      /\ \A m \in Model : OrDefault(row).models[m] \in Amounts \cup {Gone}
  BY <1>1 DEF RowType
<1>3. Counted(row, e) = [totals |-> Plus(OrDefault(row).totals, e),
                         models |-> [m \in Model |->
                            IF m # e.model THEN OrDefault(row).models[m]
                            ELSE ModelCounted(OrDefault(row).models[m], e)]]
  BY DEF Counted, AddToRow, ModelCounted
<1>4. Counted(row, e) \in RowType
  BY <1>2, <1>3, AmountsIs, ModelCountedIs DEF RowType
<1>5. Gone \notin RowType
  BY ResidentAssumption DEF RowType
<1> QED  BY <1>3, <1>4, <1>5

\* Nor does a row.
LEMMA CountedEitherWay ==
    ASSUME NEW row \in MaybeRow, NEW a \in Entry, NEW b \in Entry
    PROVE  Counted(Counted(row, a), b) = Counted(Counted(row, b), a)
<1> DEFINE r == OrDefault(row)
           ra == Counted(row, a)
           rb == Counted(row, b)
           ofA(m, t) == IF m # a.model THEN t ELSE ModelCounted(t, a)
           ofB(m, t) == IF m # b.model THEN t ELSE ModelCounted(t, b)
<1>1. ra \in RowType /\ ra # Gone /\ rb \in RowType /\ rb # Gone
  BY CountedIs
<1>2. r \in RowType
  <2>1. EmptyRow \in RowType
    BY AmountsIs DEF EmptyRow, RowType
  <2> QED  BY <2>1 DEF OrDefault, MaybeRow
<1>3. r.totals \in Amounts /\ \A m \in Model : r.models[m] \in Amounts \cup {Gone}
  BY <1>2 DEF RowType
<1>4. /\ ra = [totals |-> Plus(r.totals, a), models |-> [m \in Model |-> ofA(m, r.models[m])]]
      /\ rb = [totals |-> Plus(r.totals, b), models |-> [m \in Model |-> ofB(m, r.models[m])]]
  BY CountedIs
<1> HIDE DEF r
<1>5. OrDefault(ra) = ra /\ OrDefault(rb) = rb /\ ra \in MaybeRow /\ rb \in MaybeRow
  BY <1>1 DEF OrDefault, MaybeRow
<1>6. /\ Counted(ra, b) = [totals |-> Plus(ra.totals, b),
                           models |-> [m \in Model |-> ofB(m, ra.models[m])]]
      /\ Counted(rb, a) = [totals |-> Plus(rb.totals, a),
                           models |-> [m \in Model |-> ofA(m, rb.models[m])]]
  <2> HIDE DEF ra, rb
  <2> QED  BY <1>5, CountedIs
<1> HIDE DEF ra, rb
<1>7. Plus(ra.totals, b) = Plus(rb.totals, a)
  BY <1>3, <1>4, AmountsIs
<1>8. ASSUME NEW m \in Model PROVE ofB(m, ra.models[m]) = ofA(m, rb.models[m])
  <2> DEFINE t == r.models[m]
  <2>1. ra.models[m] = ofA(m, t) /\ rb.models[m] = ofB(m, t) /\ t \in Amounts \cup {Gone}
    BY <1>3, <1>4
  <2> HIDE DEF t
  <2>2. ModelCounted(ModelCounted(t, a), b) = ModelCounted(ModelCounted(t, b), a)
    BY <2>1, ModelCountedIs
  <2>3. ofB(m, ra.models[m]) = IF m # b.model THEN ofA(m, t) ELSE ModelCounted(ofA(m, t), b)
    BY <2>1
  <2>4. ofA(m, rb.models[m]) = IF m # a.model THEN ofB(m, t) ELSE ModelCounted(ofB(m, t), a)
    BY <2>1
  <2> DEFINE ta == ModelCounted(t, a)
             tb == ModelCounted(t, b)
  <2>5. /\ ofA(m, t) = IF m # a.model THEN t ELSE ta
        /\ ofB(m, t) = IF m # b.model THEN t ELSE tb
    OBVIOUS
  <2> HIDE DEF ta, tb
  <2>6. /\ ModelCounted(ta, b) = ModelCounted(tb, a)
        /\ ModelCounted(t, a) = ta /\ ModelCounted(t, b) = tb
    BY <2>2 DEF ta, tb
  <2>7. CASE m = a.model /\ m = b.model
    BY <2>3, <2>4, <2>5, <2>6, <2>7, Zenon
  <2>8. CASE m = a.model /\ m # b.model
    BY <2>3, <2>4, <2>5, <2>6, <2>8, Zenon
  <2>9. CASE m # a.model /\ m = b.model
    BY <2>3, <2>4, <2>5, <2>6, <2>9, Zenon
  <2>10. CASE m # a.model /\ m # b.model
    BY <2>3, <2>4, <2>5, <2>6, <2>10, Zenon
  <2> QED  BY <2>7, <2>8, <2>9, <2>10
<1> HIDE DEF ofA, ofB
<1>9. [m \in Model |-> ofB(m, ra.models[m])] = [m \in Model |-> ofA(m, rb.models[m])]
  BY <1>8
<1>10. Counted(ra, b) = Counted(rb, a)
  BY <1>6, <1>7, <1>9
<1> QED  BY <1>10 DEF ra, rb

\* RowOf counts the entries one after another.
RowCounts(h, es, places) ==
    /\ h[0] = Gone
    /\ \A n \in 1 .. Len(es) : h[n] = IF n \in places THEN Counted(h[n-1], es[n]) ELSE h[n-1]

\* A row of places is counted one place after another.
LEMMA RowOfIs ==
    ASSUME NEW es \in Seq(Entry), NEW places
    PROVE  \E h \in [0 .. Len(es) -> MaybeRow] :
              RowCounts(h, es, places) /\ RowOf(es, places) = h[Len(es)]
<1> DEFINE N == Len(es)
           Is(h) == h = [n \in 0 .. N |->
                            IF n = 0 THEN Gone
                            ELSE IF n \in places THEN AddToRow(OrDefault(h[n-1]), es[n])
                            ELSE h[n-1]]
           step == [n \in 1 .. N |->
                      [r \in MaybeRow |-> IF n \in places THEN Counted(r, es[n]) ELSE r]]
           upTo == CHOOSE h : Is(h)
<1>1. N \in Nat /\ (\A n \in 1 .. N : es[n] \in Entry) /\ Gone \in MaybeRow
  BY DEF MaybeRow
<1>2. RowOf(es, places) = upTo[N]
  BY DEF RowOf
<1>3. \A n \in 1 .. N : \A r \in MaybeRow :
         step[n][r] = IF n \in places THEN Counted(r, es[n]) ELSE r
  OBVIOUS
<1>4. \A n \in 1 .. N : \A r \in MaybeRow : step[n][r] \in MaybeRow
  <2>1. \A n \in 1 .. N : \A r \in MaybeRow : Counted(r, es[n]) \in MaybeRow
    BY <1>1, CountedIs DEF MaybeRow
  <2> QED  BY <1>3, <2>1
<1> HIDE DEF step, N
<1>5. PICK g \in [0 .. N -> MaybeRow] : g[0] = Gone /\ \A n \in 1 .. N : g[n] = step[n][g[n-1]]
  <2>1. Recurs(MaybeRow, N, Gone, step)
    BY <1>1, <1>4, Recursion
  <2> QED  BY <2>1 DEF Recurs
<1>6. \A n \in 1 .. N : g[n] = IF n \in places THEN Counted(g[n-1], es[n]) ELSE g[n-1]
  <2> SUFFICES ASSUME NEW n \in 1 .. N
               PROVE  g[n] = IF n \in places THEN Counted(g[n-1], es[n]) ELSE g[n-1]
    OBVIOUS
  <2>1. n - 1 \in 0 .. N
    BY <1>1
  <2>2. g[n-1] \in MaybeRow
    BY <2>1
  <2> QED  BY <1>3, <1>5, <2>2
<1>7. Is(g)
  <2>1. \A n \in 0 .. N : g[n] = IF n = 0 THEN Gone
                                 ELSE IF n \in places THEN AddToRow(OrDefault(g[n-1]), es[n])
                                 ELSE g[n-1]
    <3> SUFFICES ASSUME NEW n \in 0 .. N, n # 0
                 PROVE  g[n] = IF n \in places THEN AddToRow(OrDefault(g[n-1]), es[n])
                               ELSE g[n-1]
      BY <1>5
    <3>1. n \in 1 .. N
      BY <1>1
    <3> QED  BY <1>6, <3>1 DEF Counted
  <2>2. g = [n \in 0 .. N |-> g[n]]
    OBVIOUS
  <2> QED  BY <2>1, <2>2
<1>8. Is(upTo)
  BY <1>7
<1>9. /\ upTo[0] = Gone
      /\ \A n \in 1 .. N : upTo[n] = IF n \in places THEN Counted(upTo[n-1], es[n]) ELSE upTo[n-1]
  <2> HIDE DEF upTo
  <2>1. upTo[0] = Gone
    BY <1>1, <1>8
  <2>2. ASSUME NEW n \in 1 .. N
        PROVE  upTo[n] = IF n \in places THEN Counted(upTo[n-1], es[n]) ELSE upTo[n-1]
    <3>1. n \in 0 .. N /\ n # 0
      BY <1>1
    <3> QED  BY <1>8, <3>1 DEF Counted
  <2> QED  BY <2>1, <2>2
<1> HIDE DEF upTo
<1> DEFINE T == {n \in 0 .. N : upTo[n] = g[n]}
<1>10. \A n \in 0 .. N : n \in T
  <2>1. 0 \in T
    BY <1>1, <1>5, <1>9
  <2>2. ASSUME NEW n \in 1 .. N, n - 1 \in T PROVE n \in T
    <3>1. upTo[n-1] = g[n-1] /\ n \in 0 .. N
      BY <1>1, <2>2
    <3> QED  BY <1>6, <1>9, <3>1
  <2> HIDE DEF T
  <2> QED  BY <1>1, <2>1, <2>2, SetInduction
<1>11. N \in 0 .. N
  BY <1>1
<1>12. RowOf(es, places) = g[N]
  BY <1>2, <1>10, <1>11
<1>13. RowCounts(g, es, places)
  BY <1>5, <1>6 DEF RowCounts, N
<1> QED  BY <1>12, <1>13 DEF N

\* A row is a row; nothing counted is none.
LEMMA RowOfType ==
    ASSUME NEW es \in Seq(Entry), NEW places
    PROVE  /\ RowOf(es, places) \in MaybeRow
           /\ places \cap DOMAIN es = {} => RowOf(es, places) = Gone
<1> DEFINE N == Len(es)
<1>1. N \in Nat /\ DOMAIN es = 1 .. N
  OBVIOUS
<1>2. PICK h \in [0 .. N -> MaybeRow] : RowCounts(h, es, places) /\ RowOf(es, places) = h[N]
  BY RowOfIs
<1>3. RowOf(es, places) \in MaybeRow
  BY <1>1, <1>2
<1>4. ASSUME places \cap DOMAIN es = {} PROVE RowOf(es, places) = Gone
  <2> HIDE DEF N
  <2> DEFINE T == {n \in 0 .. N : h[n] = Gone}
  <2>1. 0 \in T
    BY <1>1, <1>2 DEF RowCounts
  <2>2. ASSUME NEW n \in 1 .. N, n - 1 \in T PROVE n \in T
    <3>1. n \notin places /\ n \in 0 .. N
      BY <1>1, <1>4
    <3> QED  BY <1>2, <2>2, <3>1 DEF RowCounts, N
  <2> HIDE DEF T
  <2>3. \A n \in 0 .. N : n \in T
    BY <1>1, <2>1, <2>2, SetInduction
  <2>4. N \in T
    BY <1>1, <2>3
  <2> QED  BY <1>2, <2>4 DEF T
<1> QED  BY <1>3, <1>4

\* Entries that agree where they are counted make the same row.
LEMMA RowOfSame ==
    ASSUME NEW es \in Seq(Entry), NEW fs \in Seq(Entry), NEW places \in SUBSET DOMAIN es,
           Len(es) <= Len(fs), \A n \in places : fs[n] = es[n]
    PROVE  RowOf(fs, places) = RowOf(es, places)
<1> DEFINE N == Len(es)
           M == Len(fs)
<1>1. N \in Nat /\ M \in Nat /\ N <= M /\ DOMAIN es = 1 .. N
  OBVIOUS
<1>2. PICK g \in [0 .. N -> MaybeRow] : RowCounts(g, es, places) /\ RowOf(es, places) = g[N]
  BY RowOfIs
<1>3. PICK h \in [0 .. M -> MaybeRow] : RowCounts(h, fs, places) /\ RowOf(fs, places) = h[M]
  BY RowOfIs
<1>4. /\ g[0] = Gone
      /\ \A n \in 1 .. N : g[n] = IF n \in places THEN Counted(g[n-1], es[n]) ELSE g[n-1]
  BY <1>2 DEF RowCounts
<1>5. /\ h[0] = Gone
      /\ \A n \in 1 .. M : h[n] = IF n \in places THEN Counted(h[n-1], fs[n]) ELSE h[n-1]
  BY <1>3 DEF RowCounts
<1>6. \A n \in places : n \in 1 .. N /\ fs[n] = es[n]
  BY <1>1
<1> HIDE DEF N, M
<1> DEFINE T == {n \in 0 .. M : h[n] = IF n <= N THEN g[n] ELSE g[N]}
<1>7. 0 \in T
  BY <1>1, <1>4, <1>5
<1>8. ASSUME NEW n \in 1 .. M, n - 1 \in T PROVE n \in T
  <2>1. n \in 0 .. M /\ h[n-1] = IF n - 1 <= N THEN g[n-1] ELSE g[N]
    BY <1>1, <1>8
  <2>2. CASE n <= N
    <3>1. n \in 1 .. N /\ n - 1 <= N
      BY <1>1, <2>2
    <3> QED  BY <1>4, <1>5, <1>6, <2>1, <2>2, <3>1
  <2>3. CASE ~(n <= N)
    <3>1. n \notin places
      BY <1>1, <1>6, <2>3
    <3>2. n - 1 <= N => n - 1 = N
      BY <1>1, <2>3
    <3> QED  BY <1>5, <2>1, <2>3, <3>1, <3>2
  <2> QED  BY <2>2, <2>3
<1> HIDE DEF T
<1>9. \A n \in 0 .. M : n \in T
  BY <1>1, <1>7, <1>8, SetInduction
<1>10. M \in T
  BY <1>1, <1>9
<1>11. h[M] = g[N]
  BY <1>1, <1>10 DEF T
<1> QED  BY <1>2, <1>3, <1>11

\* One more place adds its entry, wherever it is among the others.
LEMMA RowOfOneMore ==
    ASSUME NEW es \in Seq(Entry), NEW places, NEW i \in DOMAIN es, i \notin places
    PROVE  RowOf(es, places \cup {i}) = Counted(RowOf(es, places), es[i])
<1> DEFINE N == Len(es)
           more == places \cup {i}
<1>1. N \in Nat /\ i \in 1 .. N /\ \A n \in 1 .. N : es[n] \in Entry
  OBVIOUS
<1>2. PICK g \in [0 .. N -> MaybeRow] : RowCounts(g, es, places) /\ RowOf(es, places) = g[N]
  BY RowOfIs
<1>3. PICK h \in [0 .. N -> MaybeRow] : RowCounts(h, es, more) /\ RowOf(es, more) = h[N]
  BY RowOfIs
<1>4. /\ g[0] = Gone
      /\ \A n \in 1 .. N : g[n] = IF n \in places THEN Counted(g[n-1], es[n]) ELSE g[n-1]
  BY <1>2 DEF RowCounts
<1>5. /\ h[0] = Gone
      /\ \A n \in 1 .. N : h[n] = IF n \in more THEN Counted(h[n-1], es[n]) ELSE h[n-1]
  BY <1>3 DEF RowCounts
<1> HIDE DEF N
<1> DEFINE T == {n \in 0 .. N : h[n] = IF n < i THEN g[n] ELSE Counted(g[n], es[i])}
<1>6. 0 \in T
  BY <1>1, <1>4, <1>5
<1>7. ASSUME NEW n \in 1 .. N, n - 1 \in T PROVE n \in T
  <2>1. n \in 0 .. N /\ h[n-1] = IF n - 1 < i THEN g[n-1] ELSE Counted(g[n-1], es[i])
    BY <1>1, <1>7
  <2>2. n - 1 \in 0 .. N
    BY <1>1
  <2>3. g[n-1] \in MaybeRow /\ es[n] \in Entry /\ es[i] \in Entry
    BY <1>1, <2>2
  <2>4. CASE n < i
    <3>1. n # i /\ n - 1 < i
      BY <1>1, <2>4
    <3> QED  BY <1>4, <1>5, <2>1, <2>4, <3>1
  <2>5. CASE n = i
    <3>1. n \notin places /\ n \in more /\ n - 1 < i /\ ~(n < i)
      BY <1>1, <2>5
    <3> QED  BY <1>4, <1>5, <2>1, <2>5, <3>1
  <2>6. CASE n > i
    <3>1. n # i /\ ~(n - 1 < i) /\ ~(n < i)
      BY <1>1, <2>6
    <3>2. h[n-1] = Counted(g[n-1], es[i])
      BY <2>1, <3>1
    <3>3. n \in more <=> n \in places
      BY <3>1
    <3>4. CASE n \in places
      <4>1. h[n] = Counted(Counted(g[n-1], es[i]), es[n]) /\ g[n] = Counted(g[n-1], es[n])
        BY <1>4, <1>5, <3>2, <3>3, <3>4
      <4>2. h[n] = Counted(g[n], es[i])
        BY <2>3, <4>1, CountedEitherWay
      <4> QED  BY <2>1, <3>1, <4>2
    <3>5. CASE n \notin places
      BY <1>4, <1>5, <2>1, <3>1, <3>2, <3>3, <3>5
    <3> QED  BY <3>4, <3>5
  <2> QED  BY <1>1, <2>4, <2>5, <2>6
<1> HIDE DEF T
<1>8. \A n \in 0 .. N : n \in T
  BY <1>1, <1>6, <1>7, SetInduction
<1>9. N \in T
  BY <1>1, <1>8
<1>10. h[N] = Counted(g[N], es[i])
  BY <1>1, <1>9 DEF T
<1> QED  BY <1>2, <1>3, <1>10

----------------------------------------------------------------------------
\* Counting the entries of a list of places, each there once, in the list's order or in the
\* index's makes the same row.
LEMMA RowAlong ==
    ASSUME NEW es \in Seq(Entry), NEW s \in Seq(DOMAIN es), IsInjective(s), NEW W
    PROVE  RowOf([n \in DOMAIN s |-> es[s[n]]], {n \in DOMAIN s : es[s[n]] \in W})
              = RowOf(es, {i \in ToSet(s) : es[i] \in W})
<1> DEFINE N == Len(s)
           t == [n \in DOMAIN s |-> es[s[n]]]
           wanted == {n \in DOMAIN s : es[s[n]] \in W}
           upTo(n) == {s[m] : m \in {m \in 1 .. n : es[s[m]] \in W}}
<1>1. N \in Nat /\ DOMAIN s = 1 .. N /\ \A n \in 1 .. N : s[n] \in DOMAIN es
  OBVIOUS
<1>2. \A n \in 1 .. N : es[s[n]] \in Entry
  BY <1>1
<1>3. t \in Seq(Entry) /\ Len(t) = N /\ \A n \in 1 .. N : t[n] = es[s[n]]
  BY <1>1, <1>2
<1>4. PICK h \in [0 .. N -> MaybeRow] : RowCounts(h, t, wanted) /\ RowOf(t, wanted) = h[N]
  <2> HIDE DEF t, wanted, N
  <2> QED  BY <1>3, RowOfIs
<1> HIDE DEF t
<1>5. /\ h[0] = Gone
      /\ \A n \in 1 .. N : h[n] = IF n \in wanted THEN Counted(h[n-1], es[s[n]]) ELSE h[n-1]
  BY <1>3, <1>4 DEF RowCounts
<1> HIDE DEF N
<1> DEFINE T == {n \in 0 .. N : h[n] = RowOf(es, upTo(n))}
<1>6. 0 \in T
  <2>1. upTo(0) = {}
    OBVIOUS
  <2>2. RowOf(es, {}) = Gone
    BY RowOfType
  <2>3. h[0] = RowOf(es, upTo(0)) /\ 0 \in 0 .. N
    <3> HIDE DEF upTo
    <3>1. h[0] = Gone /\ RowOf(es, upTo(0)) = Gone
      BY <1>5, <2>1, <2>2, Zenon
    <3> QED  BY <1>1, <3>1
  <2> HIDE DEF upTo
  <2> QED  BY <2>3
<1>7. ASSUME NEW n \in 1 .. N, n - 1 \in T PROVE n \in T
  <2>1. n \in 0 .. N /\ h[n-1] = RowOf(es, upTo(n-1)) /\ s[n] \in DOMAIN es
    <3> HIDE DEF upTo
    <3> QED  BY <1>1, <1>7
  <2>2. \A m \in 1 .. n : m \in 1 .. n - 1 \/ m = n
    BY <1>1
  <2>3. \A m \in 1 .. n - 1 : m \in 1 .. n /\ m \in 1 .. N /\ m # n
    BY <1>1
  <2>4. CASE n \in wanted
    <3>1. es[s[n]] \in W /\ n \in 1 .. n
      BY <1>1, <2>4
    <3>0. {m \in 1 .. n : es[s[m]] \in W} = {m \in 1 .. n - 1 : es[s[m]] \in W} \cup {n}
      BY <2>2, <2>3, <3>1
    <3>2. upTo(n) = upTo(n-1) \cup {s[n]}
      BY <3>0
    <3>3. s[n] \notin upTo(n-1)
      <4>1. \A m \in 1 .. n - 1 : s[m] # s[n]
        BY <1>1, <2>3 DEF IsInjective
      <4> QED  BY <4>1
    <3> HIDE DEF upTo
    <3>4. RowOf(es, upTo(n)) = Counted(RowOf(es, upTo(n-1)), es[s[n]])
      BY <2>1, <3>2, <3>3, RowOfOneMore
    <3> QED  BY <1>5, <2>1, <2>4, <3>4
  <2>5. CASE n \notin wanted
    <3>1. es[s[n]] \notin W
      BY <1>1, <2>5
    <3>2. upTo(n) = upTo(n-1)
      BY <2>2, <2>3, <3>1
    <3> QED  BY <1>5, <2>1, <2>5, <3>2
  <2> QED  BY <2>4, <2>5
<1> HIDE DEF T
<1>8. \A n \in 0 .. N : n \in T
  BY <1>1, <1>6, <1>7, SetInduction
<1>9. N \in T
  BY <1>1, <1>8
<1>10. upTo(N) = {i \in ToSet(s) : es[i] \in W}
  BY <1>1 DEF ToSet
<1>11. h[N] = RowOf(es, upTo(N))
  BY <1>9 DEF T
<1> QED  BY <1>4, <1>10, <1>11 DEF t

\* So a day's rebuilt rows are those of the places filed under it.
LEMMA RebuiltRow ==
    ASSUME NEW es \in Seq(Entry), NEW s \in Seq(DOMAIN es), IsInjective(s), NEW d, NEW p
    PROVE  LET t == [n \in DOMAIN s |-> es[s[n]]] IN
           /\ RowOf(t, OfDate(t, d)) = RowOf(es, OfDate(es, d) \cap ToSet(s))
           /\ RowOf(t, OfProject(t, d, p)) = RowOf(es, OfProject(es, d, p) \cap ToSet(s))
<1> DEFINE t == [n \in DOMAIN s |-> es[s[n]]]
           Day == {e \in Entry : e.date = d}
           Part == {e \in Entry : e.date = d /\ e.project = p}
<1>1. DOMAIN t = DOMAIN s /\ \A n \in DOMAIN s : s[n] \in DOMAIN es /\ es[s[n]] \in Entry
      /\ t[n] = es[s[n]]
  OBVIOUS
<1>2. ToSet(s) \subseteq DOMAIN es /\ \A i \in DOMAIN es : es[i] \in Entry
  BY ElementsType
<1> HIDE DEF t
<1>3. OfDate(t, d) = {n \in DOMAIN s : es[s[n]] \in Day}
  BY <1>1 DEF OfDate
<1>4. OfProject(t, d, p) = {n \in DOMAIN s : es[s[n]] \in Part}
  BY <1>1 DEF OfDate, OfProject
<1>5. OfDate(es, d) \cap ToSet(s) = {i \in ToSet(s) : es[i] \in Day}
  BY <1>2 DEF OfDate
<1>6. OfProject(es, d, p) \cap ToSet(s) = {i \in ToSet(s) : es[i] \in Part}
  BY <1>2 DEF OfDate, OfProject
<1>7. RowOf(t, {n \in DOMAIN s : es[s[n]] \in Day}) = RowOf(es, {i \in ToSet(s) : es[i] \in Day})
  BY RowAlong DEF t
<1>8. RowOf(t, {n \in DOMAIN s : es[s[n]] \in Part}) = RowOf(es, {i \in ToSet(s) : es[i] \in Part})
  BY RowAlong DEF t
<1>9. /\ RowOf(t, OfDate(t, d)) = RowOf(es, OfDate(es, d) \cap ToSet(s))
      /\ RowOf(t, OfProject(t, d, p)) = RowOf(es, OfProject(es, d, p) \cap ToSet(s))
  BY <1>3, <1>4, <1>5, <1>6, <1>7, <1>8
<1> QED  BY <1>9 DEF t

----------------------------------------------------------------------------
(***************************************************************************)
(* What the rows are while outcomes are on their way: those of the entries *)
(* at the places the daemon knows of, except for the days and the keys an  *)
(* outcome is still to rebuild; and every known place is filed under its   *)
(* entry's day, except for the late ones an outcome is still to move.      *)
(***************************************************************************)
RowsType(known) ==
    [date: [Date -> MaybeRow], project: [Date \X Project -> MaybeRow], filed: [Date -> Seq(known)]]

RowsAre(rows, es, known, late, days, keys) ==
    /\ known \in SUBSET DOMAIN es
    /\ rows \in RowsType(known)
    /\ \A d \in Date :
          /\ IsInjective(rows.filed[d])
          /\ rows.filed[d] = <<>> =>
                rows.date[d] = Gone /\ \A p \in Project : rows.project[<<d, p>>] = Gone
    /\ \A i \in known \ late : i \in ToSet(rows.filed[es[i].date])
    /\ \A d \in Date \ days : rows.date[d] = RowOf(es, OfDate(es, d) \cap known)
    /\ \A d \in Date, p \in Project :
          <<d, p>> \notin keys => rows.project[<<d, p>>] = RowOf(es, OfProject(es, d, p) \cap known)

\* What is late is of the days and the keys still to be rebuilt.
Excused(es, late, days, keys) ==
    \A i \in late : es[i].date \in days /\ <<es[i].date, es[i].project>> \in keys

\* Without places there are no rows.
LEMMA NoRowsAre ==
    ASSUME NEW es \in Seq(Entry)
    PROVE  RowsAre(NoRows, es, {}, {}, {}, {})
<1>1. RowOf(es, {}) = Gone
  BY RowOfType
<1>2. NoRows.date = [d \in Date |-> Gone] /\ NoRows.project = [k \in Date \X Project |-> Gone]
      /\ NoRows.filed = [d \in Date |-> <<>>] /\ Gone \in MaybeRow /\ <<>> \in Seq({})
  BY DEF NoRows, MaybeRow
<1>3. NoRows \in RowsType({})
  BY <1>2 DEF NoRows, RowsType
<1>4. \A d \in Date : /\ OfDate(es, d) \cap {} = {}
                      /\ \A p \in Project : OfProject(es, d, p) \cap {} = {}
  OBVIOUS
<1> QED  BY <1>1, <1>2, <1>3, <1>4, EmptyInjective DEF RowsAre

\* add_entry: the place of an entry not yet known becomes known.
LEMMA AddRowsAre ==
    ASSUME dd.entries \in Seq(Entry), NEW rows, NEW known, NEW late, NEW days, NEW keys,
           RowsAre(rows, dd.entries, known, late, days, keys),
           NEW i \in DOMAIN dd.entries, i \notin known
    PROVE  RowsAre(AddEntry(rows, i), dd.entries, known \cup {i}, late, days, keys)
<1> DEFINE es == dd.entries
           e == es[i]
           new == AddEntry(rows, i)
           more == known \cup {i}
<1>1. e \in Entry /\ e.date \in Date /\ e.project \in Project
  <2>1. e \in Entry
    OBVIOUS
  <2> QED  BY <2>1 DEF Entry
<1>2. /\ known \in SUBSET DOMAIN es
      /\ rows.date \in [Date -> MaybeRow] /\ rows.project \in [Date \X Project -> MaybeRow]
      /\ rows.filed \in [Date -> Seq(known)]
  BY DEF RowsAre, RowsType
<1>3. new = [date |-> [rows.date EXCEPT ![e.date] = Counted(@, e)],
             project |-> [rows.project EXCEPT ![<<e.date, e.project>>] = Counted(@, e)],
             filed |-> [rows.filed EXCEPT ![e.date] = Append(@, i)]]
  BY DEF AddEntry, Counted
<1> HIDE DEF es, e, new
<1>4. /\ \A d \in Date : /\ d # e.date => new.date[d] = rows.date[d] /\ new.filed[d] = rows.filed[d]
                         /\ \A p \in Project : <<d, p>> # <<e.date, e.project>> =>
                               new.project[<<d, p>>] = rows.project[<<d, p>>]
      /\ new.date[e.date] = Counted(rows.date[e.date], e)
      /\ new.project[<<e.date, e.project>>] = Counted(rows.project[<<e.date, e.project>>], e)
      /\ new.filed[e.date] = Append(rows.filed[e.date], i)
  BY <1>1, <1>2, <1>3
<1>5. /\ rows.date[e.date] \in MaybeRow /\ rows.project[<<e.date, e.project>>] \in MaybeRow
      /\ rows.filed[e.date] \in Seq(known)
  BY <1>1, <1>2
<1>6. /\ Counted(rows.date[e.date], e) \in MaybeRow
      /\ Counted(rows.project[<<e.date, e.project>>], e) \in MaybeRow
  BY <1>1, <1>5, CountedIs DEF MaybeRow
<1>7. more \in SUBSET DOMAIN es
  BY <1>2 DEF es
<1>8. /\ Append(rows.filed[e.date], i) \in Seq(more)
      /\ ToSet(Append(rows.filed[e.date], i)) = ToSet(rows.filed[e.date]) \cup {i}
      /\ IsInjective(Append(rows.filed[e.date], i))
  <2>1. rows.filed[e.date] \in Seq(more) /\ i \in more
    BY <1>5
  <2>2. i \notin ToSet(rows.filed[e.date])
    BY <1>5, ElementsType
  <2>3. IsInjective(rows.filed[e.date])
    BY <1>1 DEF RowsAre
  <2> QED  BY <2>1, <2>2, <2>3, Enqueued
<1>9. new \in RowsType(more)
  <2>1. \A d \in Date : rows.filed[d] \in Seq(more)
    BY <1>2
  <2>2. rows.filed \in [Date -> Seq(more)]
    BY <1>2, <2>1
  <2>3. [rows.filed EXCEPT ![e.date] = Append(@, i)] \in [Date -> Seq(more)]
    BY <1>8, <2>2
  <2>4. [rows.date EXCEPT ![e.date] = Counted(@, e)] \in [Date -> MaybeRow]
    BY <1>2, <1>6
  <2>5. [rows.project EXCEPT ![<<e.date, e.project>>] = Counted(@, e)]
           \in [Date \X Project -> MaybeRow]
    BY <1>2, <1>6
  <2> QED  BY <1>3, <2>3, <2>4, <2>5 DEF RowsType
<1>10. ASSUME NEW d \in Date
       PROVE  /\ IsInjective(new.filed[d])
              /\ new.filed[d] = <<>> =>
                    new.date[d] = Gone /\ \A p \in Project : new.project[<<d, p>>] = Gone
  <2>1. CASE d = e.date
    <3>1. Append(rows.filed[d], i) # <<>>
      <4>1. PICK q \in Seq(known) : q = rows.filed[d]
        BY <1>5, <2>1
      <4>2. Len(Append(q, i)) = Len(q) + 1 /\ Len(q) \in Nat /\ Len(<<>>) = 0
        OBVIOUS
      <4> QED  BY <4>1, <4>2
    <3> QED  BY <1>4, <1>8, <2>1, <3>1
  <2>2. CASE d # e.date
    <3>1. /\ new.filed[d] = rows.filed[d] /\ new.date[d] = rows.date[d]
          /\ \A p \in Project : new.project[<<d, p>>] = rows.project[<<d, p>>]
      BY <1>4, <2>2
    <3> QED  BY <3>1 DEF RowsAre
  <2> QED  BY <2>1, <2>2
<1>11. ASSUME NEW j \in more \ late PROVE j \in ToSet(new.filed[es[j].date])
  <2>1. CASE j = i
    BY <1>4, <1>8, <2>1 DEF e
  <2>2. CASE j # i
    <3>1. j \in known \ late /\ j \in DOMAIN es
      BY <1>2, <2>2
    <3>2. j \in ToSet(rows.filed[es[j].date])
      BY <3>1 DEF RowsAre, es
    <3>3. es[j].date \in Date
      <4>1. es[j] \in Entry
        BY <3>1 DEF es
      <4> QED  BY <4>1 DEF Entry
    <3> QED  BY <1>4, <1>8, <3>2, <3>3
  <2> QED  BY <2>1, <2>2
<1>12. ASSUME NEW d \in Date \ days PROVE new.date[d] = RowOf(es, OfDate(es, d) \cap more)
  <2>1. rows.date[d] = RowOf(es, OfDate(es, d) \cap known)
    BY DEF RowsAre, es
  <2>2. CASE d = e.date
    <3>1. OfDate(es, d) \cap more = (OfDate(es, d) \cap known) \cup {i}
      BY <2>2 DEF OfDate, e, es
    <3>2. RowOf(es, (OfDate(es, d) \cap known) \cup {i})
             = Counted(RowOf(es, OfDate(es, d) \cap known), e)
      BY RowOfOneMore DEF es, e
    <3> QED  BY <1>4, <2>1, <2>2, <3>1, <3>2
  <2>3. CASE d # e.date
    <3>1. OfDate(es, d) \cap more = OfDate(es, d) \cap known
      BY <2>3 DEF OfDate, e
    <3> QED  BY <1>4, <2>1, <2>3, <3>1
  <2> QED  BY <2>2, <2>3
<1>13. ASSUME NEW d \in Date, NEW p \in Project, <<d, p>> \notin keys
       PROVE  new.project[<<d, p>>] = RowOf(es, OfProject(es, d, p) \cap more)
  <2>1. rows.project[<<d, p>>] = RowOf(es, OfProject(es, d, p) \cap known)
    BY <1>13 DEF RowsAre, es
  <2>2. CASE d = e.date /\ p = e.project
    <3>1. OfProject(es, d, p) \cap more = (OfProject(es, d, p) \cap known) \cup {i}
      BY <2>2 DEF OfProject, OfDate, e, es
    <3>2. RowOf(es, (OfProject(es, d, p) \cap known) \cup {i})
             = Counted(RowOf(es, OfProject(es, d, p) \cap known), e)
      BY RowOfOneMore DEF es, e
    <3> QED  BY <1>4, <2>1, <2>2, <3>1, <3>2
  <2>3. CASE ~(d = e.date /\ p = e.project)
    <3>1. OfProject(es, d, p) \cap more = OfProject(es, d, p) \cap known
      BY <2>3 DEF OfProject, OfDate, e
    <3>2. <<d, p>> # <<e.date, e.project>>
      BY <2>3
    <3> QED  BY <1>4, <2>1, <3>1, <3>2
  <2> QED  BY <2>2, <2>3
<1> QED  BY <1>7, <1>9, <1>10, <1>11, <1>12, <1>13 DEF RowsAre, es, new, more

\* The place of an entry that changed its day is filed under the new one.
LEMMA MoveRowsAre ==
    ASSUME dd.entries \in Seq(Entry), NEW rows, NEW known, NEW late, NEW days, NEW keys,
           NEW i \in known, NEW previous,
           RowsAre(rows, dd.entries, known, late, days, keys)
    PROVE  RowsAre(FileMoved(rows, i, previous), dd.entries, known,
                   IF previous.date # dd.entries[i].date THEN late \ {i} ELSE late, days, keys)
<1> DEFINE es == dd.entries
           d0 == es[i].date
           new == FileMoved(rows, i, previous)
           filed == rows.filed[d0]
           longer == AddPlace(filed, i)
<1>1. CASE previous.date = d0
  <2>1. new = rows
    BY <1>1 DEF FileMoved
  <2> QED  BY <1>1, <2>1
<1>2. CASE previous.date # d0
  <2>1. /\ known \in SUBSET DOMAIN es
        /\ rows \in [date: [Date -> MaybeRow], project: [Date \X Project -> MaybeRow],
                     filed: [Date -> Seq(known)]]
    BY DEF RowsAre, RowsType
  <2>2. d0 \in Date
    <3>1. es[i] \in Entry
      BY <2>1
    <3> QED  BY <3>1 DEF Entry
  <2>3. new = [rows EXCEPT !.filed[d0] = AddPlace(@, i)]
    BY <1>2 DEF FileMoved
  <2>4. filed \in Seq(known) /\ IsInjective(filed)
    BY <2>1, <2>2 DEF RowsAre
  <2> HIDE DEF es, d0, new, filed
  <2>5. /\ longer \in Seq(known) /\ ToSet(longer) = ToSet(filed) \cup {i} /\ IsInjective(longer)
        /\ longer # <<>>
    <3>1. CASE i \in ToSet(filed)
      <4>1. longer = filed
        BY <3>1 DEF AddPlace
      <4>2. filed # <<>>
        BY <3>1, EmptyElements
      <4> QED  BY <2>4, <3>1, <4>1, <4>2
    <3>2. CASE i \notin ToSet(filed)
      <4>1. longer = Append(filed, i)
        BY <3>2 DEF AddPlace
      <4>2. Len(longer) = Len(filed) + 1 /\ Len(filed) \in Nat /\ Len(<<>>) = 0
        BY <2>4, <4>1
      <4>3. longer # <<>>
        BY <4>2
      <4> QED  BY <2>4, <3>2, <4>1, <4>3, Enqueued
    <3> QED  BY <3>1, <3>2
  <2> HIDE DEF longer
  <2>6. new = [date |-> rows.date, project |-> rows.project,
               filed |-> [rows.filed EXCEPT ![d0] = longer]]
    BY <2>1, <2>3 DEF longer, filed
  <2>7. /\ new.date = rows.date /\ new.project = rows.project
        /\ new.filed[d0] = longer /\ \A d \in Date : d # d0 => new.filed[d] = rows.filed[d]
    BY <2>1, <2>2, <2>6
  <2>8. new \in RowsType(known)
    BY <2>1, <2>5, <2>6 DEF RowsType
  <2>9. \A d \in Date : /\ IsInjective(new.filed[d])
                        /\ new.filed[d] = <<>> =>
                              new.date[d] = Gone /\ \A p \in Project : new.project[<<d, p>>] = Gone
    BY <2>5, <2>7 DEF RowsAre
  <2>10. ASSUME NEW j \in known \ (late \ {i}) PROVE j \in ToSet(new.filed[es[j].date])
    <3>1. CASE j = i
      BY <2>5, <2>7, <3>1 DEF d0
    <3>2. CASE j # i
      <4>1. j \in ToSet(rows.filed[es[j].date])
        BY <3>2 DEF RowsAre, es
      <4>2. es[j].date \in Date
        <5>1. j \in DOMAIN es
          BY <2>1
        <5>2. es[j] \in Entry
          BY <5>1 DEF es
        <5> QED  BY <5>2 DEF Entry
      <4> QED  BY <2>5, <2>7, <4>1, <4>2 DEF filed
    <3> QED  BY <3>1, <3>2
  <2>11. /\ \A d \in Date \ days : new.date[d] = RowOf(es, OfDate(es, d) \cap known)
         /\ \A d \in Date, p \in Project :
               <<d, p>> \notin keys =>
                   new.project[<<d, p>>] = RowOf(es, OfProject(es, d, p) \cap known)
    BY <2>7 DEF RowsAre, es
  <2>12. RowsAre(new, es, known, late \ {i}, days, keys)
    BY <2>1, <2>8, <2>9, <2>10, <2>11 DEF RowsAre
  <2> QED  BY <1>2, <2>12 DEF new, es, d0
<1> QED  BY <1>1, <1>2

\* rebuild_date: a day's row and a project's of that day are rebuilt, unless an outcome is still to
\* rebuild them.
LEMMA RebuildRowsAre ==
    ASSUME dd.entries \in Seq(Entry), NEW rows, NEW known, NEW late, NEW days, NEW keys,
           NEW d \in Date, NEW p \in Project,
           Excused(dd.entries, late, days, keys),
           RowsAre(rows, dd.entries, known, late, days \cup {d}, keys \cup {<<d, p>>})
    PROVE  RowsAre(RebuildDate(rows, d, p), dd.entries, known, late, days, keys)
<1> DEFINE es == dd.entries
           s == rows.filed[d]
           t == EntriesFiled(rows, d)
           dayRow == RowOf(es, OfDate(es, d) \cap ToSet(s))
           projectRow == RowOf(es, OfProject(es, d, p) \cap ToSet(s))
           new == RebuildDate(rows, d, p)
<1>1. /\ known \in SUBSET DOMAIN es
      /\ rows \in [date: [Date -> MaybeRow], project: [Date \X Project -> MaybeRow],
                   filed: [Date -> Seq(known)]]
  BY DEF RowsAre, RowsType
<1>2. s \in Seq(known) /\ IsInjective(s) /\ ToSet(s) \subseteq known /\ s \in Seq(DOMAIN es)
  <2>1. s \in Seq(known) /\ IsInjective(s)
    BY <1>1 DEF RowsAre
  <2> HIDE DEF s
  <2>2. s \in Seq(DOMAIN es)
    BY <1>1, <2>1
  <2> QED  BY <2>1, <2>2, ElementsType
<1>3. t = [n \in DOMAIN s |-> es[s[n]]]
  BY DEF EntriesFiled
<1>4. new = IF s = <<>> THEN rows
            ELSE [rows EXCEPT !.date[d] = RowOf(t, OfDate(t, d)),
                              !.project[<<d, p>>] = RowOf(t, OfProject(t, d, p))]
  BY DEF RebuildDate
<1>5. RowOf(t, OfDate(t, d)) = dayRow /\ RowOf(t, OfProject(t, d, p)) = projectRow
  <2> HIDE DEF es, s, t
  <2> QED  BY <1>2, <1>3, RebuiltRow DEF es
<1>6. dayRow \in MaybeRow /\ projectRow \in MaybeRow
  BY RowOfType
<1>7. \A i \in known : i \in late \/ i \in ToSet(rows.filed[es[i].date])
  BY DEF RowsAre
<1>8. d \in days \/ dayRow = RowOf(es, OfDate(es, d) \cap known)
  <2> SUFFICES ASSUME d \notin days PROVE OfDate(es, d) \cap ToSet(s) = OfDate(es, d) \cap known
    OBVIOUS
  <2>1. \A i \in OfDate(es, d) : es[i].date = d /\ i \notin late
    BY DEF OfDate, Excused
  <2> QED  BY <1>2, <1>7, <2>1
<1>9. <<d, p>> \in keys \/ projectRow = RowOf(es, OfProject(es, d, p) \cap known)
  <2> SUFFICES ASSUME <<d, p>> \notin keys
               PROVE  OfProject(es, d, p) \cap ToSet(s) = OfProject(es, d, p) \cap known
    OBVIOUS
  <2>1. \A i \in OfProject(es, d, p) : es[i].date = d /\ i \notin late
    BY DEF OfDate, OfProject, Excused
  <2> QED  BY <1>2, <1>7, <2>1
<1>10. s = <<>> => rows.date[d] = dayRow /\ rows.project[<<d, p>>] = projectRow
  <2> SUFFICES ASSUME s = <<>> PROVE rows.date[d] = dayRow /\ rows.project[<<d, p>>] = projectRow
    OBVIOUS
  <2>1. rows.date[d] = Gone /\ rows.project[<<d, p>>] = Gone
    BY DEF RowsAre
  <2>2. ToSet(s) = {}
    BY EmptyElements
  <2>3. OfDate(es, d) \cap ToSet(s) = {} /\ OfProject(es, d, p) \cap ToSet(s) = {}
    BY <2>2
  <2>4. RowOf(es, {}) = Gone
    BY RowOfType
  <2> QED  BY <2>1, <2>3, <2>4
<1> HIDE DEF dayRow, projectRow, new, t, s, es
<1>11. /\ new.filed = rows.filed
       /\ new.date[d] = dayRow /\ \A c \in Date : c # d => new.date[c] = rows.date[c]
       /\ new.project[<<d, p>>] = projectRow
       /\ \A k \in Date \X Project : k # <<d, p>> => new.project[k] = rows.project[k]
       /\ new \in RowsType(known)
  <2>1. CASE s = <<>>
    <3>1. new = rows
      BY <1>4, <2>1
    <3> QED  BY <1>1, <1>10, <2>1, <3>1 DEF RowsType
  <2>2. CASE s # <<>>
    <3>1. new = [date |-> [rows.date EXCEPT ![d] = dayRow],
                 project |-> [rows.project EXCEPT ![<<d, p>>] = projectRow],
                 filed |-> rows.filed]
      BY <1>1, <1>4, <1>5, <2>2
    <3> QED  BY <1>1, <1>6, <3>1 DEF RowsType
  <2> QED  BY <2>1, <2>2
<1>12. ASSUME NEW c \in Date
       PROVE  /\ IsInjective(new.filed[c])
              /\ new.filed[c] = <<>> =>
                    new.date[c] = Gone /\ \A q \in Project : new.project[<<c, q>>] = Gone
  <2>1. IsInjective(new.filed[c])
    BY <1>11 DEF RowsAre
  <2>2. ASSUME new.filed[c] = <<>>
        PROVE  new.date[c] = Gone /\ \A q \in Project : new.project[<<c, q>>] = Gone
    <3>1. rows.date[c] = Gone /\ \A q \in Project : rows.project[<<c, q>>] = Gone
      BY <1>11, <2>2 DEF RowsAre
    <3>2. CASE c # d
      <4>1. \A q \in Project : <<c, q>> # <<d, p>> /\ <<c, q>> \in Date \X Project
        BY <3>2
      <4> QED  BY <1>11, <3>1, <3>2, <4>1
    <3>3. CASE c = d
      <4>1. s = <<>>
        BY <1>11, <2>2, <3>3 DEF s
      <4>2. new = rows
        BY <1>4, <4>1
      <4> QED  BY <3>1, <4>2
    <3> QED  BY <3>2, <3>3
  <2> QED  BY <2>1, <2>2
<1>13. \A i \in known \ late : i \in ToSet(new.filed[es[i].date])
  BY <1>7, <1>11
<1>14. ASSUME NEW c \in Date \ days PROVE new.date[c] = RowOf(es, OfDate(es, c) \cap known)
  <2>1. CASE c # d
    <3>1. rows.date[c] = RowOf(es, OfDate(es, c) \cap known)
      BY <2>1 DEF RowsAre, es
    <3> QED  BY <1>11, <2>1, <3>1
  <2>2. CASE c = d
    BY <1>8, <1>11, <2>2
  <2> QED  BY <2>1, <2>2
<1>15. ASSUME NEW c \in Date, NEW q \in Project, <<c, q>> \notin keys
       PROVE  new.project[<<c, q>>] = RowOf(es, OfProject(es, c, q) \cap known)
  <2>1. CASE <<c, q>> # <<d, p>>
    <3>1. rows.project[<<c, q>>] = RowOf(es, OfProject(es, c, q) \cap known)
      BY <1>15, <2>1 DEF RowsAre, es
    <3>2. <<c, q>> \in Date \X Project
      OBVIOUS
    <3> QED  BY <1>11, <2>1, <3>1, <3>2
  <2>2. CASE <<c, q>> = <<d, p>>
    <3>1. c = d /\ q = p
      BY <2>2
    <3> QED  BY <1>9, <1>11, <1>15, <3>1
  <2> QED  BY <2>1, <2>2
<1>16. RowsAre(new, es, known, late, days, keys)
  BY <1>1, <1>11, <1>12, <1>13, <1>14, <1>15 DEF RowsAre
<1> QED  BY <1>16 DEF new, es

KeyOf(e) == <<e.date, e.project>>

\* apply's Replaced: the rows that the replaced entry was in and those that the entry is in by now
\* are rebuilt.
LEMMA ReplaceRowsAre ==
    ASSUME dd.entries \in Seq(Entry), NEW rows, NEW known, NEW late, NEW days, NEW keys,
           NEW i \in known, NEW previous \in Entry,
           Excused(dd.entries, late, days, keys),
           RowsAre(rows, dd.entries, known,
                   IF previous.date # dd.entries[i].date THEN late \cup {i} ELSE late,
                   days \cup {previous.date, dd.entries[i].date},
                   keys \cup {KeyOf(previous), KeyOf(dd.entries[i])})
    PROVE  LET e == dd.entries[i]
               current == RebuildDate(FileMoved(rows, i, previous), e.date, e.project)
           IN  RowsAre(IF previous.date # e.date \/ previous.project # e.project
                       THEN RebuildDate(current, previous.date, previous.project) ELSE current,
                       dd.entries, known, late, days, keys)
<1> DEFINE es == dd.entries
           e == es[i]
           moved == FileMoved(rows, i, previous)
           current == RebuildDate(moved, e.date, e.project)
           days1 == days \cup {previous.date}
           keys1 == keys \cup {KeyOf(previous)}
<1>1. e \in Entry
  BY DEF RowsAre
<1>2. /\ e.date \in Date /\ e.project \in Project
      /\ previous.date \in Date /\ previous.project \in Project
  <2> HIDE DEF e
  <2> QED  BY <1>1 DEF Entry
<1>3. RowsAre(moved, es, known, late, days1 \cup {e.date}, keys1 \cup {KeyOf(e)})
  <2> DEFINE wide == IF previous.date # e.date THEN late \cup {i} ELSE late
             left == IF previous.date # e.date THEN wide \ {i} ELSE wide
             all == days \cup {previous.date, e.date}
             every == keys \cup {KeyOf(previous), KeyOf(e)}
  <2>0. RowsAre(rows, es, known, wide, all, every)
    OBVIOUS
  <2>1. RowsAre(moved, es, known, left, all, every)
    <3> HIDE DEF wide, all, every
    <3> QED  BY <2>0, MoveRowsAre
  <2>2. left \subseteq late /\ all = days1 \cup {e.date} /\ every = keys1 \cup {KeyOf(e)}
    OBVIOUS
  <2> HIDE DEF left, all, every, days1, keys1, moved, es
  <2>3. \A j \in known \ late : j \in known \ left
    BY <2>2
  <2> QED  BY <2>1, <2>2, <2>3 DEF RowsAre
<1>4. Excused(es, late, days1, keys1)
  BY DEF Excused
<1> HIDE DEF moved, days1, keys1
<1>5. RowsAre(current, es, known, late, days1, keys1)
  BY <1>2, <1>3, <1>4, RebuildRowsAre DEF KeyOf
<1> HIDE DEF current
<1>6. CASE previous.date # e.date \/ previous.project # e.project
  <2>1. RowsAre(RebuildDate(current, previous.date, previous.project), es, known, late, days, keys)
    BY <1>2, <1>5, RebuildRowsAre DEF days1, keys1, KeyOf
  <2> QED  BY <1>6, <2>1 DEF current, moved
<1>7. CASE previous.date = e.date /\ previous.project = e.project
  <2>1. days1 \cup {e.date} = days \cup {e.date} /\ keys1 \cup {KeyOf(e)} = keys \cup {KeyOf(e)}
    BY <1>7 DEF days1, keys1, KeyOf
  <2>2. RowsAre(current, es, known, late, days, keys)
    BY <1>2, <1>3, <2>1, RebuildRowsAre DEF current, KeyOf
  <2> QED  BY <1>7, <2>2 DEF current, moved
<1> QED  BY <1>6, <1>7

\* apply's Reset: every place of the index is known.
LEMMA IndexRowsAre ==
    ASSUME dd.entries \in Seq(Entry)
    PROVE  RowsAre(RowsOfIndex, dd.entries, DOMAIN dd.entries, {}, {}, {})
<1> DEFINE es == dd.entries
           N == Len(es)
           Is(h) == h = [n \in 0 .. N |-> IF n = 0 THEN NoRows ELSE AddEntry(h[n-1], n)]
           upTo == CHOOSE h : Is(h)
           step == [n \in 1 .. N |-> [r \in RowsType(Nat) |-> AddEntry(r, n)]]
<1>1. N \in Nat /\ DOMAIN es = 1 .. N /\ \A n \in 1 .. N : es[n] \in Entry
  OBVIOUS
<1>2. RowsOfIndex = upTo[N]
  BY DEF RowsOfIndex
<1>3. NoRows \in RowsType(Nat)
  <2>1. Gone \in MaybeRow /\ <<>> \in Seq(Nat)
    BY DEF MaybeRow
  <2> QED  BY <2>1 DEF RowsType, NoRows
<1>4. \A n \in 1 .. N : \A r \in RowsType(Nat) : step[n][r] = AddEntry(r, n)
  OBVIOUS
<1>5. ASSUME NEW n \in 1 .. N, NEW r \in RowsType(Nat) PROVE AddEntry(r, n) \in RowsType(Nat)
  <2> DEFINE e == es[n]
  <2>1. e \in Entry /\ AddEntry(r, n) =
           [date |-> [r.date EXCEPT ![e.date] = Counted(@, e)],
            project |-> [r.project EXCEPT ![<<e.date, e.project>>] = Counted(@, e)],
            filed |-> [r.filed EXCEPT ![e.date] = Append(@, n)]]
    BY <1>1 DEF AddEntry, Counted
  <2> HIDE DEF e
  <2>2. e.date \in Date /\ e.project \in Project
    BY <2>1 DEF Entry
  <2>3. /\ r.date \in [Date -> MaybeRow] /\ r.project \in [Date \X Project -> MaybeRow]
        /\ r.filed \in [Date -> Seq(Nat)]
    BY DEF RowsType
  <2>4. r.date[e.date] \in MaybeRow /\ r.project[<<e.date, e.project>>] \in MaybeRow
        /\ r.filed[e.date] \in Seq(Nat) /\ n \in Nat
    BY <1>1, <2>2, <2>3
  <2>5. \A row \in MaybeRow : Counted(row, e) \in MaybeRow
    BY <2>1, CountedIs DEF MaybeRow
  <2>6. Append(r.filed[e.date], n) \in Seq(Nat)
    BY <2>4
  <2>7. [r.date EXCEPT ![e.date] = Counted(@, e)] \in [Date -> MaybeRow]
    BY <2>3, <2>4, <2>5
  <2>8. [r.project EXCEPT ![<<e.date, e.project>>] = Counted(@, e)]
           \in [Date \X Project -> MaybeRow]
    BY <2>3, <2>4, <2>5
  <2>9. [r.filed EXCEPT ![e.date] = Append(@, n)] \in [Date -> Seq(Nat)]
    BY <2>3, <2>6
  <2> QED  BY <2>1, <2>7, <2>8, <2>9 DEF RowsType
<1> HIDE DEF step, upTo, N
<1>6. PICK g \in [0 .. N -> RowsType(Nat)] :
         g[0] = NoRows /\ \A n \in 1 .. N : g[n] = step[n][g[n-1]]
  <2>1. \A n \in 1 .. N : \A r \in RowsType(Nat) : step[n][r] \in RowsType(Nat)
    BY <1>4, <1>5
  <2>2. Recurs(RowsType(Nat), N, NoRows, step)
    BY <1>1, <1>3, <2>1, Recursion
  <2> QED  BY <2>2 DEF Recurs
<1>7. ASSUME NEW n \in 1 .. N PROVE g[n] = AddEntry(g[n-1], n)
  <2>1. n - 1 \in 0 .. N
    BY <1>1
  <2>2. g[n-1] \in RowsType(Nat)
    BY <2>1
  <2> QED  BY <1>4, <1>6, <2>2
<1>8. Is(g)
  <2>1. \A n \in 0 .. N : g[n] = IF n = 0 THEN NoRows ELSE AddEntry(g[n-1], n)
    <3> SUFFICES ASSUME NEW n \in 0 .. N, n # 0 PROVE g[n] = AddEntry(g[n-1], n)
      BY <1>6
    <3>1. n \in 1 .. N
      BY <1>1
    <3> QED  BY <1>7, <3>1
  <2>2. g = [n \in 0 .. N |-> g[n]]
    OBVIOUS
  <2> QED  BY <2>1, <2>2
<1>9. Is(upTo)
  BY <1>8 DEF upTo
<1>10. upTo[0] = NoRows /\ \A n \in 1 .. N : upTo[n] = AddEntry(upTo[n-1], n)
  <2>1. upTo[0] = NoRows
    BY <1>1, <1>9
  <2>2. ASSUME NEW n \in 1 .. N PROVE upTo[n] = AddEntry(upTo[n-1], n)
    <3>1. n \in 0 .. N /\ n # 0
      BY <1>1
    <3> QED  BY <1>9, <3>1
  <2> QED  BY <2>1, <2>2
<1> DEFINE T == {n \in 0 .. N : RowsAre(upTo[n], es, 1 .. n, {}, {}, {})}
<1>11. 0 \in T
  <2>1. RowsAre(NoRows, es, {}, {}, {}, {}) /\ 1 .. 0 = {}
    BY NoRowsAre
  <2>2. RowsAre(upTo[0], es, 1 .. 0, {}, {}, {})
    BY <1>10, <2>1
  <2> QED  BY <1>1, <2>2
<1>12. ASSUME NEW n \in 1 .. N, n - 1 \in T PROVE n \in T
  <2>1. RowsAre(upTo[n-1], es, 1 .. n - 1, {}, {}, {})
    BY <1>12
  <2>2. n \in DOMAIN es /\ n \notin 1 .. n - 1 /\ 1 .. n = (1 .. n - 1) \cup {n} /\ n \in 0 .. N
    BY <1>1
  <2>3. RowsAre(AddEntry(upTo[n-1], n), es, (1 .. n - 1) \cup {n}, {}, {}, {})
    BY <2>1, <2>2, AddRowsAre
  <2>4. RowsAre(upTo[n], es, 1 .. n, {}, {}, {})
    BY <1>10, <2>2, <2>3
  <2> QED  BY <2>2, <2>4
<1> HIDE DEF T
<1>13. \A n \in 0 .. N : n \in T
  BY <1>1, <1>11, <1>12, SetInduction
<1>14. N \in T
  BY <1>1, <1>13
<1> QED  BY <1>1, <1>2, <1>14 DEF T

----------------------------------------------------------------------------
(***************************************************************************)
(* What a set O of outcomes on their way leaves open: the places they are  *)
(* still to make known, those they are still to move, and the days and the *)
(* keys of rows they are still to rebuild.  A replacement rebuilds the     *)
(* rows of what its entry was and of what it is by the time it is applied. *)
(***************************************************************************)
Announced(O, es) == DOMAIN es \ {o.index : o \in {o \in O : o.kind = "Added"}}

Late(O, es) ==
    {o.index : o \in {o \in O : o.kind = "Replaced" /\ o.previous.date # es[o.index].date}}

Days(O, es) ==
    {d \in Date : \E o \in O : /\ o.kind = "Replaced"
                               /\ o.previous.date = d \/ es[o.index].date = d}

Keys(O, es) ==
    {k \in Date \X Project : \E o \in O : /\ o.kind = "Replaced"
                                          /\ KeyOf(o.previous) = k \/ KeyOf(es[o.index]) = k}

RowsFollow(rows, O, es) ==
    RowsAre(rows, es, Announced(O, es), Late(O, es), Days(O, es), Keys(O, es))

Placed(O, es) ==
    \A o \in O : /\ o.kind \in {"Added", "Replaced"} /\ o.index \in DOMAIN es
                 /\ o.kind = "Replaced" => o.previous \in Entry

\* A place that an outcome is still to move is of a day that it is still to rebuild.
LEMMA PendingExcused ==
    ASSUME NEW es \in Seq(Entry), NEW O, Placed(O, es)
    PROVE  Excused(es, Late(O, es), Days(O, es), Keys(O, es))
<1> SUFFICES ASSUME NEW o \in O, o.kind = "Replaced"
             PROVE  es[o.index].date \in Days(O, es) /\ KeyOf(es[o.index]) \in Keys(O, es)
  BY DEF Excused, Late, KeyOf
<1>1. es[o.index] \in Entry
  BY DEF Placed
<1>2. es[o.index].date \in Date /\ es[o.index].project \in Project
  BY <1>1 DEF Entry
<1> QED  BY <1>2 DEF Days, Keys, KeyOf

\* A new entry is not known of before its outcome is delivered.
LEMMA FeedAddedRows ==
    ASSUME NEW es \in Seq(Entry), NEW e \in Entry, NEW rows, NEW O, NEW o,
           Placed(O, es), RowsFollow(rows, O, es), o.kind = "Added", o.index = Len(es) + 1
    PROVE  Placed(O \cup {o}, Append(es, e)) /\ RowsFollow(rows, O \cup {o}, Append(es, e))
<1> DEFINE fs == Append(es, e)
           more == O \cup {o}
<1>1. /\ fs \in Seq(Entry) /\ Len(es) \in Nat /\ Len(fs) = Len(es) + 1 /\ DOMAIN es = 1 .. Len(es)
      /\ DOMAIN fs = (DOMAIN es) \cup {Len(es) + 1} /\ \A i \in DOMAIN es : fs[i] = es[i]
      /\ Len(es) + 1 \notin DOMAIN es
  OBVIOUS
<1> HIDE DEF fs
<1>2. Placed(more, fs)
  BY <1>1 DEF Placed
<1>3. Announced(more, fs) = Announced(O, es)
  <2>1. {p.index : p \in {p \in more : p.kind = "Added"}}
           = {p.index : p \in {p \in O : p.kind = "Added"}} \cup {Len(es) + 1}
    OBVIOUS
  <2> QED  BY <1>1, <2>1 DEF Announced
<1>4. \A p \in more : p.kind = "Replaced" <=> p \in O /\ p.kind = "Replaced"
  OBVIOUS
<1>5. \A p \in O : fs[p.index] = es[p.index]
  BY <1>1 DEF Placed
<1>6. Late(more, fs) = Late(O, es)
  <2>1. {p \in more : p.kind = "Replaced" /\ p.previous.date # fs[p.index].date}
           = {p \in O : p.kind = "Replaced" /\ p.previous.date # es[p.index].date}
    BY <1>4, <1>5
  <2> QED  BY <2>1 DEF Late
<1>7. Days(more, fs) = Days(O, es)
  BY <1>4, <1>5 DEF Days
<1>8. Keys(more, fs) = Keys(O, es)
  BY <1>4, <1>5 DEF Keys
<1> DEFINE known == Announced(O, es)
<1>9. known \in SUBSET DOMAIN es
  BY DEF Announced
<1> HIDE DEF more, known
<1>10. RowsAre(rows, es, known, Late(O, es), Days(O, es), Keys(O, es))
  BY DEF RowsFollow, known
<1>11. \A places \in SUBSET DOMAIN es : RowOf(fs, places) = RowOf(es, places)
  BY <1>1, RowOfSame
<1>12. \A d : OfDate(fs, d) \cap known = OfDate(es, d) \cap known
  BY <1>1, <1>9 DEF OfDate
<1>13. \A d, p : OfProject(fs, d, p) \cap known = OfProject(es, d, p) \cap known
  BY <1>1, <1>9 DEF OfProject, OfDate
<1>14. /\ \A d : RowOf(fs, OfDate(fs, d) \cap known) = RowOf(es, OfDate(es, d) \cap known)
       /\ \A d, p : RowOf(fs, OfProject(fs, d, p) \cap known)
                       = RowOf(es, OfProject(es, d, p) \cap known)
  BY <1>9, <1>11, <1>12, <1>13
<1>15. known \in SUBSET DOMAIN fs /\ \A i \in known : fs[i] = es[i]
  BY <1>1, <1>9
<1>16. RowsAre(rows, fs, known, Late(O, es), Days(O, es), Keys(O, es))
  BY <1>10, <1>14, <1>15 DEF RowsAre
<1> QED  BY <1>2, <1>3, <1>6, <1>7, <1>8, <1>16 DEF RowsFollow, more, fs, known

\* A replaced entry leaves the rows it was in and those it comes to be in to its outcome.
LEMMA FeedReplacedRows ==
    ASSUME NEW es \in Seq(Entry), NEW e \in Entry, NEW rows, NEW O, NEW o, NEW at \in DOMAIN es,
           Placed(O, es), RowsFollow(rows, O, es),
           o.kind = "Replaced", o.index = at, o.previous = es[at]
    PROVE  /\ Placed(O \cup {o}, [es EXCEPT ![at] = e])
           /\ RowsFollow(rows, O \cup {o}, [es EXCEPT ![at] = e])
<1> DEFINE fs == [es EXCEPT ![at] = e]
           more == O \cup {o}
<1>1. /\ fs \in Seq(Entry) /\ Len(fs) = Len(es) /\ DOMAIN fs = DOMAIN es /\ fs[at] = e
      /\ \A i \in DOMAIN es : i # at => fs[i] = es[i]
  OBVIOUS
<1> HIDE DEF fs
<1>2. es[at] \in Entry /\ o \in more /\ \A p \in O : p \in more
  OBVIOUS
<1>3. Placed(more, fs)
  BY <1>1, <1>2 DEF Placed
<1>4. Announced(more, fs) = Announced(O, es)
  <2>1. {p \in more : p.kind = "Added"} = {p \in O : p.kind = "Added"}
    OBVIOUS
  <2> QED  BY <1>1, <2>1 DEF Announced
<1> HIDE DEF more
<1> DEFINE known == Announced(O, es)
<1>5. known \in SUBSET DOMAIN es
  BY DEF Announced
<1> HIDE DEF known
<1>6. RowsAre(rows, es, known, Late(O, es), Days(O, es), Keys(O, es))
  BY DEF RowsFollow, known
<1>7. ASSUME NEW i \in known \ Late(more, fs) PROVE i \in ToSet(rows.filed[fs[i].date])
  <2>1. fs[i].date = es[i].date
    <3>1. CASE i # at
      BY <1>1, <1>5, <3>1
    <3>2. CASE i = at
      BY <1>2, <1>7, <3>2 DEF Late
    <3> QED  BY <3>1, <3>2
  <2>2. i \notin Late(O, es)
    <3> SUFFICES ASSUME NEW p \in O, p.kind = "Replaced", p.previous.date # es[p.index].date,
                        i = p.index
                 PROVE  FALSE
      BY DEF Late
    <3> QED  BY <1>2, <1>7, <2>1 DEF Late
  <2> QED  BY <1>6, <2>1, <2>2 DEF RowsAre
<1>8. ASSUME NEW d \in Date \ Days(more, fs)
      PROVE  rows.date[d] = RowOf(fs, OfDate(fs, d) \cap known)
  <2>1. es[at].date # d /\ e.date # d
    BY <1>1, <1>2, <1>8 DEF Days
  <2>2. d \notin Days(O, es)
    <3> SUFFICES ASSUME NEW p \in O, p.kind = "Replaced",
                        p.previous.date = d \/ es[p.index].date = d
                 PROVE  FALSE
      BY DEF Days
    <3>1. p.index \in DOMAIN es /\ p \in more
      BY <1>2 DEF Placed
    <3>2. p.previous.date # d /\ fs[p.index].date # d
      BY <1>8, <3>1 DEF Days
    <3> QED  BY <1>1, <2>1, <3>1, <3>2
  <2>3. rows.date[d] = RowOf(es, OfDate(es, d) \cap known)
    BY <1>6, <2>2 DEF RowsAre
  <2>4. OfDate(fs, d) = OfDate(es, d) /\ at \notin OfDate(es, d)
    BY <1>1, <2>1 DEF OfDate
  <2> DEFINE places == OfDate(es, d) \cap known
  <2>5. places \in SUBSET DOMAIN es /\ \A i \in places : fs[i] = es[i]
    BY <1>1, <1>5, <2>4
  <2> HIDE DEF places
  <2>6. RowOf(fs, places) = RowOf(es, places)
    BY <1>1, <2>5, RowOfSame
  <2> QED  BY <2>3, <2>4, <2>6 DEF places
<1>9. ASSUME NEW d \in Date, NEW q \in Project, <<d, q>> \notin Keys(more, fs)
      PROVE  rows.project[<<d, q>>] = RowOf(fs, OfProject(fs, d, q) \cap known)
  <2>1. KeyOf(es[at]) # <<d, q>> /\ KeyOf(e) # <<d, q>>
    BY <1>1, <1>2, <1>9 DEF Keys
  <2>2. <<d, q>> \notin Keys(O, es)
    <3> SUFFICES ASSUME NEW p \in O, p.kind = "Replaced",
                        KeyOf(p.previous) = <<d, q>> \/ KeyOf(es[p.index]) = <<d, q>>
                 PROVE  FALSE
      BY DEF Keys
    <3>1. p.index \in DOMAIN es /\ p \in more
      BY <1>2 DEF Placed
    <3>2. KeyOf(p.previous) # <<d, q>> /\ KeyOf(fs[p.index]) # <<d, q>>
      BY <1>9, <3>1 DEF Keys
    <3> QED  BY <1>1, <2>1, <3>1, <3>2
  <2>3. rows.project[<<d, q>>] = RowOf(es, OfProject(es, d, q) \cap known)
    BY <1>6, <2>2 DEF RowsAre
  <2>4. OfProject(fs, d, q) = OfProject(es, d, q) /\ at \notin OfProject(es, d, q)
    <3>1. \A x : x \in OfProject(es, d, q) <=> x \in DOMAIN es /\ KeyOf(es[x]) = <<d, q>>
      BY DEF OfProject, OfDate, KeyOf
    <3>2. \A x : x \in OfProject(fs, d, q) <=> x \in DOMAIN fs /\ KeyOf(fs[x]) = <<d, q>>
      BY DEF OfProject, OfDate, KeyOf
    <3>3. \A x : x \in OfProject(fs, d, q) <=> x \in OfProject(es, d, q)
      BY <1>1, <2>1, <3>1, <3>2
    <3> QED  BY <2>1, <3>1, <3>3
  <2> DEFINE places == OfProject(es, d, q) \cap known
  <2>5. places \in SUBSET DOMAIN es /\ \A i \in places : fs[i] = es[i]
    BY <1>1, <1>5, <2>4
  <2> HIDE DEF places
  <2>6. RowOf(fs, places) = RowOf(es, places)
    BY <1>1, <2>5, RowOfSame
  <2> QED  BY <2>3, <2>4, <2>6 DEF places
<1>10. RowsAre(rows, fs, known, Late(more, fs), Days(more, fs), Keys(more, fs))
  BY <1>1, <1>5, <1>6, <1>7, <1>8, <1>9 DEF RowsAre
<1> QED  BY <1>3, <1>4, <1>10 DEF RowsFollow, more, fs, known

\* apply's Added makes its place known ...
LEMMA DeliverAddedRows ==
    ASSUME dd.entries \in Seq(Entry), NEW rows, NEW O, NEW o,
           Placed(O \cup {o}, dd.entries), RowsFollow(rows, O \cup {o}, dd.entries),
           o.kind = "Added", \A p \in O : p.kind = "Added" => p.index # o.index
    PROVE  RowsFollow(AddEntry(rows, o.index), O, dd.entries)
<1> DEFINE es == dd.entries
           all == O \cup {o}
           i == o.index
<1>1. i \in DOMAIN es
  BY DEF Placed
<1> HIDE DEF es
<1>2. i \notin Announced(all, es)
  BY DEF Announced
<1>3. Announced(O, es) = Announced(all, es) \cup {i}
  BY <1>1 DEF Announced
<1>4. \A p : p \in all /\ p.kind = "Replaced" <=> p \in O /\ p.kind = "Replaced"
  OBVIOUS
<1> HIDE DEF all, i
<1>5. Late(all, es) = Late(O, es)
  <2>1. {p \in all : p.kind = "Replaced" /\ p.previous.date # es[p.index].date}
           = {p \in O : p.kind = "Replaced" /\ p.previous.date # es[p.index].date}
    BY <1>4
  <2> QED  BY <2>1 DEF Late
<1>6. Days(all, es) = Days(O, es)
  BY <1>4 DEF Days
<1>7. Keys(all, es) = Keys(O, es)
  BY <1>4 DEF Keys
<1>8. RowsAre(rows, es, Announced(all, es), Late(O, es), Days(O, es), Keys(O, es))
  BY <1>5, <1>6, <1>7 DEF RowsFollow, all, es
<1>9. RowsAre(AddEntry(rows, i), es, Announced(all, es) \cup {i},
              Late(O, es), Days(O, es), Keys(O, es))
  BY <1>1, <1>2, <1>8, AddRowsAre DEF es
<1> QED  BY <1>3, <1>9 DEF RowsFollow, es, i

\* ... and its Replaced rebuilds what no later outcome is to rebuild.
LEMMA DeliverReplacedRows ==
    ASSUME dd.entries \in Seq(Entry), NEW rows, NEW O, NEW o,
           Placed(O \cup {o}, dd.entries), RowsFollow(rows, O \cup {o}, dd.entries),
           o.kind = "Replaced", \A p \in O : p.kind = "Added" => p.index # o.index
    PROVE  LET e == dd.entries[o.index]
               current == RebuildDate(FileMoved(rows, o.index, o.previous), e.date, e.project)
           IN  RowsFollow(IF o.previous.date # e.date \/ o.previous.project # e.project
                          THEN RebuildDate(current, o.previous.date, o.previous.project)
                          ELSE current,
                          O, dd.entries)
<1> DEFINE es == dd.entries
           all == O \cup {o}
           i == o.index
           e == es[i]
           previous == o.previous
           known == Announced(O, es)
           late == Late(O, es)
           days == Days(O, es)
           keys == Keys(O, es)
           wide == IF previous.date # e.date THEN late \cup {i} ELSE late
           current == RebuildDate(FileMoved(rows, i, previous), e.date, e.project)
           last == IF previous.date # e.date \/ previous.project # e.project
                   THEN RebuildDate(current, previous.date, previous.project) ELSE current
<1>1. i \in DOMAIN es /\ previous \in Entry
  BY DEF Placed
<1>2. i \in known /\ Announced(all, es) = known
  <2>1. {p \in all : p.kind = "Added"} = {p \in O : p.kind = "Added"}
    OBVIOUS
  <2> QED  BY <1>1, <2>1 DEF Announced
<1>3. Excused(es, late, days, keys)
  <2>1. Placed(O, es)
    BY DEF Placed
  <2> QED  BY <2>1, PendingExcused
<1>4. Late(all, es) = wide
  <2>1. {p \in all : p.kind = "Replaced" /\ p.previous.date # es[p.index].date}
           = {p \in O : p.kind = "Replaced" /\ p.previous.date # es[p.index].date}
                \cup (IF previous.date # e.date THEN {o} ELSE {})
    OBVIOUS
  <2> QED  BY <2>1 DEF Late
<1>5. Days(all, es) \subseteq days \cup {previous.date, e.date}
  BY DEF Days
<1>6. Keys(all, es) \subseteq keys \cup {KeyOf(previous), KeyOf(e)}
  BY DEF Keys
<1>7. RowsAre(rows, es, known, wide, Days(all, es), Keys(all, es))
  BY <1>2, <1>4 DEF RowsFollow
<1> HIDE DEF all, known, late, days, keys, wide, es, e, previous, i
<1>8. RowsAre(rows, es, known, wide, days \cup {previous.date, e.date},
              keys \cup {KeyOf(previous), KeyOf(e)})
  BY <1>5, <1>6, <1>7 DEF RowsAre
<1>9. RowsAre(last, es, known, late, days, keys)
  BY <1>1, <1>2, <1>3, <1>8, ReplaceRowsAre DEF wide, es, e
<1> QED  BY <1>9 DEF RowsFollow, known, late, days, keys, es, e, previous, i

----------------------------------------------------------------------------
(***************************************************************************)
(* The invariant: unless a rebuild has replaced the index and its reset is *)
(* still to be applied, the rows follow the index but for what the         *)
(* outcomes on their way leave open.                                       *)
(***************************************************************************)
\* No outcome concerns a place that a later one is still to make known.
InOrder(os) ==
    \A j, k \in DOMAIN os : j < k /\ os[k].kind = "Added" => os[j].index # os[k].index

RowsInv ==
    /\ outcomes \in Seq(OutcomeType)
    /\ pc \in {"boot", "idle"} => outcomes = <<>>
    /\ ResetAhead => pc = "deliver" /\ Len(outcomes) = 1
    /\ Rebuilding \/ /\ Placed(ToSet(outcomes), dd.entries)
                     /\ InOrder(outcomes)
                     /\ RowsFollow(Rows, ToSet(outcomes), dd.entries)

\* The variables, and the rows as a record.
LEMMA SetRowsIs ==
    ASSUME NEW rows, NEW known, rows \in RowsType(known), SetRows(rows)
    PROVE  Rows' = rows
<1>1. rows = [date |-> rows.date, project |-> rows.project, filed |-> rows.filed]
  BY DEF RowsType
<1> QED  BY <1>1 DEF SetRows, Rows

\* A step that touches neither the index nor the outcomes nor the rows.
LEMMA RowsIdle ==
    ASSUME RowsInv, UNCHANGED <<dd, outcomes, rowVars>>, ResetAhead => pc' = "deliver",
           Rebuilding => Rebuilding', pc' \in {"boot", "idle"} => outcomes = <<>>
    PROVE  RowsInv'
<1>1. ResetAhead' <=> ResetAhead
  BY DEF ResetAhead
<1>2. Rows' = Rows
  BY DEF Rows, rowVars
<1>3. CASE Rebuilding
  BY <1>1, <1>3 DEF RowsInv
<1>4. CASE ~Rebuilding
  <2>1. RowsFollow(Rows, ToSet(outcomes), dd.entries)'
           = RowsFollow(Rows, ToSet(outcomes), dd.entries)
    BY <1>2 DEF RowsFollow, RowsAre, Announced, Late, Days, Keys
  <2> QED  BY <1>1, <1>4, <2>1 DEF RowsInv, Placed, InOrder
<1> QED  BY <1>3, <1>4

\* A fed entry leaves open what its outcome says.
LEMMA FeedEntryRows ==
    ASSUME Inv, RowsInv, FeedEntry, UNCHANGED rowVars
    PROVE  RowsInv'
<1> DEFINE e == Head(pending).entry
           s == Head(pending).session
           k == Identity(e, s)
           at == Place(dd, e)
           historical == current_occurrences[k] + 1 <= known_occurrences[k]
<1>1. pc = "feed" /\ UNCHANGED <<pc, task>> /\ ~ResetAhead /\ Rows' = Rows
  BY DEF FeedEntry, RowsInv, Rows, rowVars
<1>2. e \in Entry /\ s \in Session
  BY FeedEntryIs
<1>3. /\ dd.entries \in Seq(Entry)
      /\ outcomes \in Seq(OutcomeType) /\ outcomes' \in Seq(OutcomeType)
  BY OutcomesType DEF Inv, TypeOK, RowsInv
<1>4. CASE task = "rebuild"
  <2>1. UNCHANGED outcomes
    BY <1>4, FeedEntryIs DEF Sink
  <2> QED  BY <1>1, <1>3, <1>4, <2>1 DEF RowsInv, Rebuilding, ResetAhead
<1>5. CASE task # "rebuild"
  <2>2. /\ Placed(ToSet(outcomes), dd.entries) /\ InOrder(outcomes)
        /\ RowsFollow(Rows, ToSet(outcomes), dd.entries)
    BY <1>1, <1>5 DEF RowsInv, Rebuilding
  <2>3. \A o : Sink(o) => outcomes' = Append(outcomes, o)
    BY <1>5 DEF Sink
  <2>4. CASE dd' = dd /\ UNCHANGED outcomes
    <3>1. Rebuilding => Rebuilding'
      BY <1>1, <1>5 DEF Rebuilding
    <3> QED  BY <1>1, <2>4, <3>1, RowsIdle
  <2>5. ASSUME NEW o \in OutcomeType, outcomes' = Append(outcomes, o), o.kind # "Reset",
               o.kind = "Added" => \A p \in ToSet(outcomes) : p.index # o.index,
               Placed(ToSet(outcomes) \cup {o}, dd'.entries),
               RowsFollow(Rows, ToSet(outcomes) \cup {o}, dd'.entries)
        PROVE  RowsInv'
    <3>1. ToSet(outcomes') = ToSet(outcomes) \cup {o}
      BY <1>3, <2>5, Enqueued
    <3>2. /\ DOMAIN outcomes' = 1 .. Len(outcomes) + 1 /\ Len(outcomes) \in Nat
          /\ DOMAIN outcomes = 1 .. Len(outcomes)
          /\ outcomes'[Len(outcomes) + 1] = o
          /\ \A j \in DOMAIN outcomes : outcomes'[j] = outcomes[j]
      BY <1>3, <2>5
    <3>3. InOrder(outcomes')
      <4> SUFFICES ASSUME NEW j \in DOMAIN outcomes', NEW l \in DOMAIN outcomes', j < l,
                          outcomes'[l].kind = "Added"
                   PROVE  outcomes'[j].index # outcomes'[l].index
        BY DEF InOrder
      <4>1. j \in DOMAIN outcomes /\ (l \in DOMAIN outcomes \/ l = Len(outcomes) + 1)
        BY <3>2
      <4>2. CASE l \in DOMAIN outcomes
        BY <2>2, <3>2, <4>1, <4>2 DEF InOrder
      <4>3. CASE l = Len(outcomes) + 1
        <5>1. outcomes[j] \in ToSet(outcomes)
          BY <4>1 DEF ToSet
        <5> QED  BY <2>5, <3>2, <4>1, <4>3, <5>1
      <4> QED  BY <4>1, <4>2, <4>3
    <3>4. ~ResetAhead'
      BY <1>1, <2>5, <3>2 DEF ResetAhead
    <3> QED  BY <1>1, <1>3, <2>5, <3>1, <3>3, <3>4 DEF RowsInv
  <2>6. CASE /\ at = Len(dd.entries) + 1
             /\ dd'.entries = Append(dd.entries, e)
             /\ Sink(AddedOutcome(e, s, historical))
    <3> DEFINE o == AddedOutcome(e, s, historical)
    <3>1. o.kind = "Added" /\ o.index = Len(dd.entries) + 1
      BY <2>6 DEF AddedOutcome
    <3>2. outcomes' = Append(outcomes, o)
      BY <2>3, <2>6
    <3> HIDE DEF o, e, s
    <3>3. o \in OutcomeType
      <4>1. Len(outcomes') = Len(outcomes) + 1 /\ outcomes'[Len(outcomes) + 1] = o
            /\ Len(outcomes) \in Nat
        BY <1>3, <3>2
      <4> QED  BY <1>3, <4>1
    <3>4. \A p \in ToSet(outcomes) : p.index # o.index
      <4>1. \A p \in ToSet(outcomes) : p.index \in 1 .. Len(dd.entries)
        BY <1>3, <2>2 DEF Placed
      <4> QED  BY <1>3, <3>1, <4>1
    <3>5. /\ Placed(ToSet(outcomes) \cup {o}, dd'.entries)
          /\ RowsFollow(Rows, ToSet(outcomes) \cup {o}, dd'.entries)
      BY <1>2, <1>3, <2>2, <2>6, <3>1, FeedAddedRows
    <3> QED  BY <2>5, <3>1, <3>2, <3>3, <3>4, <3>5
  <2>7. CASE /\ at \in DOMAIN dd.entries
             /\ dd'.entries = [dd.entries EXCEPT ![at] = e]
             /\ Sink(ReplacedOutcome(e, s))
    <3> DEFINE o == ReplacedOutcome(e, s)
    <3>1. o.kind = "Replaced" /\ o.index = at /\ o.previous = dd.entries[at]
      BY DEF ReplacedOutcome
    <3>2. outcomes' = Append(outcomes, o)
      BY <2>3, <2>7
    <3> HIDE DEF o, at, e, s
    <3>3. o \in OutcomeType
      <4>1. Len(outcomes') = Len(outcomes) + 1 /\ outcomes'[Len(outcomes) + 1] = o
            /\ Len(outcomes) \in Nat
        BY <1>3, <3>2
      <4> QED  BY <1>3, <4>1
    <3>4. /\ Placed(ToSet(outcomes) \cup {o}, dd'.entries)
          /\ RowsFollow(Rows, ToSet(outcomes) \cup {o}, dd'.entries)
      <4> DEFINE fs == [dd.entries EXCEPT ![at] = e]
                 O == ToSet(outcomes)
      <4>1. /\ dd.entries \in Seq(Entry) /\ e \in Entry /\ at \in DOMAIN dd.entries
            /\ Placed(O, dd.entries) /\ RowsFollow(Rows, O, dd.entries)
        BY <1>2, <1>3, <2>2, <2>7
      <4> HIDE DEF O
      <4>2. Placed(O \cup {o}, fs) /\ RowsFollow(Rows, O \cup {o}, fs)
        BY <3>1, <4>1, FeedReplacedRows
      <4> HIDE DEF fs
      <4>3. dd'.entries = fs
        BY <2>7 DEF fs
      <4> QED  BY <4>2, <4>3 DEF O
    <3>5. o.kind # "Reset" /\ o.kind # "Added"
      BY <3>1
    <3> QED  BY <2>5, <3>2, <3>3, <3>4, <3>5
  <2> QED  BY <2>4, <2>6, <2>7, FeedEntryIs
<1> QED  BY <1>4, <1>5

\* Applying an outcome settles what it left open.
LEMMA ApplyRows ==
    ASSUME Inv, RowsInv, Apply
    PROVE  RowsInv'
<1> DEFINE o == Head(outcomes)
           O == ToSet(Tail(outcomes))
           Ready == /\ Placed(O \cup {o}, dd.entries) /\ RowsFollow(Rows, O \cup {o}, dd.entries)
                    /\ \A p \in O : p.kind = "Added" => p.index # o.index
<1>1. /\ pc = "deliver" /\ outcomes # <<>> /\ outcomes' = Tail(outcomes)
      /\ UNCHANGED <<pc, dd>>
      /\ ApplyReset \/ ApplyAdded \/ ApplyReplaced
  BY DEF Apply, Deliver, indexVars
<1>2. outcomes \in Seq(OutcomeType) /\ dd.entries \in Seq(Entry)
  BY DEF RowsInv, Inv, TypeOK
<1>3. o \in OutcomeType /\ outcomes' \in Seq(OutcomeType) /\ ToSet(outcomes) = O \cup {o}
  BY <1>1, <1>2, Dequeued
<1>4. /\ Len(outcomes) \in Nat /\ 1 \in DOMAIN outcomes /\ o = outcomes[1]
      /\ Len(outcomes') = Len(outcomes) - 1
      /\ DOMAIN outcomes = 1 .. Len(outcomes) /\ DOMAIN outcomes' = 1 .. Len(outcomes) - 1
      /\ \A j \in 1 .. Len(outcomes) - 1 : outcomes'[j] = outcomes[j+1]
  BY <1>1, <1>2
<1> HIDE DEF o
<1>5. CASE ApplyReset
  <2>1. o.kind = "Reset" /\ SetRows(RowsOfIndex)
    BY <1>5 DEF ApplyReset, o
  <2>2. outcomes' = <<>>
    BY <1>1, <1>4, <2>1 DEF RowsInv, ResetAhead
  <2>3. RowsAre(RowsOfIndex, dd.entries, DOMAIN dd.entries, {}, {}, {})
    BY <1>2, IndexRowsAre
  <2>4. Rows' = RowsOfIndex
    BY <2>1, <2>3, SetRowsIs DEF RowsAre
  <2>5. ToSet(outcomes') = {}
    BY <2>2, EmptyElements
  <2>6. /\ Announced({}, dd.entries) = DOMAIN dd.entries /\ Late({}, dd.entries) = {}
        /\ Days({}, dd.entries) = {} /\ Keys({}, dd.entries) = {} /\ Placed({}, dd.entries)
    BY DEF Announced, Late, Days, Keys, Placed
  <2>7. RowsFollow(RowsOfIndex, {}, dd.entries)
    BY <2>3, <2>6 DEF RowsFollow
  <2>8. DOMAIN outcomes' = {}
    BY <2>2
  <2>9. InOrder(outcomes') /\ ~ResetAhead'
    BY <2>8 DEF InOrder, ResetAhead
  <2> QED  BY <1>1, <1>3, <2>4, <2>5, <2>6, <2>7, <2>9 DEF RowsInv
<1>6. ASSUME o.kind # "Reset", NEW rows, SetRows(rows),
             Ready => RowsFollow(rows, O, dd.entries)
      PROVE  RowsInv'
  <2>1. ~ResetAhead /\ ~Rebuilding
    BY <1>1, <1>4, <1>6 DEF RowsInv, ResetAhead, Rebuilding
  <2>2. /\ Placed(O \cup {o}, dd.entries) /\ InOrder(outcomes)
        /\ RowsFollow(Rows, O \cup {o}, dd.entries)
    BY <1>3, <2>1 DEF RowsInv
  <2>3. \A p \in O : p.kind = "Added" => p.index # o.index
    <3> SUFFICES ASSUME NEW j \in DOMAIN outcomes', outcomes'[j].kind = "Added"
                 PROVE  outcomes'[j].index # o.index
      BY <1>1 DEF ToSet
    <3>1. j + 1 \in DOMAIN outcomes /\ 1 < j + 1 /\ outcomes'[j] = outcomes[j+1]
      BY <1>4
    <3> QED  BY <1>4, <2>2, <3>1 DEF InOrder
  <2>4. RowsFollow(rows, O, dd.entries)
    BY <1>6, <2>2, <2>3
  <2>5. Rows' = rows
    BY <1>6, <2>4, SetRowsIs DEF RowsFollow, RowsAre
  <2>6. InOrder(outcomes')
    <3> SUFFICES ASSUME NEW j \in DOMAIN outcomes', NEW l \in DOMAIN outcomes', j < l,
                        outcomes'[l].kind = "Added"
                 PROVE  outcomes'[j].index # outcomes'[l].index
      BY DEF InOrder
    <3>1. /\ j + 1 \in DOMAIN outcomes /\ l + 1 \in DOMAIN outcomes /\ j + 1 < l + 1
          /\ outcomes'[j] = outcomes[j+1] /\ outcomes'[l] = outcomes[l+1]
      BY <1>4
    <3> QED  BY <2>2, <3>1 DEF InOrder
  <2>7. ~ResetAhead'
    BY <1>4, <2>1 DEF ResetAhead
  <2>8. Placed(O, dd.entries)
    BY <2>2 DEF Placed
  <2> QED  BY <1>1, <1>3, <2>4, <2>5, <2>6, <2>7, <2>8 DEF RowsInv
<1>7. CASE ApplyAdded
  <2>1. o.kind = "Added" /\ SetRows(AddEntry(Rows, o.index))
    BY <1>7 DEF ApplyAdded, o
  <2> QED  BY <1>2, <1>6, <2>1, DeliverAddedRows
<1>8. CASE ApplyReplaced
  <2> DEFINE e == dd.entries[o.index]
             current == RebuildDate(FileMoved(Rows, o.index, o.previous), e.date, e.project)
             last == IF o.previous.date # e.date \/ o.previous.project # e.project
                     THEN RebuildDate(current, o.previous.date, o.previous.project) ELSE current
  <2>1. o.kind = "Replaced" /\ SetRows(last)
    BY <1>8 DEF ApplyReplaced, o
  <2>2. Ready => RowsFollow(last, O, dd.entries)
    BY <1>2, <2>1, DeliverReplacedRows
  <2> HIDE DEF last
  <2> QED  BY <1>6, <2>1, <2>2
<1> QED  BY <1>1, <1>5, <1>7, <1>8

\* Every step of the daemon and of the agents.
LEMMA StepRows == Inv /\ RowsInv /\ [ResidentNext]_residentVars => RowsInv'
<1> SUFFICES ASSUME Inv, RowsInv, [ResidentNext]_residentVars PROVE RowsInv'
  OBVIOUS
<1>1. ResetAhead => pc = "deliver"
  BY DEF RowsInv
<1>2. CASE ResidentAgent
  <2>1. UNCHANGED <<dd, outcomes, rowVars, pc, task>>
    BY <1>2 DEF ResidentAgent, Agent, AppendLine, EndLine, Rewrite, Replace, Delete, Change,
                indexVars
  <2> QED  BY <1>1, <2>1, RowsIdle DEF RowsInv, Rebuilding, ResetAhead
<1>3. CASE UNCHANGED residentVars
  <2>1. UNCHANGED <<dd, outcomes, rowVars, pc, task>>
    BY <1>3 DEF residentVars, vars, indexVars
  <2> QED  BY <1>1, <2>1, RowsIdle DEF RowsInv, Rebuilding, ResetAhead
<1>4. ASSUME UNCHANGED <<dd, outcomes, rowVars>>, pc # "deliver",
             ~(pc = "feed" /\ task = "rebuild"), pc' \notin {"boot", "idle"}
      PROVE  RowsInv'
  BY <1>1, <1>4, RowsIdle DEF Rebuilding
<1>5. CASE (Seed \/ PollPaths \/ Reading \/ Sleep) /\ UNCHANGED rowVars
  <2>1. CASE Seed \/ PollPaths
    <3>1. UNCHANGED <<dd, outcomes>> /\ pc \in {"boot", "idle"} /\ pc' = "read"
      BY <2>1 DEF Seed, PollPaths, StartReads, indexVars
    <3> QED  BY <1>4, <1>5, <3>1
  <2>2. CASE \E f \in File : \/ SkipFile(f) \/ OpenFile(f) \/ ReadNothing(f) \/ ReadSnapshot(f)
                             \/ FeedFile(f) \/ FindRewritten(f)
    <3>1. UNCHANGED <<dd, outcomes>> /\ pc = "read" /\ pc' \in {"read", "feed"}
      BY <2>2 DEF SkipFile, OpenFile, ReadNothing, ReadSnapshot, FeedFile, FindRewritten, IsNext,
                  StartReads, indexVars
    <3> QED  BY <1>4, <1>5, <3>1
  <2>3. CASE FeedSeed \/ RetryLater \/ EndScan
    <3>1. UNCHANGED <<dd, outcomes>> /\ pc = "read" /\ pc' \in {"feed", "deliver"}
      BY <2>3 DEF FeedSeed, RetryLater, EndScan, indexVars
    <3> QED  BY <1>4, <1>5, <3>1
  <2>4. CASE Rebuild
    <3>1. UNCHANGED outcomes /\ pc = "read" /\ pc' = "feed" /\ task' = "rebuild"
      BY <2>4 DEF Rebuild
    <3> QED  BY <1>1, <3>1 DEF RowsInv, Rebuilding, ResetAhead
  <2>5. CASE FeedEntry
    BY <1>5, <2>5, FeedEntryRows
  <2>6. CASE EndFeed
    <3>1. CASE task = "rebuild"
      <4>1. outcomes' = <<[kind |-> "Reset"]>> /\ pc' = "deliver"
        BY <2>6, <3>1 DEF EndFeed
      <4>2. Len(outcomes') = 1 /\ 1 \in DOMAIN outcomes' /\ outcomes'[1].kind = "Reset"
        BY <4>1
      <4>3. ResetAhead'
        BY <4>2 DEF ResetAhead
      <4>4. outcomes' \in Seq(OutcomeType)
        <5>1. [kind |-> "Reset"] \in OutcomeType
          BY DEF OutcomeType
        <5> QED  BY <4>1, <5>1
      <4> QED  BY <4>1, <4>2, <4>3, <4>4 DEF RowsInv, Rebuilding
    <3>2. CASE task # "rebuild"
      <4>1. UNCHANGED <<dd, outcomes>> /\ pc = "feed" /\ pc' \in {"read", "deliver"}
        BY <2>6, <3>2 DEF EndFeed, indexVars
      <4> QED  BY <1>4, <1>5, <3>2, <4>1
    <3> QED  BY <3>1, <3>2
  <2>7. CASE Sleep
    <3>1. UNCHANGED <<dd, outcomes>> /\ outcomes = <<>> /\ pc = "deliver"
      BY <2>7 DEF Sleep, indexVars
    <3>2. ~ResetAhead /\ ~Rebuilding
      BY <3>1 DEF ResetAhead, Rebuilding
    <3> QED  BY <1>5, <3>1, <3>2, RowsIdle
  <2> QED  BY <1>5, <2>1, <2>2, <2>3, <2>4, <2>5, <2>6, <2>7 DEF Reading
<1>6. CASE Apply
  BY <1>6, ApplyRows
<1> QED  BY <1>2, <1>3, <1>5, <1>6 DEF ResidentNext, ResidentPoll

\* The daemon takes the steps of ClaudeWatch.
LEMMA ResidentIsWatch ==
    /\ ResidentInit => Init
    /\ [ResidentNext]_residentVars => [Next]_vars
<1>1. ResidentInit => Init
  BY DEF ResidentInit
<1>2. ResidentNext => Next
  BY DEF ResidentNext, ResidentAgent, ResidentPoll, Apply, Next, Index
<1>3. UNCHANGED residentVars => UNCHANGED vars
  BY DEF residentVars
<1> QED  BY <1>1, <1>2, <1>3

\* Before anything is read there are no rows and nothing is open.
LEMMA ResidentStarts == ResidentInit => RowsInv
<1> SUFFICES ASSUME ResidentInit PROVE RowsInv
  OBVIOUS
<1>1. /\ outcomes = <<>> /\ dd.entries = <<>> /\ pc = "boot" /\ Rows = NoRows
  BY DEF ResidentInit, Init, EmptyIndex, Rows, NoRows
<1>2. ToSet(outcomes) = {} /\ DOMAIN outcomes = {} /\ DOMAIN dd.entries = {}
  BY <1>1, EmptyElements
<1>3. /\ Announced({}, dd.entries) = {} /\ Late({}, dd.entries) = {}
      /\ Days({}, dd.entries) = {} /\ Keys({}, dd.entries) = {} /\ Placed({}, dd.entries)
  BY <1>2 DEF Announced, Late, Days, Keys, Placed
<1>4. dd.entries \in Seq(Entry)
  BY <1>1
<1>5. RowsFollow(Rows, {}, dd.entries)
  BY <1>1, <1>3, <1>4, NoRowsAre DEF RowsFollow
<1>6. InOrder(outcomes) /\ ~ResetAhead
  BY <1>2 DEF InOrder, ResetAhead
<1>7. outcomes \in Seq(OutcomeType)
  BY <1>1
<1> QED  BY <1>1, <1>2, <1>3, <1>5, <1>6, <1>7 DEF RowsInv

\* Whatever a poll found, in whatever order and however late its outcomes were applied, the rows
\* that the daemon answers from are those of the entries the index keeps (DailyRows::apply of
\* resident.rs).
THEOREM RowsOfEntries == ResidentSpec => []RowsMatchIndex
<1>1. ResidentSpec => [](Inv /\ RowsInv)
  BY ResidentIsWatch, ResidentStarts, StepRows, InitInv, StepKeeps, PTL DEF ResidentSpec
<1>2. Inv /\ RowsInv => RowsMatchIndex
  <2> SUFFICES ASSUME Inv, RowsInv, pc = "idle"
               PROVE  /\ by_date = RowsByDate(dd.entries)
                      /\ by_date_project = RowsByProject(dd.entries)
    BY DEF RowsMatchIndex
  <2> DEFINE es == dd.entries
             all == DOMAIN es
  <2>1. outcomes = <<>>
    BY DEF RowsInv
  <2>2. ToSet(outcomes) = {} /\ DOMAIN outcomes = {}
    BY <2>1, EmptyElements
  <2>3. ~Rebuilding
    BY <2>2 DEF Rebuilding, ResetAhead
  <2>4. /\ Announced({}, es) = all /\ Days({}, es) = {} /\ Keys({}, es) = {}
    BY DEF Announced, Days, Keys
  <2>5. RowsAre(Rows, es, all, Late({}, es), {}, {})
    BY <2>2, <2>3, <2>4 DEF RowsInv, RowsFollow
  <2>6. \A d, p : /\ OfDate(es, d) \cap all = OfDate(es, d)
                  /\ OfProject(es, d, p) \cap all = OfProject(es, d, p)
    BY DEF OfDate, OfProject
  <2> HIDE DEF es, all
  <2>7. /\ by_date \in [Date -> MaybeRow] /\ by_date_project \in [Date \X Project -> MaybeRow]
        /\ \A d \in Date : by_date[d] = RowOf(es, OfDate(es, d))
        /\ \A d \in Date, p \in Project : by_date_project[<<d, p>>] = RowOf(es, OfProject(es, d, p))
    BY <2>5, <2>6 DEF RowsAre, RowsType, Rows
  <2>8. by_date = RowsByDate(es)
    BY <2>7 DEF RowsByDate
  <2>9. \A k \in Date \X Project : by_date_project[k] = RowOf(es, OfProject(es, k[1], k[2]))
    BY <2>7
  <2>10. by_date_project = RowsByProject(es)
    BY <2>7, <2>9 DEF RowsByProject
  <2> QED  BY <2>8, <2>10 DEF es
<1> QED  BY <1>1, <1>2, PTL

=============================================================================
