---------------------------- MODULE ClaudeDedup ----------------------------
(***************************************************************************)
(* The message/request deduplication of the Claude daily index             *)
(* (rust/adapters/claude/src/daily.rs).  A Claude log repeats a usage      *)
(* record while a response streams, when a session is resumed, and when a  *)
(* `/btw` sidechain replays its parent.  The index keeps one entry of each *)
(* of those families and this module says which one.                       *)
(*                                                                         *)
(* The index is a pair [entries, indexes]: the kept entries in the order   *)
(* they were accepted, and for each key the places of the entries filed    *)
(* under it.  A 64-bit hash of a key stands for the key itself: the code   *)
(* compares the ids again after the hash lookup.                           *)
(***************************************************************************)
EXTENDS Naturals, Sequences, SequencesExt, FiniteSets

CONSTANTS
    Message,    \* message ids
    Request,    \* request ids
    Date,       \* days, in the report's timezone
    Project,    \* project directories
    Model,      \* model names
    None        \* an absent message id, request id or model name

ASSUME NoneAssumption == None \notin Message \cup Request \cup Model

\* What one usage record contributes to the reports.
Entry == [id: Message \cup {None}, req: Request \cup {None}, side: BOOLEAN,
          tokens: Nat, cost: Nat, speed: BOOLEAN,
          date: Date, project: Project, model: Model \cup {None}]

Key == Message \X (Request \cup {None})

\* Amounts, and an entry's added to them.  The four token classes of a record are one number.
Amounts == [tokens: Nat, cost: Nat]

Zero == [tokens |-> 0, cost |-> 0]
Plus(t, e) == [tokens |-> t.tokens + e.tokens, cost |-> t.cost + e.cost]

\* The sum of the first n of these numbers.
SumTo(numbers, n) ==
    LET sum[i \in 0 .. n] == IF i = 0 THEN 0 ELSE sum[i-1] + numbers[i] IN sum[n]

EmptyIndex == [entries |-> <<>>, indexes |-> [k \in Key |-> <<>>]]

----------------------------------------------------------------------------
(***************************************************************************)
(* Which of two copies is kept: the parent's over the sidechain's, then    *)
(* the one with more tokens, the dearer one, the one that names a speed.   *)
(***************************************************************************)
ShouldReplace(candidate, existing) ==
    IF candidate.side # existing.side
    THEN existing.side
    ELSE \/ candidate.tokens > existing.tokens
         \/ /\ candidate.tokens = existing.tokens
            /\ candidate.cost > existing.cost
         \/ /\ candidate.tokens = existing.tokens
            /\ candidate.cost = existing.cost
            /\ candidate.speed /\ ~existing.speed

\* The first place of the list `places` that lies in the set `wanted`; 0 if none does.
FirstOf(places, wanted) ==
    LET hits == {p \in DOMAIN places : places[p] \in wanted}
    IN  IF hits = {} THEN 0 ELSE places[Min(hits)]

\* The places of the entries with the candidate's message and request id.
SameRequest(dd, e) ==
    {i \in DOMAIN dd.entries : dd.entries[i].id = e.id /\ dd.entries[i].req = e.req}

\* The places of the entries of the candidate's message, when one of the two is a sidechain's.
SidechainReplay(dd, e) ==
    {i \in DOMAIN dd.entries : dd.entries[i].id = e.id /\ (e.side \/ dd.entries[i].side)}

\* Mutant: sidechains are not looked up under their message.
ExactOnly(dd, e) ==
    IF e.id = None THEN 0 ELSE FirstOf(dd.indexes[<<e.id, e.req>>], SameRequest(dd, e))

\* The place of the entry the candidate is a copy of, 0 if it is new.
ExistingIndex(dd, e) ==
    IF e.id = None THEN 0
    ELSE LET exact == FirstOf(dd.indexes[<<e.id, e.req>>], SameRequest(dd, e))
         IN  IF exact # 0 THEN exact
             ELSE FirstOf(dd.indexes[<<e.id, None>>], SidechainReplay(dd, e))

\* File the place i under a key once.
AddPlace(places, i) == IF i \in ToSet(places) THEN places ELSE Append(places, i)

\* File the place i of the entry e under its own key and under its message.
FileUnder(indexes, e, i) ==
    [k \in Key |-> IF e.id # None /\ k \in {<<e.id, e.req>>, <<e.id, None>>}
                   THEN AddPlace(indexes[k], i) ELSE indexes[k]]

\* What offering the entry e to the index comes to.
Outcome(dd, e) ==
    LET at == ExistingIndex(dd, e)
    IN  IF at = 0 THEN "Added"
        ELSE IF ShouldReplace(e, dd.entries[at]) THEN "Replaced" ELSE "Duplicate"

\* The place the entry e is kept at, or the place of what it is a copy of.
Place(dd, e) ==
    LET at == ExistingIndex(dd, e) IN IF at = 0 THEN Len(dd.entries) + 1 ELSE at

PushDeduped(dd, e) ==
    LET at == Place(dd, e) IN
    CASE Outcome(dd, e) = "Added" ->
            [entries |-> Append(dd.entries, e), indexes |-> FileUnder(dd.indexes, e, at)]
      [] Outcome(dd, e) = "Replaced" ->
            [entries |-> [dd.entries EXCEPT ![at] = e],
             indexes |-> FileUnder(dd.indexes, e, at)]
      [] Outcome(dd, e) = "Duplicate" -> dd

\* No two entries of the index share a message and request id, and a sidechain's entry is the
\* only one of its message.
OneEach(dd) ==
    \A i, j \in DOMAIN dd.entries :
        LET a == dd.entries[i] b == dd.entries[j] IN
        i # j /\ a.id # None /\ a.id = b.id => a.req # b.req /\ ~a.side /\ ~b.side

----------------------------------------------------------------------------
(***************************************************************************)
(* The same index built from nothing, and what of an index does not depend *)
(* on the order its entries came in: how many entries it keeps, and of     *)
(* each the ids, the kind and the measures that decide between copies.     *)
(* Two copies that tie on all of those differ in nothing compared here.    *)
(***************************************************************************)
ScanFresh(es) ==
    LET upTo[n \in 0 .. Len(es)] ==
            IF n = 0 THEN EmptyIndex ELSE PushDeduped(upTo[n-1], es[n])
    IN  upTo[Len(es)]

Measure(e) == [id |-> e.id, req |-> e.req, side |-> e.side,
               tokens |-> e.tokens, cost |-> e.cost, speed |-> e.speed]

\* A sidechain stands for whichever of its copies won, so its request id is left out.
Shape(e) == IF e.id = None THEN e
            ELSE IF e.side THEN [Measure(e) EXCEPT !.req = None] ELSE Measure(e)

Winners(es) ==
    [m \in {Shape(es[i]) : i \in DOMAIN es} |->
        Cardinality({i \in DOMAIN es : Shape(es[i]) = m})]
=============================================================================
