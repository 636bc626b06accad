-------------------------- MODULE ParseCache_proofs --------------------------
(***************************************************************************)
(* The caches keep the promise of FreshLoad: every step of the processes   *)
(* is a step of FreshLoad or leaves its variables alone, for any number of *)
(* logs, processes, versions, deaths and losses of power.                  *)
(*                                                                         *)
(* The invariant says what a cache file may be trusted with: its stamp is  *)
(* of a version no later than the one its records are of.  The stamp is    *)
(* taken before the read, so it holds whoever wrote the file and whatever  *)
(* happened in between; a hit turns it into a promise about now.           *)
(***************************************************************************)
EXTENDS ParseCache, TLAPS

\* A parse cache's records are of the version it is stamped with or of a later one.
ParseBlobOK(l, b) ==
    /\ b.entries \in Seq(Record)
    /\ b.parsed_len = Len(b.entries)
    /\ b.stamp \in 1 .. Len(versions[l])
    /\ \E j \in b.stamp .. Len(versions[l]) : b.entries = Lines(versions[l][j])

\* A report's rows are fresh since the stamps of its key; unlisted logs have no rows.
ReportBlobOK(b) ==
    /\ b.rows \in [Log -> Seq(Record)]
    /\ \A l \in Log :
        \/ b.key[l] = 0 /\ b.rows[l] = <<>>
        \/ b.key[l] \in 1 .. Len(versions[l]) /\ FreshRows(versions[l], b.rows[l], b.key[l])

BlobOK(path, b) == IF path = Report THEN ReportBlobOK(b) ELSE ParseBlobOK(path, b)

\* The version a load's rows of l have to be fresh since.
Since(p, l) == IF key[p] = None THEN begun[p][l] ELSE key[p][l]

ScanPc == {"scan", "uncached", "check", "read", "create", "rename"}

LoadOK(p) ==
    /\ begun[p] \in [Log -> Nat]
    /\ asked[p] \in Args
    /\ \A l \in Log : begun[p][l] \in 1 .. Len(versions[l])
    /\ \A l \in Log \ files[p] :
        /\ Whole(versions[l][begun[p][l]]) = <<>>
        /\ pc[p] # "answer" => rows[p][l] = <<>>
        /\ key[p] # None => key[p][l] = 0

KeyOK(p, logs) ==
    key[p] # None => \A l \in logs : key[p][l] \in begun[p][l] .. Len(versions[l])

RowsOK(p) == \A l \in files[p] \ todo[p] : FreshRows(versions[l], rows[p][l], Since(p, l))

JobOK(p) ==
    /\ job[p].path \in Path
    /\ BlobOK(job[p].path, job[p].blob)
    /\ job[p].path = Report => todo[p] = {} /\ key[p] # None

\* What a load has at each of its calls.
ProcOK(p) ==
    /\ pc[p] = "idle" => begun[p] = None
    /\ pc[p] # "idle" => LoadOK(p)
    /\ pc[p] = "stamp" => key[p] # None /\ KeyOK(p, files[p] \ todo[p])
    /\ pc[p] = "lookup" => todo[p] = files[p] /\ key[p] # None /\ KeyOK(p, files[p])
    /\ pc[p] \in ScanPc => KeyOK(p, files[p]) /\ RowsOK(p)
    /\ IF pc[p] \in {"uncached", "check", "read"} THEN at[p] \in todo[p] ELSE at[p] = None
    /\ pc[p] \in {"check", "read"} => stat[p] \in Since(p, at[p]) .. Len(versions[at[p]])
    /\ pc[p] \in {"create", "rename"} => JobOK(p)
    /\ pc[p] = "answer" => FreshSince(rows[p], begun[p])

Typed ==
    /\ versions \in [Log -> Seq(Content)]
    /\ \A l \in Log : Len(versions[l]) \in Nat \ {0}
    /\ pc \in [Proc -> {"idle", "stamp", "lookup", "answer"} \cup ScanPc]
    /\ begun \in [Proc -> [Log -> Nat] \cup {None}]
    /\ asked \in [Proc -> Args \cup {None}]
    /\ rows \in [Proc -> [Log -> Seq(Record)]]
    /\ key \in [Proc -> [Log -> Nat] \cup {None}]
    /\ stat \in [Proc -> Nat]
    /\ at \in [Proc -> Log \cup {None}]
    /\ files \in [Proc -> SUBSET Log]
    /\ todo \in [Proc -> SUBSET Log]
    /\ \A p \in Proc : todo[p] \subseteq files[p]
    /\ DOMAIN job = Proc
    /\ DOMAIN cached = Path
    /\ tmp \in [Path -> SUBSET Proc]
    /\ faults \in Nat

CachesOK == \A path \in Path : cached[path] \notin {None, Torn} => BlobOK(path, cached[path])

IInv == Typed /\ CachesOK /\ \A p \in Proc : ProcOK(p)

----------------------------------------------------------------------------
\* What is fresh stays so as the logs get new versions.
LEMMA FreshStays ==
    ASSUME NEW vs, NEW ws, Len(vs) \in Nat, Len(ws) \in Nat, Len(vs) <= Len(ws),
           \A k \in 1 .. Len(vs) : ws[k] = vs[k],
           NEW found, NEW n \in 1 .. Len(vs), FreshRows(vs, found, n)
    PROVE  FreshRows(ws, found, n)
BY DEF FreshRows

LEMMA BlobsStay ==
    ASSUME NEW path \in Path, NEW b, Typed, BlobOK(path, b),
           \A l \in Log : Len(versions'[l]) \in Nat /\ Len(versions[l]) <= Len(versions'[l]),
           \A l \in Log : \A k \in 1 .. Len(versions[l]) : versions'[l][k] = versions[l][k]
    PROVE  BlobOK(path, b)'
<1>1. CASE path = Report
    <2>1. ReportBlobOK(b)
        BY <1>1 DEF BlobOK
    <2>2. ASSUME NEW l \in Log, b.key[l] \in 1 .. Len(versions[l]),
                 FreshRows(versions[l], b.rows[l], b.key[l])
          PROVE  FreshRows(versions[l], b.rows[l], b.key[l])'
        BY <2>2, FreshStays DEF Typed
    <2> QED
        BY <1>1, <2>1, <2>2 DEF BlobOK, ReportBlobOK, Typed
<1>2. CASE path # Report
    BY <1>2 DEF BlobOK, ParseBlobOK, Typed, Path
<1> QED
    BY <1>1, <1>2

LEMMA ProcStays ==
    ASSUME NEW q \in Proc, Typed, ProcOK(q),
           \A l \in Log : Len(versions'[l]) \in Nat /\ Len(versions[l]) <= Len(versions'[l]),
           \A l \in Log : \A k \in 1 .. Len(versions[l]) : versions'[l][k] = versions[l][k],
           pc'[q] = pc[q], begun'[q] = begun[q], asked'[q] = asked[q], files'[q] = files[q],
           todo'[q] = todo[q], key'[q] = key[q], at'[q] = at[q], stat'[q] = stat[q],
           rows'[q] = rows[q], job'[q] = job[q]
    PROVE  ProcOK(q)'
<1>1. ASSUME NEW l \in Log, NEW n \in 1 .. Len(versions[l]), FreshRows(versions[l], rows[q][l], n)
      PROVE  FreshRows(versions[l], rows[q][l], n)'
    BY <1>1, FreshStays DEF Typed
<1>2. ASSUME pc[q] # "idle"
      PROVE  LoadOK(q)'
    <2>1. LoadOK(q)
        BY <1>2 DEF ProcOK
    <2>2. ASSUME NEW l \in Log
          PROVE  /\ begun[q][l] \in 1 .. Len(versions'[l])
                 /\ versions'[l][begun[q][l]] = versions[l][begun[q][l]]
        BY <2>1, <2>2 DEF LoadOK, Typed
    <2> QED
        BY <2>1, <2>2 DEF LoadOK
<1>3. ASSUME NEW S \in SUBSET Log, KeyOK(q, S), LoadOK(q)
      PROVE  KeyOK(q, S)'
    BY <1>3 DEF KeyOK, Typed, LoadOK
<1>4. ASSUME pc[q] \in ScanPc
      PROVE  RowsOK(q)'
    <2>1. LoadOK(q) /\ KeyOK(q, files[q]) /\ RowsOK(q)
        BY <1>4 DEF ProcOK, ScanPc
    <2>2. ASSUME NEW l \in files[q] \ todo[q]
          PROVE  l \in Log /\ Since(q, l) \in 1 .. Len(versions[l]) /\ Since(q, l)' = Since(q, l)
        BY <2>1, <2>2 DEF LoadOK, KeyOK, Since, Typed
    <2> QED
        BY <1>1, <2>1, <2>2 DEF RowsOK, Typed
<1>5. ASSUME pc[q] \in {"create", "rename"}
      PROVE  JobOK(q)'
    <2>1. JobOK(q)
        BY <1>5 DEF ProcOK
    <2> QED
        BY <2>1, BlobsStay DEF JobOK, Path
<1>6. ASSUME pc[q] = "answer"
      PROVE  FreshSince(rows[q], begun[q])'
    BY <1>1, <1>6 DEF ProcOK, LoadOK, FreshSince, Typed
<1>7. ASSUME pc[q] \in {"check", "read"}
      PROVE  (stat[q] \in Since(q, at[q]) .. Len(versions[at[q]]))'
    <2>1. at[q] \in Log /\ stat[q] \in Since(q, at[q]) .. Len(versions[at[q]])
        BY <1>7 DEF ProcOK, Typed
    <2>2. Since(q, at[q]) \in Nat
        BY <1>7, <2>1 DEF ProcOK, LoadOK, KeyOK, Since, Typed
    <2> QED
        BY <1>7, <2>1, <2>2 DEF Typed, Since
<1> QED
    <2>1. files[q] \in SUBSET Log /\ files[q] \ todo[q] \in SUBSET Log
        BY DEF Typed
    <2>2. pc[q] # "idle" => LoadOK(q)
        BY DEF ProcOK
    <2>3. pc[q] = "stamp" => KeyOK(q, files[q] \ todo[q])'
        BY <1>3, <2>1, <2>2 DEF ProcOK
    <2>4. pc[q] = "lookup" \/ pc[q] \in ScanPc => KeyOK(q, files[q])'
        BY <1>3, <2>1, <2>2 DEF ProcOK, ScanPc
    <2>5. (pc[q] = "stamp" => KeyOK(q, files[q] \ todo[q]))'
        BY <2>3 DEF KeyOK
    <2>6. (pc[q] = "lookup" \/ pc[q] \in ScanPc => KeyOK(q, files[q]))'
        BY <2>4 DEF KeyOK
    <2> QED
        BY <1>2, <1>4, <1>5, <1>6, <1>7, <2>5, <2>6 DEF ProcOK

LEMMA CachesStay ==
    ASSUME Typed, CachesOK, cached' = cached,
           \A l \in Log : Len(versions'[l]) \in Nat /\ Len(versions[l]) <= Len(versions'[l]),
           \A l \in Log : \A k \in 1 .. Len(versions[l]) : versions'[l][k] = versions[l][k]
    PROVE  CachesOK'
<1>1. ASSUME NEW path \in Path, cached[path] \notin {None, Torn}
      PROVE  BlobOK(path, cached[path])'
    <2>1. BlobOK(path, cached[path])
        BY <1>1 DEF CachesOK
    <2> QED
        BY <2>1, BlobsStay
<1> QED
    BY <1>1 DEF CachesOK, Path

----------------------------------------------------------------------------
\* The step is p's alone, and the logs are left alone.
OnlyOf(p) ==
    /\ versions' = versions
    /\ \A q \in Proc \ {p} :
        /\ pc'[q] = pc[q] /\ begun'[q] = begun[q] /\ asked'[q] = asked[q]
        /\ files'[q] = files[q] /\ todo'[q] = todo[q] /\ key'[q] = key[q]
        /\ at'[q] = at[q] /\ stat'[q] = stat[q] /\ rows'[q] = rows[q] /\ job'[q] = job[q]

LEMMA OfOne ==
    ASSUME IInv, NEW p \in Proc, OnlyOf(p), Typed', cached' = cached \/ CachesOK', ProcOK(p)'
    PROVE  IInv'
<1>1. /\ \A l \in Log : Len(versions'[l]) \in Nat /\ Len(versions[l]) <= Len(versions'[l])
      /\ \A l \in Log : \A k \in 1 .. Len(versions[l]) : versions'[l][k] = versions[l][k]
    BY DEF IInv, Typed, OnlyOf
<1>2. CachesOK'
    BY <1>1, CachesStay DEF IInv
<1>3. ASSUME NEW q \in Proc, q # p
      PROVE  ProcOK(q)'
    BY <1>1, <1>3, ProcStays DEF IInv, OnlyOf
<1> QED
    BY <1>2, <1>3 DEF IInv

LEMMA BeginsKeeps ==
    ASSUME IInv, NEW p \in Proc, NEW a \in Args, Begins(p, a)
    PROVE  IInv'
<1> DEFINE listed == {l \in Log : Current(l) # Gone}
<1> USE DEF Begins, Goto, Stamp, NoRows
<1>1. Typed'
    <2>1. begun' \in [Proc -> [Log -> Nat] \cup {None}] /\ key' \in [Proc -> [Log -> Nat] \cup {None}]
        BY DEF IInv, Typed
    <2>2. rows' \in [Proc -> [Log -> Seq(Record)]]
        BY DEF IInv, Typed
    <2>3. files' \in [Proc -> SUBSET Log] /\ todo' \in [Proc -> SUBSET Log]
          /\ \A q \in Proc : todo'[q] \subseteq files'[q]
        BY DEF IInv, Typed
    <2>4. pc' \in [Proc -> {"idle", "stamp", "lookup", "answer"} \cup ScanPc]
        <3>1. PICK label \in {"answer", "scan", "stamp"} : pc' = [pc EXCEPT ![p] = label]
            OBVIOUS
        <3>2. pc \in [Proc -> {"idle", "stamp", "lookup", "answer"} \cup ScanPc]
            BY DEF IInv, Typed
        <3> QED
            BY <3>1, <3>2 DEF ScanPc
    <2> QED
        BY <2>1, <2>2, <2>3, <2>4 DEF IInv, Typed
<1>2. OnlyOf(p) /\ cached' = cached
    BY DEF IInv, Typed, OnlyOf
<1>3. /\ begun'[p] = [l \in Log |-> Len(versions[l])] /\ asked'[p] = a
      /\ files'[p] = listed /\ todo'[p] = listed
      /\ rows'[p] = [l \in Log |-> <<>>]
      /\ key'[p] = IF a \in Online THEN None ELSE [l \in Log |-> 0]
      /\ pc'[p] = IF listed = {} THEN "answer" ELSE IF a \in Online THEN "scan" ELSE "stamp"
    BY DEF IInv, Typed
<1>4. \A l \in Log \ listed : Whole(versions[l][Len(versions[l])]) = <<>>
    BY DEF Current, Whole, Lines
<1>5. LoadOK(p)'
    BY <1>1, <1>3, <1>4 DEF IInv, Typed, LoadOK
<1>6. ASSUME listed = {}
      PROVE  FreshSince(rows[p], begun[p])'
    BY <1>3, <1>4, <1>6 DEF IInv, Typed, FreshSince, FreshRows
<1>7. (None \notin [Log -> Nat]) /\ [l \in Log |-> 0] \in [Log -> Nat]
    BY CacheAssumption
<1>8. ProcOK(p)'
    <2>1. at'[p] = None
        BY DEF IInv, ProcOK
    <2> QED
        BY <1>3, <1>5, <1>6, <1>7, <2>1 DEF ProcOK, KeyOK, RowsOK, ScanPc
<1> QED
    BY <1>1, <1>2, <1>8, OfOne

LEMMA StampForKeyKeeps ==
    ASSUME IInv, NEW p \in Proc, StampForKey(p)
    PROVE  IInv'
<1>0. UNCHANGED <<versions, begun, asked, cached, tmp, files, at, stat, rows, job, faults>>
    BY DEF StampForKey
<1>1. PICK l \in todo[p] :
        IF Current(l) = Gone
        THEN /\ key' = [key EXCEPT ![p] = None]
             /\ todo' = [todo EXCEPT ![p] = files[p]]
             /\ pc' = [pc EXCEPT ![p] = "scan"]
        ELSE /\ key' = [key EXCEPT ![p][l] = Len(versions[l])]
             /\ todo' = [todo EXCEPT ![p] = IF @ = {l} THEN files[p] ELSE @ \ {l}]
             /\ IF todo[p] = {l} THEN pc' = [pc EXCEPT ![p] = "lookup"] ELSE UNCHANGED pc
    BY DEF StampForKey, Goto, Stamp
<1>2. /\ l \in Log /\ l \in files[p] /\ key[p] \in [Log -> Nat] /\ LoadOK(p)
      /\ KeyOK(p, files[p] \ todo[p]) /\ key[p] # None /\ pc[p] = "stamp" /\ at[p] = None
      /\ todo[p] \subseteq files[p] /\ files[p] \subseteq Log /\ begun[p] \in [Log -> Nat]
    BY DEF IInv, Typed, ProcOK, LoadOK, StampForKey
<1>3. Typed'
    <2>1. key' \in [Proc -> [Log -> Nat] \cup {None}]
        <3>1. key \in [Proc -> [Log -> Nat] \cup {None}] /\ Len(versions[l]) \in Nat
            BY <1>2 DEF IInv, Typed
        <3>2. CASE Current(l) = Gone
            BY <1>1, <3>1, <3>2
        <3>3. CASE Current(l) # Gone
            <4>1. key' = [key EXCEPT ![p] = [key[p] EXCEPT ![l] = Len(versions[l])]]
                BY <1>1, <3>3
            <4>2. [key[p] EXCEPT ![l] = Len(versions[l])] \in [Log -> Nat]
                BY <1>2, <3>1
            <4> QED
                BY <3>1, <4>1, <4>2
        <3> QED
            BY <3>2, <3>3
    <2>2. todo' \in [Proc -> SUBSET Log] /\ \A q \in Proc : todo'[q] \subseteq files[q]
        <3>1. PICK left \in {files[p], todo[p] \ {l}} : todo' = [todo EXCEPT ![p] = left]
            BY <1>1
        <3> QED
            BY <1>2, <3>1 DEF IInv, Typed
    <2>3. pc' \in [Proc -> {"idle", "stamp", "lookup", "answer"} \cup ScanPc]
        BY <1>1 DEF IInv, Typed, ScanPc
    <2> QED
        BY <1>0, <2>1, <2>2, <2>3 DEF IInv, Typed
<1>4. OnlyOf(p) /\ cached' = cached
    BY <1>0, <1>1, <1>2 DEF IInv, Typed, OnlyOf
<1>5. CASE Current(l) = Gone
    <2>1. key'[p] = None /\ todo'[p] = files[p] /\ pc'[p] = "scan"
        BY <1>1, <1>5 DEF IInv, Typed
    <2> QED
        BY <1>0, <1>2, <1>3, <1>4, <2>1, OfOne DEF ProcOK, LoadOK, KeyOK, RowsOK, ScanPc
<1>6. CASE Current(l) # Gone
    <2>1. /\ key'[p] \in [Log -> Nat]
          /\ key'[p][l] = Len(versions[l])
          /\ \A k \in Log \ {l} : key'[p][k] = key[p][k]
          /\ todo'[p] = IF todo[p] = {l} THEN files[p] ELSE todo[p] \ {l}
          /\ pc'[p] = IF todo[p] = {l} THEN "lookup" ELSE "stamp"
        <3>1. key \in [Proc -> [Log -> Nat] \cup {None}] /\ todo \in [Proc -> SUBSET Log]
              /\ DOMAIN pc = Proc /\ Len(versions[l]) \in Nat
            BY <1>2 DEF IInv, Typed
        <3>2. key' = [key EXCEPT ![p] = [key[p] EXCEPT ![l] = Len(versions[l])]]
            BY <1>1, <1>6
        <3>3. key'[p] = [key[p] EXCEPT ![l] = Len(versions[l])]
            BY <3>1, <3>2
        <3>4. todo'[p] = IF todo[p] = {l} THEN files[p] ELSE todo[p] \ {l}
            BY <1>1, <1>6, <3>1
        <3>5. pc'[p] = IF todo[p] = {l} THEN "lookup" ELSE "stamp"
            BY <1>1, <1>2, <1>6, <3>1
        <3> QED
            BY <1>2, <3>1, <3>3, <3>4, <3>5
    <2>2. LoadOK(p)'
        BY <1>0, <1>2, <2>1 DEF LoadOK
    <2>3. \A k \in (files[p] \ todo[p]) \cup {l} : key'[p][k] \in begun[p][k] .. Len(versions[k])
        <3>1. key'[p][l] \in begun[p][l] .. Len(versions[l])
            BY <1>2, <2>1 DEF LoadOK, IInv, Typed
        <3>2. \A k \in files[p] \ todo[p] : key'[p][k] \in begun[p][k] .. Len(versions[k])
            BY <1>2, <2>1 DEF KeyOK
        <3> QED
            BY <3>1, <3>2
    <2>4. key'[p] # None
        BY <2>1, CacheAssumption
    <2>5. ProcOK(p)'
        BY <1>0, <1>2, <2>1, <2>2, <2>3, <2>4 DEF ProcOK, KeyOK, ScanPc
    <2> QED
        BY <1>3, <1>4, <2>5, OfOne
<1> QED
    BY <1>5, <1>6

----------------------------------------------------------------------------
\* What a content's records are, and when its last line makes no difference.
LEMMA RecordsOf ==
    ASSUME NEW c \in Content
    PROVE  /\ Lines(c) \in Seq(Record) /\ Whole(c) \in Seq(Record)
           /\ Len(Whole(c)) = Len(Lines(c)) => Whole(c) = Lines(c)
<1>1. CASE c = Gone
    BY <1>1 DEF Lines, Whole
<1>2. CASE c # Gone
    <2>1. c.lines \in Seq(Record) /\ c.tail \in Record \cup {None}
        BY <1>2, CacheAssumption
    <2>2. CASE c.tail = None
        BY <1>2, <2>1, <2>2 DEF Lines, Whole
    <2>3. CASE c.tail # None
        <3>1. /\ Append(c.lines, c.tail) \in Seq(Record)
              /\ Len(Append(c.lines, c.tail)) = Len(c.lines) + 1
            BY <2>1, <2>3
        <3>2. Len(c.lines) \in Nat
            BY <2>1
        <3> QED
            BY <1>2, <2>1, <2>3, <3>1, <3>2 DEF Lines, Whole
    <2> QED
        BY <2>2, <2>3
<1> QED
    BY <1>1, <1>2

\* The versions a load looks at.
LEMMA VersionsOf ==
    ASSUME Typed, NEW l \in Log
    PROVE  /\ Len(versions[l]) \in Nat \ {0}
           /\ \A k \in 1 .. Len(versions[l]) : versions[l][k] \in Content
           /\ Current(l) \in Content
<1>1. versions[l] \in Seq(Content) /\ Len(versions[l]) \in Nat \ {0}
    BY DEF Typed
<1> QED
    BY <1>1 DEF Current

\* A load's rows have to be fresh since a version of their log.
LEMMA SinceOf ==
    ASSUME IInv, NEW p \in Proc, pc[p] \in ScanPc, NEW l \in files[p]
    PROVE  Since(p, l) \in begun[p][l] .. Len(versions[l]) /\ begun[p][l] \in 1 .. Len(versions[l])
<1>1. LoadOK(p) /\ KeyOK(p, files[p]) /\ l \in Log
    BY DEF IInv, ProcOK, ScanPc, Typed
<1>2. begun[p][l] \in 1 .. Len(versions[l]) /\ Len(versions[l]) \in Nat
    BY <1>1 DEF LoadOK, IInv, Typed
<1> QED
    BY <1>1, <1>2 DEF KeyOK, Since

LEMMA FoundKeeps ==
    ASSUME IInv, NEW p \in Proc, pc[p] \in {"uncached", "check", "read"},
           NEW found \in Seq(Record), Found(p, found),
           FreshRows(versions[at[p]], found, Since(p, at[p])),
           UNCHANGED <<versions, begun, asked, files, key>>, pc'[p] \in {"scan", "create"}
    PROVE  /\ rows' \in [Proc -> [Log -> Seq(Record)]] /\ todo' \in [Proc -> SUBSET Log]
           /\ at' \in [Proc -> Log \cup {None}] /\ stat' \in [Proc -> Nat]
           /\ \A q \in Proc : todo'[q] \subseteq files[q]
           /\ \A q \in Proc \ {p} : /\ rows'[q] = rows[q] /\ todo'[q] = todo[q]
                                    /\ at'[q] = at[q] /\ stat'[q] = stat[q]
           /\ at'[p] = None /\ LoadOK(p)' /\ KeyOK(p, files[p])' /\ RowsOK(p)'
<1> DEFINE l == at[p]
<1>1. /\ l \in todo[p] /\ l \in files[p] /\ l \in Log /\ todo[p] \subseteq files[p]
      /\ files[p] \subseteq Log
      /\ LoadOK(p) /\ KeyOK(p, files[p]) /\ RowsOK(p)
    BY DEF IInv, ProcOK, Typed, ScanPc
<1>2. /\ rows \in [Proc -> [Log -> Seq(Record)]] /\ todo \in [Proc -> SUBSET Log]
      /\ at \in [Proc -> Log \cup {None}] /\ stat \in [Proc -> Nat]
      /\ \A q \in Proc : todo[q] \subseteq files[q]
    BY DEF IInv, Typed
<1>3. /\ rows' = [rows EXCEPT ![p] = [rows[p] EXCEPT ![l] = found]]
      /\ todo' = [todo EXCEPT ![p] = todo[p] \ {l}]
      /\ at' = [at EXCEPT ![p] = None]
      /\ stat' = [stat EXCEPT ![p] = 0]
    BY DEF Found
<1>4. [rows[p] EXCEPT ![l] = found] \in [Log -> Seq(Record)]
    BY <1>1, <1>2
<1>5. /\ rows' \in [Proc -> [Log -> Seq(Record)]]
      /\ rows'[p] = [rows[p] EXCEPT ![l] = found]
      /\ \A q \in Proc \ {p} : rows'[q] = rows[q]
    BY <1>2, <1>3, <1>4
<1>6. /\ todo' \in [Proc -> SUBSET Log] /\ todo'[p] = todo[p] \ {l}
      /\ \A q \in Proc \ {p} : todo'[q] = todo[q]
    BY <1>2, <1>3
<1>7. /\ at' \in [Proc -> Log \cup {None}] /\ stat' \in [Proc -> Nat] /\ at'[p] = None
      /\ \A q \in Proc \ {p} : at'[q] = at[q] /\ stat'[q] = stat[q]
    BY <1>2, <1>3
<1>8. LoadOK(p)'
    <2>1. \A k \in Log \ files[p] : rows'[p][k] = rows[p][k]
        BY <1>1, <1>2, <1>5
    <2> QED
        BY <1>1, <2>1 DEF LoadOK
<1>9. KeyOK(p, files[p])'
    BY <1>1 DEF KeyOK
<1>10. RowsOK(p)'
    <2>1. ASSUME NEW k \in files[p] \ todo'[p]
          PROVE  FreshRows(versions[k], rows'[p][k], Since(p, k))
        <3>1. CASE k = l
            BY <1>1, <1>2, <1>5, <3>1
        <3>2. CASE k # l
            BY <1>1, <1>2, <1>5, <1>6, <3>2 DEF RowsOK
        <3> QED
            BY <3>1, <3>2
    <2>2. \A k : Since(p, k)' = Since(p, k)
        BY DEF Since
    <2> QED
        BY <2>1, <2>2 DEF RowsOK
<1> QED
    BY <1>2, <1>5, <1>6, <1>7, <1>8, <1>9, <1>10

LEMMA ReadReportKeeps ==
    ASSUME IInv, NEW p \in Proc, ReadReport(p)
    PROVE  IInv'
<1>0. UNCHANGED <<versions, begun, asked, cached, tmp, files, todo, key, at, stat, job, faults>>
    BY DEF ReadReport
<1>1. /\ LoadOK(p) /\ KeyOK(p, files[p]) /\ todo[p] = files[p] /\ pc[p] = "lookup"
      /\ at[p] = None /\ key[p] # None
    BY DEF IInv, ProcOK, ReadReport
<1>2. /\ rows \in [Proc -> [Log -> Seq(Record)]] /\ DOMAIN pc = Proc
      /\ pc \in [Proc -> {"idle", "stamp", "lookup", "answer"} \cup ScanPc]
    BY DEF IInv, Typed
<1>3. CASE ReportHit(p)
    <2> DEFINE b == cached[Report]
    <2>1. b.key = key[p] /\ ReportBlobOK(b)
        BY <1>3 DEF ReportHit, IInv, CachesOK, BlobOK, Path
    <2>2. rows' = [rows EXCEPT ![p] = b.rows] /\ pc' = [pc EXCEPT ![p] = "answer"]
        BY <1>3 DEF ReadReport, Goto
    <2>3. b.rows \in [Log -> Seq(Record)]
        BY <2>1 DEF ReportBlobOK
    <2>4. /\ rows' \in [Proc -> [Log -> Seq(Record)]] /\ rows'[p] = b.rows
          /\ \A q \in Proc \ {p} : rows'[q] = rows[q]
          /\ pc' \in [Proc -> {"idle", "stamp", "lookup", "answer"} \cup ScanPc]
          /\ pc'[p] = "answer" /\ \A q \in Proc \ {p} : pc'[q] = pc[q]
        BY <1>2, <2>2, <2>3
    <2>5. Typed' /\ OnlyOf(p)
        BY <1>0, <2>4 DEF IInv, Typed, OnlyOf
    <2>6. LoadOK(p)'
        BY <1>0, <1>1, <2>4 DEF LoadOK
    <2>7. ASSUME NEW l \in Log
          PROVE  FreshRows(versions[l], b.rows[l], begun[p][l])
        <3>1. begun[p][l] \in 1 .. Len(versions[l]) /\ Len(versions[l]) \in Nat
            BY <1>1 DEF LoadOK, IInv, Typed
        <3>2. CASE l \in files[p]
            <4>1. key[p][l] \in begun[p][l] .. Len(versions[l])
                BY <1>1, <3>2 DEF KeyOK
            <4>2. FreshRows(versions[l], b.rows[l], key[p][l])
                BY <2>1, <3>1, <4>1 DEF ReportBlobOK
            <4> QED
                BY <3>1, <4>1, <4>2 DEF FreshRows
        <3>3. CASE l \notin files[p]
            <4>1. key[p][l] = 0 /\ Whole(versions[l][begun[p][l]]) = <<>>
                BY <1>1, <3>3 DEF LoadOK
            <4>2. b.rows[l] = <<>>
                BY <2>1, <4>1 DEF ReportBlobOK
            <4> QED
                BY <3>1, <4>1, <4>2 DEF FreshRows
        <3> QED
            BY <3>2, <3>3
    <2>8. FreshSince(rows[p], begun[p])'
        BY <1>0, <2>4, <2>7 DEF FreshSince
    <2>9. ProcOK(p)'
        BY <1>0, <1>1, <2>4, <2>6, <2>8 DEF ProcOK, ScanPc
    <2> QED
        BY <1>0, <2>5, <2>9, OfOne
<1>4. CASE ~ReportHit(p)
    <2>1. rows' = rows /\ pc' = [pc EXCEPT ![p] = "scan"]
        BY <1>4 DEF ReadReport, Goto
    <2>2. /\ pc' \in [Proc -> {"idle", "stamp", "lookup", "answer"} \cup ScanPc]
          /\ pc'[p] = "scan" /\ \A q \in Proc \ {p} : pc'[q] = pc[q]
        BY <1>2, <2>1 DEF ScanPc
    <2>3. Typed' /\ OnlyOf(p)
        BY <1>0, <2>1, <2>2 DEF IInv, Typed, OnlyOf
    <2>4. LoadOK(p)'
        BY <1>0, <1>1, <2>1, <2>2 DEF LoadOK
    <2>5. KeyOK(p, files[p])' /\ RowsOK(p)'
        BY <1>0, <1>1 DEF KeyOK, RowsOK
    <2>6. ProcOK(p)'
        BY <1>0, <1>1, <2>2, <2>4, <2>5 DEF ProcOK
    <2> QED
        BY <1>0, <2>3, <2>6, OfOne
<1> QED
    BY <1>3, <1>4

LEMMA StatLogKeeps ==
    ASSUME IInv, NEW p \in Proc, StatLog(p)
    PROVE  IInv'
<1>0. /\ UNCHANGED <<versions, begun, asked, cached, tmp, files, todo, key, rows, job, faults>>
      /\ pc[p] = "scan"
    BY DEF StatLog
<1>1. PICK l \in todo[p] : /\ at' = [at EXCEPT ![p] = l]
                           /\ stat' = [stat EXCEPT ![p] = Len(versions[l])]
                           /\ \E label \in {"uncached", "check"} : pc' = [pc EXCEPT ![p] = label]
    BY DEF StatLog, Goto, Stamp
<1>2. l \in Log /\ l \in files[p] /\ LoadOK(p) /\ KeyOK(p, files[p]) /\ RowsOK(p)
    BY <1>0 DEF IInv, Typed, ProcOK, ScanPc
<1>3. /\ at \in [Proc -> Log \cup {None}] /\ stat \in [Proc -> Nat]
      /\ pc \in [Proc -> {"idle", "stamp", "lookup", "answer"} \cup ScanPc]
      /\ Len(versions[l]) \in Nat
    BY <1>2 DEF IInv, Typed
<1>4. /\ at' \in [Proc -> Log \cup {None}] /\ at'[p] = l /\ \A q \in Proc \ {p} : at'[q] = at[q]
      /\ stat' \in [Proc -> Nat] /\ stat'[p] = Len(versions[l])
      /\ \A q \in Proc \ {p} : stat'[q] = stat[q]
    BY <1>1, <1>2, <1>3
<1>5. /\ pc' \in [Proc -> {"idle", "stamp", "lookup", "answer"} \cup ScanPc]
      /\ pc'[p] \in {"uncached", "check"} /\ \A q \in Proc \ {p} : pc'[q] = pc[q]
    BY <1>1, <1>3 DEF ScanPc
<1>6. Typed' /\ OnlyOf(p)
    BY <1>0, <1>4, <1>5 DEF IInv, Typed, OnlyOf
<1>7. LoadOK(p)'
    BY <1>0, <1>2, <1>5 DEF LoadOK
<1>8. KeyOK(p, files[p])' /\ RowsOK(p)' /\ Since(p, l)' = Since(p, l)
    BY <1>0, <1>2 DEF KeyOK, RowsOK, Since
<1>9. Since(p, l) \in Nat /\ Since(p, l) <= Len(versions[l])
    BY <1>0, <1>2, <1>3, SinceOf DEF ScanPc
<1>10. (stat[p] \in Since(p, at[p]) .. Len(versions[at[p]]))'
    BY <1>0, <1>3, <1>4, <1>8, <1>9
<1>11. ProcOK(p)'
    BY <1>0, <1>4, <1>5, <1>7, <1>8, <1>10 DEF ProcOK, ScanPc
<1> QED
    BY <1>0, <1>6, <1>11, OfOne

LEMMA ReadUncachedKeeps ==
    ASSUME IInv, NEW p \in Proc, ReadUncached(p)
    PROVE  IInv'
<1> DEFINE l == at[p] found == Whole(Current(at[p]))
<1>0. /\ UNCHANGED <<versions, begun, asked, cached, tmp, files, key, job, faults>>
      /\ pc[p] = "uncached" /\ Found(p, found) /\ pc' = [pc EXCEPT ![p] = "scan"]
    BY DEF ReadUncached, Goto
<1>1. /\ pc' \in [Proc -> {"idle", "stamp", "lookup", "answer"} \cup ScanPc]
      /\ pc'[p] = "scan" /\ \A q \in Proc \ {p} : pc'[q] = pc[q]
    BY <1>0 DEF IInv, Typed, ScanPc
<1>2. l \in files[p] /\ l \in Log
    BY <1>0 DEF IInv, Typed, ProcOK
<1>3. /\ found \in Seq(Record) /\ Len(versions[l]) \in Nat \ {0}
      /\ found = Whole(versions[l][Len(versions[l])])
    BY <1>2, VersionsOf, RecordsOf DEF IInv, Current
<1>4. Since(p, l) \in Nat /\ Since(p, l) <= Len(versions[l])
    BY <1>0, <1>2, <1>3, SinceOf DEF ScanPc
<1>5. FreshRows(versions[l], found, Since(p, l))
    BY <1>3, <1>4 DEF FreshRows
<1> HIDE DEF found, l
<1>6. /\ rows' \in [Proc -> [Log -> Seq(Record)]] /\ todo' \in [Proc -> SUBSET Log]
      /\ at' \in [Proc -> Log \cup {None}] /\ stat' \in [Proc -> Nat]
      /\ \A q \in Proc : todo'[q] \subseteq files[q]
      /\ \A q \in Proc \ {p} : /\ rows'[q] = rows[q] /\ todo'[q] = todo[q]
                               /\ at'[q] = at[q] /\ stat'[q] = stat[q]
      /\ at'[p] = None /\ LoadOK(p)' /\ KeyOK(p, files[p])' /\ RowsOK(p)'
    BY <1>0, <1>1, <1>3, <1>5, FoundKeeps DEF l
<1>7. Typed' /\ OnlyOf(p)
    BY <1>0, <1>1, <1>6 DEF IInv, Typed, OnlyOf
<1>8. ProcOK(p)'
    BY <1>1, <1>6 DEF ProcOK
<1> QED
    BY <1>0, <1>7, <1>8, OfOne

LEMMA CheckCacheKeeps ==
    ASSUME IInv, NEW p \in Proc, CheckCache(p)
    PROVE  IInv'
<1> DEFINE l == at[p] b == cached[at[p]]
<1>0. UNCHANGED <<versions, begun, asked, cached, tmp, files, key, job, faults>> /\ pc[p] = "check"
    BY DEF CheckCache
<1>1. /\ l \in files[p] /\ l \in Log /\ l \in todo[p] /\ LoadOK(p) /\ KeyOK(p, files[p])
      /\ RowsOK(p) /\ stat[p] \in Since(p, l) .. Len(versions[l])
    BY <1>0 DEF IInv, Typed, ProcOK, ScanPc
<1>2. pc \in [Proc -> {"idle", "stamp", "lookup", "answer"} \cup ScanPc]
    BY DEF IInv, Typed
<1>3. CASE ParseHit(p)
    <2>1. Found(p, b.entries) /\ pc' = [pc EXCEPT ![p] = "scan"]
        BY <1>3 DEF CheckCache, Goto
    <2>2. /\ pc' \in [Proc -> {"idle", "stamp", "lookup", "answer"} \cup ScanPc]
          /\ pc'[p] = "scan" /\ \A q \in Proc \ {p} : pc'[q] = pc[q]
        BY <1>2, <2>1 DEF ScanPc
    <2>3. ParseBlobOK(l, b)
        BY <1>1, <1>3, CacheAssumption DEF ParseHit, IInv, CachesOK, BlobOK, Path
    <2>4. b.stamp = stat[p] /\ b.parsed_len = Len(Whole(versions[l][stat[p]]))
        BY <1>3 DEF ParseHit, Size
    <2>5. /\ Len(versions[l]) \in Nat \ {0}
          /\ \A k \in 1 .. Len(versions[l]) : versions[l][k] \in Content
        BY <1>1, VersionsOf DEF IInv
    <2>6. Since(p, l) \in Nat \ {0} /\ stat[p] \in 1 .. Len(versions[l]) /\ Since(p, l) <= stat[p]
        <3>1. Since(p, l) \in begun[p][l] .. Len(versions[l]) /\ begun[p][l] \in 1 .. Len(versions[l])
            BY <1>0, <1>1, SinceOf DEF ScanPc
        <3> QED
            BY <1>1, <2>5, <3>1
    <2>7. PICK j \in stat[p] .. Len(versions[l]) : b.entries = Lines(versions[l][j])
        BY <2>3, <2>4 DEF ParseBlobOK
    <2>8. FreshRows(versions[l], b.entries, Since(p, l))
        <3>1. CASE j = stat[p]
            <4>1. Whole(versions[l][j]) = Lines(versions[l][j])
                BY <2>3, <2>4, <2>5, <2>6, <2>7, <3>1, RecordsOf DEF ParseBlobOK
            <4> QED
                BY <2>5, <2>6, <2>7, <4>1 DEF FreshRows
        <3>2. CASE j # stat[p]
            BY <2>5, <2>6, <2>7, <3>2 DEF FreshRows
        <3> QED
            BY <3>1, <3>2
    <2>9. b.entries \in Seq(Record)
        BY <2>3 DEF ParseBlobOK
    <2> HIDE DEF l, b
    <2>10. /\ rows' \in [Proc -> [Log -> Seq(Record)]] /\ todo' \in [Proc -> SUBSET Log]
           /\ at' \in [Proc -> Log \cup {None}] /\ stat' \in [Proc -> Nat]
           /\ \A q \in Proc : todo'[q] \subseteq files[q]
           /\ \A q \in Proc \ {p} : /\ rows'[q] = rows[q] /\ todo'[q] = todo[q]
                                    /\ at'[q] = at[q] /\ stat'[q] = stat[q]
           /\ at'[p] = None /\ LoadOK(p)' /\ KeyOK(p, files[p])' /\ RowsOK(p)'
        BY <1>0, <2>1, <2>2, <2>8, <2>9, FoundKeeps DEF l
    <2>11. Typed' /\ OnlyOf(p)
        BY <1>0, <2>2, <2>10 DEF IInv, Typed, OnlyOf
    <2>12. ProcOK(p)'
        BY <2>2, <2>10 DEF ProcOK
    <2> QED
        BY <1>0, <2>11, <2>12, OfOne
<1>4. CASE ~ParseHit(p)
    <2>1. UNCHANGED <<rows, todo, at, stat>> /\ pc' = [pc EXCEPT ![p] = "read"]
        BY <1>4 DEF CheckCache, Goto
    <2>2. /\ pc' \in [Proc -> {"idle", "stamp", "lookup", "answer"} \cup ScanPc]
          /\ pc'[p] = "read" /\ \A q \in Proc \ {p} : pc'[q] = pc[q]
        BY <1>2, <2>1 DEF ScanPc
    <2>3. Typed' /\ OnlyOf(p)
        BY <1>0, <2>1, <2>2 DEF IInv, Typed, OnlyOf
    <2>4. LoadOK(p)'
        BY <1>0, <1>1, <2>1, <2>2 DEF LoadOK
    <2>5. KeyOK(p, files[p])' /\ RowsOK(p)' /\ Since(p, l)' = Since(p, l)
        BY <1>0, <1>1, <2>1 DEF KeyOK, RowsOK, Since
    <2>6. (stat[p] \in Since(p, at[p]) .. Len(versions[at[p]]))' /\ at'[p] \in todo'[p]
        BY <1>0, <1>1, <2>1, <2>5
    <2>7. ProcOK(p)'
        BY <1>0, <2>2, <2>4, <2>5, <2>6 DEF ProcOK, ScanPc
    <2> QED
        BY <1>0, <2>3, <2>7, OfOne
<1> QED
    BY <1>3, <1>4

LEMMA ReadLogKeeps ==
    ASSUME IInv, NEW p \in Proc, ReadLog(p)
    PROVE  IInv'
<1> DEFINE l == at[p] c == Current(at[p])
<1>0. /\ UNCHANGED <<versions, begun, asked, cached, tmp, files, key, faults>>
      /\ pc[p] = "read" /\ Found(p, Whole(c))
    BY DEF ReadLog
<1>1. /\ l \in files[p] /\ l \in Log /\ stat[p] \in Since(p, l) .. Len(versions[l])
      /\ DOMAIN job = Proc /\ pc \in [Proc -> {"idle", "stamp", "lookup", "answer"} \cup ScanPc]
    BY <1>0 DEF IInv, Typed, ProcOK
<1>2. /\ Whole(c) \in Seq(Record) /\ Lines(c) \in Seq(Record) /\ Len(versions[l]) \in Nat \ {0}
      /\ c = versions[l][Len(versions[l])]
    BY <1>1, VersionsOf, RecordsOf DEF IInv, Current
<1>3. Since(p, l) \in Nat \ {0} /\ Since(p, l) <= Len(versions[l])
    <2>1. Since(p, l) \in begun[p][l] .. Len(versions[l]) /\ begun[p][l] \in 1 .. Len(versions[l])
        BY <1>0, <1>1, SinceOf DEF ScanPc
    <2> QED
        BY <1>2, <2>1
<1>4. FreshRows(versions[l], Whole(c), Since(p, l))
    BY <1>2, <1>3 DEF FreshRows
<1>5. PICK label \in {"scan", "create"} : pc' = [pc EXCEPT ![p] = label]
    BY DEF ReadLog, Goto
<1>6. /\ pc' \in [Proc -> {"idle", "stamp", "lookup", "answer"} \cup ScanPc]
      /\ pc'[p] = label /\ \A q \in Proc \ {p} : pc'[q] = pc[q]
    BY <1>1, <1>5 DEF ScanPc
<1>7. \/ job' = job /\ label = "scan"
      \/ job' = [job EXCEPT ![p] = [path |-> l, blob |-> ParseBlob(stat[p], c)]]
    <2>1. CASE c = Gone
        <3>1. pc' = [pc EXCEPT ![p] = "scan"] /\ job' = job
            BY <2>1 DEF ReadLog, Goto
        <3> QED
            BY <1>1, <1>6, <3>1
    <2>2. CASE c # Gone
        BY <2>2 DEF ReadLog
    <2> QED
        BY <2>1, <2>2
<1>8. BlobOK(l, ParseBlob(stat[p], c))
    BY <1>1, <1>2, <1>3, CacheAssumption DEF BlobOK, ParseBlobOK, ParseBlob
<1> HIDE DEF c, l
<1>9. /\ rows' \in [Proc -> [Log -> Seq(Record)]] /\ todo' \in [Proc -> SUBSET Log]
      /\ at' \in [Proc -> Log \cup {None}] /\ stat' \in [Proc -> Nat]
      /\ \A q \in Proc : todo'[q] \subseteq files[q]
      /\ \A q \in Proc \ {p} : /\ rows'[q] = rows[q] /\ todo'[q] = todo[q]
                               /\ at'[q] = at[q] /\ stat'[q] = stat[q]
      /\ at'[p] = None /\ LoadOK(p)' /\ KeyOK(p, files[p])' /\ RowsOK(p)'
    BY <1>0, <1>2, <1>4, <1>6, FoundKeeps DEF l
<1>10. DOMAIN job' = Proc /\ \A q \in Proc \ {p} : job'[q] = job[q]
    BY <1>1, <1>7
<1>11. Typed' /\ OnlyOf(p)
    BY <1>0, <1>6, <1>9, <1>10 DEF IInv, Typed, OnlyOf
<1>12. label = "create" => JobOK(p)'
    <2>1. ASSUME label = "create"
          PROVE  job'[p] = [path |-> l, blob |-> ParseBlob(stat[p], c)]
        BY <1>1, <1>7, <2>1
    <2>2. PICK path \in Log : path = l
        BY <1>1 DEF l
    <2>2a. PICK blob : blob = ParseBlob(stat[p], c)
        OBVIOUS
    <2>3. path \in Path /\ path # Report
        BY CacheAssumption DEF Path
    <2>4. BlobOK(path, blob)
        BY <1>8, <2>2, <2>2a
    <2>5. BlobOK(path, blob)'
        BY <1>0, <2>3, <2>4 DEF BlobOK, ParseBlobOK
    <2>6. ASSUME label = "create"
          PROVE  job'[p] = [path |-> path, blob |-> blob]
        BY <2>1, <2>2, <2>2a, <2>6
    <2> QED
        BY <2>3, <2>5, <2>6 DEF JobOK
<1>13. ProcOK(p)'
    BY <1>6, <1>9, <1>12 DEF ProcOK, ScanPc
<1> QED
    BY <1>0, <1>11, <1>13, OfOne

----------------------------------------------------------------------------
\* What is found since the key's stamps, or since the load began, can be answered.
LEMMA FoundAll ==
    ASSUME IInv, NEW p \in Proc, pc[p] \in ScanPc, todo[p] = {}
    PROVE  FreshSince(rows[p], begun[p])
<1>1. LoadOK(p) /\ RowsOK(p)
    BY DEF IInv, ProcOK, ScanPc
<1>2. ASSUME NEW l \in Log
      PROVE  FreshRows(versions[l], rows[p][l], begun[p][l])
    <2>1. begun[p][l] \in 1 .. Len(versions[l]) /\ Len(versions[l]) \in Nat
        BY <1>1 DEF LoadOK, IInv, Typed
    <2>2. CASE l \in files[p]
        <3>1. FreshRows(versions[l], rows[p][l], Since(p, l))
            BY <1>1, <2>2 DEF RowsOK
        <3>2. Since(p, l) \in begun[p][l] .. Len(versions[l])
            BY <2>2, SinceOf
        <3> QED
            BY <2>1, <3>1, <3>2 DEF FreshRows
    <2>3. CASE l \notin files[p]
        <3>1. Whole(versions[l][begun[p][l]]) = <<>> /\ rows[p][l] = <<>>
            BY <1>1, <2>3 DEF LoadOK, ScanPc
        <3> QED
            BY <2>1, <3>1 DEF FreshRows
    <2> QED
        BY <2>2, <2>3
<1> QED
    BY <1>2 DEF FreshSince

LEMMA GoOnKeeps ==
    ASSUME IInv, NEW p \in Proc, pc[p] \in {"create", "rename"}, GoOn(p),
           UNCHANGED <<versions, begun, asked, files, todo, key, at, stat, rows>>
    PROVE  /\ pc' \in [Proc -> {"idle", "stamp", "lookup", "answer"} \cup ScanPc]
           /\ DOMAIN job' = Proc /\ OnlyOf(p) /\ ProcOK(p)'
<1>1. /\ LoadOK(p) /\ KeyOK(p, files[p]) /\ RowsOK(p) /\ JobOK(p) /\ at[p] = None
    BY DEF IInv, ProcOK, ScanPc
<1>2. DOMAIN job = Proc /\ pc \in [Proc -> {"idle", "stamp", "lookup", "answer"} \cup ScanPc]
    BY DEF IInv, Typed
<1>3. PICK label \in {"scan", "answer"} :
        pc' = [pc EXCEPT ![p] = label] /\ (label = "answer" => job[p].path = Report)
    <2>1. CASE job[p].path = Report
        BY <2>1 DEF GoOn, Goto
    <2>2. CASE job[p].path # Report
        BY <2>2 DEF GoOn, Goto
    <2> QED
        BY <2>1, <2>2
<1>4. /\ pc' \in [Proc -> {"idle", "stamp", "lookup", "answer"} \cup ScanPc]
      /\ pc'[p] = label /\ \A q \in Proc \ {p} : pc'[q] = pc[q]
    BY <1>2, <1>3 DEF ScanPc
<1>5. DOMAIN job' = Proc /\ \A q \in Proc \ {p} : job'[q] = job[q]
    BY <1>2 DEF GoOn
<1>6. OnlyOf(p)
    BY <1>4, <1>5 DEF OnlyOf
<1>7. LoadOK(p)'
    BY <1>1, <1>4 DEF LoadOK, ScanPc
<1>8. KeyOK(p, files[p])' /\ RowsOK(p)'
    BY <1>1 DEF KeyOK, RowsOK, Since
<1>9. label = "answer" => FreshSince(rows[p], begun[p])'
    <2>1. label = "answer" => FreshSince(rows[p], begun[p])
        BY <1>1, <1>3, FoundAll DEF JobOK, ScanPc
    <2> QED
        BY <2>1 DEF FreshSince
<1>10. ProcOK(p)'
    BY <1>1, <1>4, <1>7, <1>8, <1>9 DEF ProcOK, ScanPc
<1> QED
    BY <1>4, <1>5, <1>6, <1>10

LEMMA CreateTmpKeeps ==
    ASSUME IInv, NEW p \in Proc, CreateTmp(p)
    PROVE  IInv'
<1>0. UNCHANGED <<versions, begun, asked, cached, files, todo, key, at, stat, rows, faults>>
      /\ pc[p] = "create"
    BY DEF CreateTmp
<1>1. CASE tmp' = tmp /\ GoOn(p)
    <2>1. /\ pc' \in [Proc -> {"idle", "stamp", "lookup", "answer"} \cup ScanPc]
          /\ DOMAIN job' = Proc /\ OnlyOf(p) /\ ProcOK(p)'
        BY <1>0, <1>1, GoOnKeeps
    <2>2. Typed'
        BY <1>0, <1>1, <2>1 DEF IInv, Typed
    <2> QED
        BY <1>0, <2>1, <2>2, OfOne
<1>2. CASE /\ tmp' = [tmp EXCEPT ![job[p].path] = @ \cup {p}]
           /\ pc' = [pc EXCEPT ![p] = "rename"]
           /\ job' = job
    <2>1. /\ LoadOK(p) /\ KeyOK(p, files[p]) /\ RowsOK(p) /\ JobOK(p) /\ at[p] = None
        BY <1>0 DEF IInv, ProcOK, ScanPc
    <2>2. pc \in [Proc -> {"idle", "stamp", "lookup", "answer"} \cup ScanPc]
          /\ tmp \in [Path -> SUBSET Proc]
        BY DEF IInv, Typed
    <2>3. /\ pc' \in [Proc -> {"idle", "stamp", "lookup", "answer"} \cup ScanPc]
          /\ pc'[p] = "rename" /\ \A q \in Proc \ {p} : pc'[q] = pc[q]
        BY <1>2, <2>2 DEF ScanPc
    <2>4. tmp' \in [Path -> SUBSET Proc]
        BY <1>2, <2>2
    <2>5. Typed' /\ OnlyOf(p)
        BY <1>0, <1>2, <2>3, <2>4 DEF IInv, Typed, OnlyOf
    <2>6. LoadOK(p)'
        BY <1>0, <2>1, <2>3 DEF LoadOK
    <2>7. KeyOK(p, files[p])' /\ RowsOK(p)' /\ JobOK(p)'
        BY <1>0, <1>2, <2>1 DEF KeyOK, RowsOK, Since, JobOK, BlobOK, ParseBlobOK, ReportBlobOK
    <2>8. ProcOK(p)'
        BY <1>0, <2>1, <2>3, <2>6, <2>7 DEF ProcOK, ScanPc
    <2> QED
        BY <1>0, <2>5, <2>8, OfOne
<1> QED
    BY <1>1, <1>2 DEF CreateTmp, Goto

LEMMA WriteFailsKeeps ==
    ASSUME IInv, NEW p \in Proc, WriteFails(p)
    PROVE  IInv'
<1>0. /\ UNCHANGED <<versions, begun, asked, cached, files, todo, key, at, stat, rows>>
      /\ pc[p] = "rename" /\ GoOn(p) /\ faults' = faults + 1
      /\ tmp' = [tmp EXCEPT ![job[p].path] = @ \ {p}]
    BY DEF WriteFails, Fault, RemoveTmp
<1>1. /\ pc' \in [Proc -> {"idle", "stamp", "lookup", "answer"} \cup ScanPc]
      /\ DOMAIN job' = Proc /\ OnlyOf(p) /\ ProcOK(p)'
    BY <1>0, GoOnKeeps
<1>2. faults' \in Nat /\ tmp' \in [Path -> SUBSET Proc]
    <2>1. faults \in Nat /\ tmp \in [Path -> SUBSET Proc]
        BY DEF IInv, Typed
    <2>2. faults' \in Nat
        BY <1>0, <2>1
    <2>3. tmp' \in [Path -> SUBSET Proc]
        BY <1>0, <2>1
    <2> QED
        BY <2>2, <2>3
<1>3. Typed'
    BY <1>0, <1>1, <1>2 DEF IInv, Typed
<1> QED
    BY <1>0, <1>1, <1>3, OfOne

LEMMA RenameTmpKeeps ==
    ASSUME IInv, NEW p \in Proc, RenameTmp(p)
    PROVE  IInv'
<1>0. /\ UNCHANGED <<versions, begun, asked, files, todo, key, at, stat, rows, faults>>
      /\ pc[p] = "rename" /\ GoOn(p)
      /\ cached' = [cached EXCEPT ![job[p].path] = job[p].blob]
      /\ tmp' = [tmp EXCEPT ![job[p].path] = @ \ {p}]
    BY DEF RenameTmp, RemoveTmp
<1>1. /\ pc' \in [Proc -> {"idle", "stamp", "lookup", "answer"} \cup ScanPc]
      /\ DOMAIN job' = Proc /\ OnlyOf(p) /\ ProcOK(p)'
    BY <1>0, GoOnKeeps
<1>2. tmp' \in [Path -> SUBSET Proc] /\ DOMAIN cached' = Path
    <2>1. tmp \in [Path -> SUBSET Proc] /\ DOMAIN cached = Path
        BY DEF IInv, Typed
    <2> QED
        BY <1>0, <2>1
<1>3. Typed'
    BY <1>0, <1>1, <1>2 DEF IInv, Typed
<1>4. CachesOK'
    <2>1. JobOK(p)
        BY <1>0 DEF IInv, ProcOK
    <2>2. ASSUME NEW path \in Path, cached'[path] \notin {None, Torn}
          PROVE  BlobOK(path, cached'[path])
        <3>1. CASE path = job[p].path
            BY <1>0, <2>1, <3>1 DEF JobOK, IInv, Typed
        <3>2. CASE path # job[p].path
            BY <1>0, <2>2, <3>2 DEF IInv, Typed, CachesOK
        <3> QED
            BY <3>1, <3>2
    <2> QED
        BY <1>0, <2>2 DEF CachesOK, BlobOK, ParseBlobOK, ReportBlobOK, Path
<1> QED
    BY <1>1, <1>3, <1>4, OfOne

LEMMA EndScanKeeps ==
    ASSUME IInv, NEW p \in Proc, EndScan(p)
    PROVE  IInv'
<1>0. /\ UNCHANGED <<versions, begun, asked, cached, tmp, files, todo, key, at, stat, rows, faults>>
      /\ pc[p] = "scan" /\ todo[p] = {}
    BY DEF EndScan
<1>1. /\ LoadOK(p) /\ KeyOK(p, files[p]) /\ RowsOK(p) /\ at[p] = None
    BY <1>0 DEF IInv, ProcOK, ScanPc
<1>2. DOMAIN job = Proc /\ pc \in [Proc -> {"idle", "stamp", "lookup", "answer"} \cup ScanPc]
      /\ rows[p] \in [Log -> Seq(Record)] /\ files[p] \subseteq Log
    BY DEF IInv, Typed
<1>3. PICK label \in {"answer", "create"} :
        /\ pc' = [pc EXCEPT ![p] = label]
        /\ label = "answer" => job' = job
        /\ label = "create" => key[p] # None
                               /\ job' = [job EXCEPT ![p] = [path |-> Report, blob |-> ReportBlob(p)]]
    BY DEF EndScan, Goto
<1>4. /\ pc' \in [Proc -> {"idle", "stamp", "lookup", "answer"} \cup ScanPc]
      /\ pc'[p] = label /\ \A q \in Proc \ {p} : pc'[q] = pc[q]
    BY <1>2, <1>3 DEF ScanPc
<1>5. DOMAIN job' = Proc /\ \A q \in Proc \ {p} : job'[q] = job[q]
    BY <1>2, <1>3
<1>6. Typed' /\ OnlyOf(p)
    BY <1>0, <1>4, <1>5 DEF IInv, Typed, OnlyOf
<1>7. LoadOK(p)'
    BY <1>0, <1>1, <1>4 DEF LoadOK
<1>8. KeyOK(p, files[p])' /\ RowsOK(p)'
    BY <1>0, <1>1 DEF KeyOK, RowsOK, Since
<1>9. label = "answer" => FreshSince(rows[p], begun[p])'
    <2>1. FreshSince(rows[p], begun[p])
        BY <1>0, FoundAll DEF ScanPc
    <2> QED
        BY <1>0, <2>1 DEF FreshSince
<1>10. ASSUME label = "create"
       PROVE  JobOK(p)'
    <2>1. PICK blob : blob = ReportBlob(p)
        OBVIOUS
    <2>2. blob.rows = rows[p] /\ blob.key = key[p] /\ key[p] # None
        BY <1>3, <1>10, <2>1 DEF ReportBlob
    <2>3. ASSUME NEW l \in Log
          PROVE  \/ blob.key[l] = 0 /\ blob.rows[l] = <<>>
                 \/ blob.key[l] \in 1 .. Len(versions[l]) /\ FreshRows(versions[l], blob.rows[l], blob.key[l])
        <3>1. CASE l \in files[p]
            <4>1. Since(p, l) \in begun[p][l] .. Len(versions[l]) /\ begun[p][l] \in 1 .. Len(versions[l])
                BY <1>0, <3>1, SinceOf DEF ScanPc
            <4>2. Since(p, l) = key[p][l] /\ FreshRows(versions[l], rows[p][l], Since(p, l))
                BY <1>0, <1>1, <2>2, <3>1 DEF RowsOK, Since
            <4>3. Len(versions[l]) \in Nat
                BY DEF IInv, Typed
            <4> QED
                BY <2>2, <4>1, <4>2, <4>3
        <3>2. CASE l \notin files[p]
            BY <1>0, <1>1, <2>2, <3>2 DEF LoadOK
        <3> QED
            BY <3>1, <3>2
    <2>4. BlobOK(Report, blob)
        BY <1>2, <2>2, <2>3 DEF BlobOK, ReportBlobOK
    <2>5. BlobOK(Report, blob)'
        BY <1>0, <2>4 DEF BlobOK, ReportBlobOK
    <2>6. job'[p] = [path |-> Report, blob |-> blob]
        BY <1>2, <1>3, <1>10, <2>1
    <2>7. todo'[p] = {} /\ key'[p] # None
        BY <1>0, <2>2
    <2> QED
        BY <2>5, <2>6, <2>7 DEF JobOK, Path
<1>11. ProcOK(p)'
    BY <1>0, <1>1, <1>4, <1>7, <1>8, <1>9, <1>10 DEF ProcOK, ScanPc
<1> QED
    BY <1>0, <1>6, <1>11, OfOne

----------------------------------------------------------------------------
\* A process that ends, and one that has not begun, have nothing to keep to.
LEMMA ForgetKeeps ==
    ASSUME IInv, NEW dead \in SUBSET Proc, Forget(dead), versions' = versions,
           cached' = cached \/ (DOMAIN cached' = Path /\ CachesOK'), tmp' = tmp, faults' \in Nat
    PROVE  IInv'
<1>1. Typed'
    <2>1. Typed
        BY DEF IInv
    <2>2. begun' \in [Proc -> [Log -> Nat] \cup {None}] /\ asked' \in [Proc -> Args \cup {None}]
        BY <2>1 DEF Typed, Forget
    <2>3. pc' \in [Proc -> {"idle", "stamp", "lookup", "answer"} \cup ScanPc]
        BY <2>1 DEF Typed, Forget
    <2>4. rows' \in [Proc -> [Log -> Seq(Record)]]
        <3>1. NoRows \in [Log -> Seq(Record)]
            BY DEF NoRows
        <3> QED
            BY <2>1, <3>1 DEF Typed, Forget
    <2>5. key' \in [Proc -> [Log -> Nat] \cup {None}] /\ stat' \in [Proc -> Nat]
          /\ at' \in [Proc -> Log \cup {None}]
        BY <2>1 DEF Typed, Forget
    <2>6. /\ files' \in [Proc -> SUBSET Log] /\ todo' \in [Proc -> SUBSET Log]
          /\ \A p \in Proc : todo'[p] \subseteq files'[p]
        BY <2>1 DEF Typed, Forget
    <2>7. DOMAIN job' = Proc /\ DOMAIN cached' = Path
        BY <2>1 DEF Typed, Forget
    <2> QED
        BY <2>1, <2>2, <2>3, <2>4, <2>5, <2>6, <2>7 DEF Typed
<1>2. /\ \A l \in Log : Len(versions'[l]) \in Nat /\ Len(versions[l]) <= Len(versions'[l])
      /\ \A l \in Log : \A k \in 1 .. Len(versions[l]) : versions'[l][k] = versions[l][k]
    BY DEF IInv, Typed
<1>3. CachesOK'
    BY <1>2, CachesStay DEF IInv
<1>4. ASSUME NEW q \in Proc
      PROVE  ProcOK(q)'
    <2>1. CASE q \in dead
        <3>1. pc'[q] = "idle" /\ begun'[q] = None /\ at'[q] = None
            BY <2>1 DEF Forget
        <3> QED
            BY <3>1 DEF ProcOK, ScanPc
    <2>2. CASE q \notin dead
        <3>1. /\ pc'[q] = pc[q] /\ begun'[q] = begun[q] /\ asked'[q] = asked[q]
              /\ files'[q] = files[q] /\ todo'[q] = todo[q] /\ key'[q] = key[q]
              /\ at'[q] = at[q] /\ stat'[q] = stat[q] /\ rows'[q] = rows[q] /\ job'[q] = job[q]
            BY <2>2 DEF Forget
        <3> QED
            BY <1>2, <3>1, ProcStays DEF IInv
    <2> QED
        BY <2>1, <2>2
<1> QED
    BY <1>1, <1>3, <1>4 DEF IInv

LEMMA PowerLossKeeps ==
    ASSUME IInv, PowerLoss
    PROVE  IInv'
<1>1. PICK path \in Path : cached' = [cached EXCEPT ![path] = Torn]
    BY DEF PowerLoss
<1>2. UNCHANGED <<versions, tmp>> /\ Forget(Proc) /\ faults' = faults + 1
    BY DEF PowerLoss, Fault
<1>3. DOMAIN cached' = Path
    BY <1>1 DEF IInv, Typed
<1>4. CachesOK'
    <2>1. ASSUME NEW other \in Path, cached'[other] \notin {None, Torn}
          PROVE  BlobOK(other, cached'[other])
        BY <1>1, <2>1 DEF IInv, Typed, CachesOK
    <2> QED
        BY <1>2, <2>1 DEF CachesOK, BlobOK, ParseBlobOK, ReportBlobOK, Path
<1>5. faults' \in Nat
    BY <1>2 DEF IInv, Typed
<1> QED
    BY <1>2, <1>3, <1>4, <1>5, ForgetKeeps

LEMMA ChangeLogKeeps ==
    ASSUME IInv, NEW l \in Log, ChangeLog(l)
    PROVE  IInv'
<1>0. UNCHANGED <<begun, asked, cached, tmp, pc, files, todo, key, at, stat, rows, job, faults>>
    BY DEF ChangeLog, loadVars
<1>1. PICK c \in Content : versions' = [versions EXCEPT ![l] = Append(versions[l], c)]
    BY DEF ChangeLog
<1>2. versions \in [Log -> Seq(Content)] /\ \A k \in Log : Len(versions[k]) \in Nat \ {0}
    BY DEF IInv, Typed
<1>3. /\ Append(versions[l], c) \in Seq(Content)
      /\ Len(Append(versions[l], c)) = Len(versions[l]) + 1
      /\ \A k \in 1 .. Len(versions[l]) : Append(versions[l], c)[k] = versions[l][k]
    BY <1>2
<1>4. versions' \in [Log -> Seq(Content)] /\ \A k \in Log : Len(versions'[k]) \in Nat \ {0}
    BY <1>1, <1>2, <1>3
<1>5. /\ \A k \in Log : Len(versions'[k]) \in Nat /\ Len(versions[k]) <= Len(versions'[k])
      /\ \A k \in Log : \A i \in 1 .. Len(versions[k]) : versions'[k][i] = versions[k][i]
    BY <1>1, <1>2, <1>3
<1>6. Typed'
    BY <1>0, <1>4 DEF IInv, Typed
<1>7. CachesOK'
    BY <1>0, <1>5, CachesStay DEF IInv
<1>8. ASSUME NEW q \in Proc
      PROVE  ProcOK(q)'
    BY <1>0, <1>5, ProcStays DEF IInv
<1> QED
    BY <1>6, <1>7, <1>8 DEF IInv

----------------------------------------------------------------------------
LEMMA InitHolds == Init => IInv
<1> SUFFICES ASSUME Init PROVE IInv
    OBVIOUS
<1>1. Typed
    <2>1. /\ versions \in [Log -> Seq(Content)]
          /\ \A l \in Log : Len(versions[l]) \in Nat \ {0}
        <3>1. \A c \in Content : <<c>> \in Seq(Content) /\ Len(<<c>>) = 1
            OBVIOUS
        <3>2. versions \in [Log -> {<<c>> : c \in Content}]
            BY DEF Init
        <3>3. \A l \in Log : \E c \in Content : versions[l] = <<c>>
            BY <3>2
        <3>4. DOMAIN versions = Log /\ versions = [l \in Log |-> versions[l]]
            BY <3>2
        <3>5. \A l \in Log : versions[l] \in Seq(Content) /\ Len(versions[l]) = 1
            BY <3>1, <3>3
        <3>6. [l \in Log |-> versions[l]] \in [Log -> Seq(Content)]
            BY <3>5
        <3> QED
            BY <3>4, <3>5, <3>6
    <2>2. rows \in [Proc -> [Log -> Seq(Record)]]
        BY DEF Init, NoRows
    <2> QED
        BY <2>1, <2>2 DEF Init, Typed
<1>2. CachesOK
    BY DEF Init, CachesOK
<1>3. ASSUME NEW p \in Proc
      PROVE  ProcOK(p)
    BY DEF Init, ProcOK, ScanPc
<1> QED
    BY <1>1, <1>2, <1>3 DEF IInv

\* A load's steps keep the invariant.
LEMMA LoadKeeps ==
    ASSUME IInv, NEW p \in Proc, Load(p)
    PROVE  IInv'
<1>1. CASE Return(p)
    BY <1>1, ForgetKeeps DEF Return, IInv, Typed
<1> QED
    BY <1>1, StampForKeyKeeps, ReadReportKeeps, StatLogKeeps, ReadUncachedKeeps, CheckCacheKeeps,
       ReadLogKeeps, CreateTmpKeeps, WriteFailsKeeps, RenameTmpKeeps, EndScanKeeps DEF Load

\* What every cache file and every load is worth, whatever dies and whatever changes.
THEOREM Invariance == Spec => []IInv
<1>1. ASSUME IInv, Next
      PROVE  IInv'
    <2>1. ASSUME NEW p \in Proc, Die(p)
          PROVE  IInv'
        <3>1. /\ Forget({p}) /\ versions' = versions /\ cached' = cached /\ tmp' = tmp
              /\ faults' = faults + 1
            BY <2>1 DEF Die, Fault
        <3>2. faults' \in Nat
            BY <1>1, <3>1 DEF IInv, Typed
        <3> QED
            BY <1>1, <3>1, <3>2, ForgetKeeps
    <2> QED
        BY <1>1, <2>1, ChangeLogKeeps, BeginsKeeps, LoadKeeps, PowerLossKeeps DEF Next, Start
<1>2. ASSUME IInv, UNCHANGED cacheVars
      PROVE  IInv'
    <2>1. UNCHANGED <<versions, begun, asked, cached, tmp, pc, files, todo, key, at, stat, rows, job,
                      faults>>
        BY <1>2 DEF cacheVars, loadVars
    <2>2. Typed'
        BY <1>2, <2>1 DEF IInv, Typed
    <2>3. /\ \A l \in Log : Len(versions'[l]) \in Nat /\ Len(versions[l]) <= Len(versions'[l])
          /\ \A l \in Log : \A k \in 1 .. Len(versions[l]) : versions'[l][k] = versions[l][k]
        BY <1>2, <2>1 DEF IInv, Typed
    <2>4. CachesOK'
        BY <1>2, <2>1, <2>3, CachesStay DEF IInv
    <2>5. ASSUME NEW q \in Proc
          PROVE  ProcOK(q)'
        BY <1>2, <2>1, <2>3, ProcStays DEF IInv
    <2> QED
        BY <2>2, <2>4, <2>5 DEF IInv
<1> QED
    BY <1>1, <1>2, InitHolds, PTL DEF Spec

\* The types of ParseCache, and that a parse cache counts the lines it holds.
THEOREM TypeCorrect == Spec => []TypeOK
<1>1. IInv => TypeOK
    <2> SUFFICES ASSUME IInv PROVE TypeOK
        OBVIOUS
    <2>1. Typed
        BY DEF IInv
    <2>2. \A l \in Log : versions[l] # <<>>
        BY <2>1 DEF Typed
    <2>3. ASSUME NEW l \in Log, cached[l] \notin {None, Torn}
          PROVE  cached[l].entries \in Seq(Record) /\ cached[l].parsed_len = Len(cached[l].entries)
        BY <2>3, CacheAssumption DEF IInv, CachesOK, BlobOK, ParseBlobOK, Path
    <2>4. ASSUME NEW p \in Proc, at[p] # None
          PROVE  at[p] \in todo[p]
        BY <2>4 DEF IInv, ProcOK
    <2> QED
        BY <2>1, <2>2, <2>3, <2>4 DEF Typed, TypeOK, ScanPc
<1> QED
    BY <1>1, Invariance, PTL

\* Every report answered, through whatever caches, is for its arguments and of versions the logs had
\* while it was being made: cached_scan and load_daily_summaries implement FreshLoad.
THEOREM Refinement == Spec => Fresh
<1>1. Init => FreshInit
    BY DEF Init, FreshInit
<1>2. ASSUME IInv, [Next]_cacheVars
      PROVE  [FreshNext]_freshVars
    <2>1. begun \in [Proc -> [Log -> Nat] \cup {None}] /\ asked \in [Proc -> Args \cup {None}]
        BY <1>2 DEF IInv, Typed
    <2>2. ASSUME NEW l \in Log, ChangeLog(l)
          PROVE  FreshNext
        BY <2>2 DEF ChangeLog, FreshNext, Change
    <2>3. ASSUME NEW p \in Proc, NEW a \in Args, Begins(p, a)
          PROVE  FreshNext
        <3>1. begun[p] = None
            BY <1>2, <2>3 DEF IInv, ProcOK, Begins
        <3> QED
            BY <2>3, <3>1 DEF Begins, Stamp, FreshNext, Begin
    <2>4. ASSUME NEW dead \in SUBSET Proc, Forget(dead), versions' = versions, answers' = {}
          PROVE  FreshNext
        BY <2>4 DEF Forget, FreshNext, Abandon
    <2>5. ASSUME NEW p \in Proc, Return(p)
          PROVE  FreshNext
        <3>1. begun[p] \in [Log -> Nat] /\ FreshSince(rows[p], begun[p])
            BY <1>2, <2>5 DEF IInv, ProcOK, LoadOK, Return
        <3>2. begun[p] # None
            BY <3>1, CacheAssumption
        <3>3. begun' = [begun EXCEPT ![p] = None] /\ asked' = [asked EXCEPT ![p] = None]
            BY <2>1, <2>5 DEF Return, Forget
        <3>4. \E b \in answers' : /\ answers' = {b}
                                  /\ b.by = p /\ b.args = asked[p]
                                  /\ FreshSince(b.rows, begun[p])
            BY <2>5, <3>1 DEF Return
        <3>5. Answer(p)
            BY <2>5, <3>2, <3>3, <3>4 DEF Answer, Return
        <3> QED
            BY <3>5 DEF FreshNext
    <2>6. ASSUME UNCHANGED <<versions, begun, asked>>, answers' = {}
          PROVE  FreshNext
        <3>1. /\ begun' = [p \in Proc |-> IF p \in {} THEN None ELSE begun[p]]
              /\ asked' = [p \in Proc |-> IF p \in {} THEN None ELSE asked[p]]
            BY <2>1, <2>6
        <3> QED
            BY <2>6, <3>1 DEF FreshNext, Abandon
    <2>7. ASSUME NEW p \in Proc, Load(p), ~Return(p)
          PROVE  UNCHANGED <<versions, begun, asked>> /\ answers' = {}
        BY <2>7 DEF Load, StampForKey, ReadReport, StatLog, ReadUncached, CheckCache, ReadLog,
                    CreateTmp, WriteFails, RenameTmp, EndScan
    <2>8. ASSUME NEW p \in Proc, Die(p)
          PROVE  FreshNext
        BY <2>4, <2>8 DEF Die
    <2>9. ASSUME PowerLoss
          PROVE  FreshNext
        BY <2>4, <2>9 DEF PowerLoss
    <2>10. CASE UNCHANGED cacheVars
        BY <2>10 DEF cacheVars, freshVars
    <2> QED
        BY <1>2, <2>2, <2>3, <2>5, <2>6, <2>7, <2>8, <2>9, <2>10 DEF Next, Start
<1> QED
    BY <1>1, <1>2, Invariance, PTL DEF Spec, Fresh, FreshSpec
=============================================================================
