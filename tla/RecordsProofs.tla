---------------------------- MODULE RecordsProofs ----------------------------
(***************************************************************************)
(* The records store for any number of queries, records, writes and        *)
(* overlay generations.                                                    *)
(*                                                                         *)
(* A query keeps hashes and generations across steps in which others       *)
(* write, so what it holds must go on being true of the store: the store   *)
(* only grows.  The invariant says of every row list and every index kept  *)
(* by a query or the cache which revision, or generation, it is; the       *)
(* growth of the store preserves it, and each step of a query has only to  *)
(* account for the row it changes.                                         *)
(*                                                                         *)
(* First the invariant, what growth preserves and the steps of a query,    *)
(* then the lists load returns and the revisions they belong to, then the  *)
(* writes, then the theorems.                                              *)
(***************************************************************************)
EXTENDS RecordsProperties, WellFoundedInduction, TLAPS

IsList(l, n) == n \in Nat /\ Len(l) = n /\ l = [i \in 1 .. n |-> l[i]]

IsVersion(x) == x = [id |-> x.id, raw |-> x.raw, from |-> x.from, to |-> x.to, seq |-> x.seq]

\* The table of versions at revision rev, when top is the last seq.
History(versions, top, rev) ==
    /\ rev \in Nat /\ top \in Nat
    /\ IsList(versions, Len(versions))
    /\ \A v \in 1..Len(versions) :
         /\ IsVersion(versions[v])
         /\ versions[v].seq \in 1..top /\ versions[v].from \in 1..rev /\ versions[v].to \in 0..rev
         /\ versions[v].raw[1] # 0

-----------------------------------------------------------------------------
(* The inductive invariant. *)

\* A hash names the records of a revision there is.
HashNames(hash, rev) ==
    /\ rev \in 0..recMeta.rev
    /\ Raws(recVersions, recMeta.seq, rev) = hash
    /\ hash # NoHash

\* Rows that hold the records a hash names, each with the version it was read from.
Held(rows, hash) ==
    /\ IsList(rows, Len(rows))
    /\ RawsOf(rows) = hash
    /\ \A i \in 1..Len(rows) : rows[i].version \in 1..Len(recVersions)

IndexOK(x) ==
    /\ x.hash # NoHash /\ Held(x.rows, x.hash)
    /\ x.gen \in 0..Len(recOverlay) /\ x.overlay = OverlayRows(x.gen)

RStore ==
    /\ History(recVersions, recMeta.seq, recMeta.rev)
    /\ recMeta.digest \in DOMAIN recMeta.at
    /\ recMeta.digest = Raws(recVersions, recMeta.seq, recMeta.rev)
    /\ \A h \in DOMAIN recMeta.at : HashNames(h, recMeta.at[h])
    /\ IsList(recOverlay, Len(recOverlay))
    /\ recWorld \in RecWorlds

\* What a query or the worker carries.
ProcOK(r) ==
    /\ r.pc \in {"idle", "scan", "save", "clear", "ask", "look", "lock", "wait", "load", "publish",
                 "derived", "waitDerived", "build", "keep", "select", "answer"}
    /\ r.pc \in {"scan", "save"} => r.changed \in BOOLEAN
    /\ r.pc = "save" => r.batch \in Nat
    /\ r.pc \notin {"idle", "scan", "save", "clear", "ask", "answer"} =>
         /\ HashNames(r.hash, r.rev) /\ r.indexed \in BOOLEAN
         /\ r.gen \in 0..Len(recOverlay) /\ (~r.indexed => r.gen = 0)
    /\ r.pc \in {"load", "publish"} => r.build \in Nat
    /\ r.pc \in {"publish", "derived", "waitDerived", "build", "select"} => Held(r.rows, r.hash)
    /\ r.pc \in {"derived", "waitDerived", "build", "keep"} => r.indexed
    /\ r.pc = "keep" => IndexOK(r.index) /\ r.index.hash = r.hash
    /\ r.pc = "select" /\ r.indexed => r.overlay = OverlayRows(r.gen)
    /\ r.pc = "answer" =>
         RawsOf(r.rows) = r.hash /\ r.gen \in 0..Len(recOverlay) /\ r.overlay = OverlayRows(r.gen)

RProcs ==
    /\ recProcs = [p \in RecProcs |-> recProcs[p]]
    /\ \A p \in RecProcs : ProcOK(recProcs[p])

IsCache(c) ==
    c = [current |-> c.current, snapshot |-> c.snapshot, loading |-> c.loading, build |-> c.build,
         selections |-> c.selections, derived |-> c.derived, derivedLoading |-> c.derivedLoading]

SnapshotOK(s) == s = NoSnapshot \/ (s.hash # NoHash /\ Held(s.rows, s.hash))

\* A cache whose contents are sound.
CacheOK(c) ==
    /\ IsCache(c)
    /\ c.build \in Nat
    /\ SnapshotOK(c.snapshot)
    /\ \A s \in c.selections : Held(s.rows, s.hash)
    /\ IsList(c.derived, Len(c.derived))
    /\ \A k \in 1..Len(c.derived) : IndexOK(c.derived[k])

RCache == CacheOK(recCache)

\* Whoever loads or builds is the one the cache names; a waiter waits for one.
RWaits ==
    /\ recCache.loading \in RecProcs \cup {"none"}
    /\ recCache.derivedLoading \in RecProcs \cup {"none"}
    /\ \A p \in RecProcs :
         /\ recCache.loading = p <=> recProcs[p].pc \in {"load", "publish"}
         /\ recCache.derivedLoading = p <=> recProcs[p].pc \in {"build", "keep"}
         /\ recProcs[p].pc = "wait" => recCache.loading # "none"
         /\ recProcs[p].pc = "waitDerived" => recCache.derivedLoading # "none"

\* A row without its token count is of a version the index does not cover.
Fresh(rows) == \A i \in 1..Len(rows) : rows[i].ready \/ rows[i].version > recIndexed

RecCalm == ~recFailures.torn /\ \A p \in RecProcs : ~Building(p)

RFresh ==
    /\ recIndexed \in Nat /\ recFailures.torn \in BOOLEAN
    /\ \A p \in RecProcs : recProcs[p].pc \in {"load", "publish"} => recProcs[p].build <= recCache.build
    /\ RecCalm =>
         /\ Fresh(recCache.snapshot.rows)
         /\ \A s \in recCache.selections : s.indexed \/ s.some \/ Fresh(s.rows)
         /\ \A p \in RecProcs :
              recProcs[p].pc = "publish" /\ recProcs[p].build = recCache.build => Fresh(recProcs[p].rows)

RInv == RStore /\ RProcs /\ RCache /\ RWaits /\ RFresh

-----------------------------------------------------------------------------
(* What a step keeps: names, rows and generations stay what they were. *)

Grows ==
    /\ \A h, r : HashNames(h, r) => HashNames(h, r)'
    /\ Len(recVersions) \in Nat /\ Len(recVersions') \in Nat /\ Len(recVersions') >= Len(recVersions)
    /\ Len(recOverlay) \in Nat /\ Len(recOverlay') \in Nat /\ Len(recOverlay') >= Len(recOverlay)
    /\ \A g \in 0..Len(recOverlay) : OverlayRows(g)' = OverlayRows(g)

LEMMA StoreLengths == ASSUME RStore PROVE Len(recVersions) \in Nat /\ Len(recOverlay) \in Nat
BY Zenon DEF RStore, History, IsList

\* A step that leaves the tables alone.
LEMMA QuietGrows ==
    ASSUME RStore, UNCHANGED <<recWorld, recVersions, recMeta, recOverlay>>
    PROVE  RStore' /\ Grows
<1>1. Len(recVersions) \in Nat /\ Len(recOverlay) \in Nat  BY StoreLengths, Zenon
<1>2. \A h, r : HashNames(h, r) => HashNames(h, r)'  BY Zenon DEF HashNames
<1>3. \A g : OverlayRows(g)' = OverlayRows(g)  BY Zenon DEF OverlayRows
<1>4. RStore'  BY <1>2, Zenon DEF RStore
<1> QED  BY <1>1, <1>2, <1>3, <1>4 DEF Grows

\* What was read stays read, whatever is written.
LEMMA HeldStays == ASSUME Grows, NEW rows, NEW hash, Held(rows, hash) PROVE Held(rows, hash)'
BY DEF Grows, Held

LEMMA IndexStays == ASSUME Grows, NEW x, IndexOK(x) PROVE IndexOK(x)'
<1>1. Held(x.rows, x.hash)'  BY HeldStays, Zenon DEF IndexOK
<1> QED  BY <1>1 DEF Grows, IndexOK

LEMMA ProcStays == ASSUME Grows, NEW r, ProcOK(r) PROVE ProcOK(r)'
<1>1. r.pc \notin {"idle", "scan", "save", "clear", "ask", "answer"} =>
        /\ HashNames(r.hash, r.rev)' /\ r.indexed \in BOOLEAN
        /\ r.gen \in 0..Len(recOverlay') /\ (~r.indexed => r.gen = 0)
  BY DEF Grows, ProcOK
<1>2. r.pc \in {"publish", "derived", "waitDerived", "build", "select"} => Held(r.rows, r.hash)'
  BY HeldStays, Zenon DEF ProcOK
<1>3. r.pc = "keep" => IndexOK(r.index)' /\ r.index.hash = r.hash  BY IndexStays, Zenon DEF ProcOK
<1>4. r.pc = "select" /\ r.indexed => r.overlay = OverlayRows(r.gen)'
  <2>1. r.pc = "select" => r.gen \in 0..Len(recOverlay)  BY Zenon DEF ProcOK
  <2> QED  BY <2>1, Zenon DEF Grows, ProcOK
<1>5. r.pc = "answer" =>
        /\ RawsOf(r.rows) = r.hash /\ r.gen \in 0..Len(recOverlay') /\ r.overlay = OverlayRows(r.gen)'
  BY DEF Grows, ProcOK
<1> QED  BY <1>1, <1>2, <1>3, <1>4, <1>5, Zenon DEF ProcOK

\* One query or the worker moves on.
LEMMA ProcsGo ==
    ASSUME RProcs, Grows, NEW p \in RecProcs, NEW r, ProcOK(r), recProcs' = [recProcs EXCEPT ![p] = r]
    PROVE  RProcs' /\ \A q \in RecProcs : recProcs'[q] = IF q = p THEN r ELSE recProcs[q]
<1>1. recProcs = [q \in RecProcs |-> recProcs[q]]  BY Zenon DEF RProcs
<1>2. /\ recProcs' = [q \in RecProcs |-> recProcs'[q]]
      /\ \A q \in RecProcs : recProcs'[q] = IF q = p THEN r ELSE recProcs[q]
  BY <1>1, Zenon
<1>3. \A q \in RecProcs : ProcOK(recProcs'[q])
  BY <1>2, Zenon DEF RProcs
<1>4. \A q \in RecProcs : ProcOK(recProcs[q])'
  <2> SUFFICES ASSUME NEW q \in RecProcs PROVE ProcOK(recProcs[q])'  BY Zenon
  <2>1. PICK x : x = recProcs'[q]  BY Zenon
  <2>2. ProcOK(x)'  BY <1>3, <2>1, ProcStays, Zenon
  <2> QED  BY <2>1, <2>2, Zenon
<1> QED  BY <1>2, <1>4, Zenon DEF RProcs

LEMMA ProcsKept ==
    ASSUME RProcs, Grows, recProcs' = recProcs
    PROVE  RProcs'
<1> SUFFICES ASSUME NEW q \in RecProcs PROVE ProcOK(recProcs[q])'  BY Zenon DEF RProcs
<1>1. PICK x : x = recProcs[q]  BY Zenon
<1>2. ProcOK(x)'  BY <1>1, ProcStays, Zenon DEF RProcs
<1> QED  BY <1>1, <1>2, Zenon

LEMMA CacheStays == ASSUME Grows, NEW c, CacheOK(c) PROVE CacheOK(c)'
<1>1. SnapshotOK(c.snapshot)'  BY HeldStays, Zenon DEF CacheOK, SnapshotOK
<1>2. \A s \in c.selections : Held(s.rows, s.hash)'  BY HeldStays, Zenon DEF CacheOK
<1>3. \A k \in 1..Len(c.derived) : IndexOK(c.derived[k])'  BY IndexStays, Zenon DEF CacheOK
<1> QED  BY <1>1, <1>2, <1>3, Zenon DEF CacheOK, IsCache

LEMMA CacheGo == ASSUME Grows, NEW c, CacheOK(c), recCache' = c PROVE RCache'
<1>1. CacheOK(c)'  BY CacheStays, Zenon
<1> QED  BY <1>1, Zenon DEF CacheOK, RCache

-----------------------------------------------------------------------------
(* One query or the worker moves on, and the cache with it. *)

Loads == {"load", "publish"}
Builds == {"build", "keep"}

Busy(r) == r.pc \in {"scan", "save", "clear"} /\ (r.pc = "clear" \/ r.changed)

\* A cache the waiters of the old one may go on waiting for.
Waited(c, p, r) ==
    /\ c.loading \in RecProcs \cup {"none"} /\ c.derivedLoading \in RecProcs \cup {"none"}
    /\ \A q \in RecProcs : q # p =>
         (c.loading = q <=> recCache.loading = q) /\ (c.derivedLoading = q <=> recCache.derivedLoading = q)
    /\ c.loading = p <=> r.pc \in Loads
    /\ c.derivedLoading = p <=> r.pc \in Builds

\* Nothing is read late into it.
KeepsFresh(c, p, r) ==
    /\ ~recFailures'.torn => ~recFailures.torn /\ (Busy(r) \/ ~Building(p))
    /\ c.build = recCache.build
    /\ r.pc \in Loads => r.build <= c.build
    /\ RecCalm =>
         /\ Fresh(c.snapshot.rows)
         /\ \A s \in c.selections : s.indexed \/ s.some \/ Fresh(s.rows)
         /\ r.pc = "publish" /\ r.build = c.build => Fresh(r.rows)

\* Nothing older than the last build is kept when the step keeps nothing new, or something as new.
LEMMA FreshGo ==
    ASSUME RFresh, NEW p \in RecProcs, NEW r, NEW c, KeepsFresh(c, p, r), recCache' = c,
           recIndexed' = recIndexed, recFailures'.torn \in BOOLEAN,
           recProcs'[p] = r,
           \A q \in RecProcs : q # p =>
             /\ Busy(recProcs'[q]) <=> Busy(recProcs[q])
             /\ recProcs'[q].pc \in Loads => recProcs'[q] = recProcs[q]
    PROVE  RFresh'
<1>1. RecCalm' => RecCalm
  <2> SUFFICES ASSUME RecCalm' PROVE RecCalm  BY Zenon
  <2>1. \A q \in RecProcs : ~Busy(recProcs'[q])  BY Zenon DEF RecCalm, Building, Busy
  <2>2. \A q \in RecProcs : q # p => ~Building(q)  BY <2>1, Zenon DEF Building, Busy
  <2>3. ~recFailures.torn /\ ~Building(p)  BY <2>1, Zenon DEF RecCalm, KeepsFresh
  <2> QED  BY <2>2, <2>3, Zenon DEF RecCalm
<1>2. \A q \in RecProcs : recProcs'[q].pc \in Loads => recProcs'[q].build <= recCache'.build
  BY Zenon DEF RFresh, KeepsFresh, Loads
<1>3. \A rows : Fresh(rows)' <=> Fresh(rows)  BY Zenon DEF Fresh
<1>4. ASSUME RecCalm
      PROVE  /\ Fresh(c.snapshot.rows)
             /\ \A s \in c.selections : s.indexed \/ s.some \/ Fresh(s.rows)
             /\ \A q \in RecProcs :
                  recProcs'[q].pc = "publish" /\ recProcs'[q].build = c.build => Fresh(recProcs'[q].rows)
  BY <1>4, Zenon DEF RFresh, KeepsFresh, Loads
<1>5. RecCalm' =>
        /\ Fresh(recCache.snapshot.rows)'
        /\ \A s \in recCache'.selections : s.indexed \/ s.some \/ Fresh(s.rows)'
        /\ \A q \in RecProcs :
             recProcs'[q].pc = "publish" /\ recProcs'[q].build = recCache'.build => Fresh(recProcs[q].rows)'
  <2>1. Fresh(recCache.snapshot.rows)' <=> Fresh(c.snapshot.rows)  BY Zenon DEF Fresh
  <2>2. \A q \in RecProcs : Fresh(recProcs[q].rows)' <=> Fresh(recProcs'[q].rows)  BY Zenon DEF Fresh
  <2> QED  BY <1>1, <1>3, <1>4, <2>1, <2>2, Zenon
<1>6. recIndexed' \in Nat  BY Zenon DEF RFresh
<1> QED  BY <1>2, <1>5, <1>6, Zenon DEF RFresh, Loads

\* Whoever waits still waits for someone.
LEMMA WaitsGo ==
    ASSUME RWaits, NEW p \in RecProcs, NEW r, NEW c, Waited(c, p, r), recCache' = c,
           recProcs'[p] = r, r.pc = "wait" => c.loading # "none",
           r.pc = "waitDerived" => c.derivedLoading # "none",
           \A q \in RecProcs : q # p =>
             /\ recProcs'[q].pc \in Loads <=> recProcs[q].pc \in Loads
             /\ recProcs'[q].pc \in Builds <=> recProcs[q].pc \in Builds
             /\ recProcs'[q].pc = "wait" => c.loading # "none"
             /\ recProcs'[q].pc = "waitDerived" => c.derivedLoading # "none"
    PROVE  RWaits'
BY DEF RWaits, Waited, Loads, Builds

\* A step of one query that leaves the tables alone.
LEMMA Moves ==
    ASSUME RInv, NEW p \in RecProcs, NEW r, NEW c, ProcOK(r), CacheOK(c),
           recProcs' = [recProcs EXCEPT ![p] = r], recCache' = c,
           UNCHANGED <<recWorld, recVersions, recMeta, recOverlay, recIndexed>>,
           recFailures'.torn \in BOOLEAN,
           Waited(c, p, r), KeepsFresh(c, p, r),
           recCache.loading # "none" => c.loading # "none",
           recCache.derivedLoading # "none" => c.derivedLoading # "none",
           r.pc = "wait" => c.loading # "none",
           r.pc = "waitDerived" => c.derivedLoading # "none"
    PROVE  RInv'
<1>1. RStore' /\ Grows  BY QuietGrows, Zenon DEF RInv
<1>2. RProcs' /\ \A q \in RecProcs : recProcs'[q] = IF q = p THEN r ELSE recProcs[q]
  BY <1>1, ProcsGo, Zenon DEF RInv
<1>3. RCache'  BY <1>1, CacheGo, Zenon
<1>4. /\ recProcs'[p] = r
      /\ \A q \in RecProcs : q # p => recProcs'[q] = recProcs[q]
  BY <1>2, Zenon
<1>5. RWaits'
  <2>1. \A q \in RecProcs : /\ recProcs[q].pc = "wait" => c.loading # "none"
                            /\ recProcs[q].pc = "waitDerived" => c.derivedLoading # "none"
    BY Zenon DEF RInv, RWaits
  <2> QED  BY <1>4, <2>1, WaitsGo DEF RInv
<1>6. RFresh'  BY <1>4, FreshGo, Zenon DEF RInv
<1> QED  BY <1>1, <1>2, <1>3, <1>5, <1>6, Zenon DEF RInv

\* The cache stays as it is.
LEMMA MovesAlone ==
    ASSUME RInv, NEW p \in RecProcs, NEW r, ProcOK(r), Go(p, r),
           UNCHANGED <<recWorld, recVersions, recMeta, recOverlay, recIndexed, recCache, recFailures>>,
           r.pc \in Loads <=> recProcs[p].pc \in Loads,
           r.pc \in Builds <=> recProcs[p].pc \in Builds,
           r.pc = "wait" => recCache.loading # "none",
           r.pc = "waitDerived" => recCache.derivedLoading # "none",
           Busy(r) \/ ~Building(p),
           r.pc \in Loads => r.build = recProcs[p].build,
           r.pc = "publish" => Fresh(r.rows)
    PROVE  RInv'
<1>1. PICK c : c = recCache  BY Zenon
<1>2. Waited(c, p, r)  BY <1>1, Zenon DEF RInv, RWaits, Waited, Loads, Builds
<1>3. c.build = recCache.build /\ (r.pc \in Loads => r.build <= c.build)
  BY <1>1, Zenon DEF RInv, RFresh, Loads
<1>4. KeepsFresh(c, p, r)
  BY <1>1, <1>3, Zenon DEF RInv, RFresh, KeepsFresh
<1>5. CacheOK(c) /\ recCache' = c /\ recFailures'.torn \in BOOLEAN  BY <1>1, Zenon DEF RInv, RCache, RFresh
<1>6. recProcs' = [recProcs EXCEPT ![p] = r]  BY Zenon DEF Go
<1> QED  BY <1>1, <1>2, <1>4, <1>5, <1>6, Moves, Zenon

\* A query that carries nothing yet.
LEMMA PlainProc ==
    ASSUME NEW r, r.pc \in {"idle", "clear", "ask"} PROVE ProcOK(r) /\ r.pc \notin Loads \cup Builds
BY Zenon DEF ProcOK, Loads, Builds

LEMMA WokenInv == ASSUME RInv, Woken PROVE RInv'
<1>1. PICK r : r = [pc |-> "scan", changed |-> FALSE]  BY Zenon
<1>2. ProcOK(r) /\ r.pc = "scan" /\ r.changed = FALSE /\ r.pc \notin Loads \cup Builds
  BY <1>1, Zenon DEF ProcOK, Loads, Builds
<1>3. Worker \in RecProcs  BY Zenon DEF RecProcs
<1>4. recProcs[Worker].pc = "idle" /\ ~Building(Worker)  BY Zenon DEF Woken, RecAt, Building
<1>5. Go(Worker, r)  BY <1>1, Zenon DEF Woken
<1>6. UNCHANGED <<recWorld, recVersions, recMeta, recOverlay, recIndexed, recCache, recFailures>>  BY Zenon DEF Woken
<1> QED  BY <1>2, <1>3, <1>4, <1>5, <1>6, MovesAlone, Zenon DEF Loads, Builds

LEMMA ScanInv == ASSUME RInv, NEW p \in RecProcs, Scan(p) PROVE RInv'
<1>0. /\ recProcs[p].pc = "scan" /\ recProcs[p].changed \in BOOLEAN
      /\ recIndexed \in Nat
  BY Zenon DEF RInv, RProcs, RFresh, ProcOK, Scan, RecAt
<1>a. UNCHANGED <<recWorld, recVersions, recMeta, recOverlay, recIndexed, recCache, recFailures>>  BY Zenon DEF Scan
<1>1. CASE recIndexed < Len(recVersions)
  <2>1. PICK r : r = [pc |-> "save", changed |-> recProcs[p].changed, batch |-> recIndexed + 1]  BY Zenon
  <2>2. r.pc = "save" /\ r.changed = recProcs[p].changed /\ r.batch \in Nat  BY <1>0, <2>1
  <2>3. ProcOK(r) /\ r.pc \notin Loads \cup Builds /\ (Busy(r) \/ ~Building(p))
    BY <1>0, <2>2, Zenon DEF ProcOK, Loads, Builds, Busy, Building
  <2>4. Go(p, r)  BY <1>1, <2>1, Zenon DEF Scan
  <2> QED  BY <1>0, <1>a, <2>2, <2>3, <2>4, MovesAlone, Zenon DEF Loads, Builds
<1>2. CASE ~(recIndexed < Len(recVersions))
  <2>1. PICK r : r = IF recProcs[p].changed THEN [pc |-> "clear"] ELSE [pc |-> "ask"]  BY Zenon
  <2>2. r.pc \in {"clear", "ask"} /\ (recProcs[p].changed => r.pc = "clear")  BY <2>1, Zenon
  <2>3. ProcOK(r) /\ r.pc \notin Loads \cup Builds  BY <2>2, PlainProc
  <2>4. Busy(r) \/ ~Building(p)  BY <1>0, <2>2, Zenon DEF Busy, Building
  <2>5. Go(p, r)  BY <1>2, <2>1, Zenon DEF Scan
  <2> QED  BY <1>0, <1>a, <2>2, <2>3, <2>4, <2>5, MovesAlone, Zenon DEF Loads, Builds
<1> QED  BY <1>1, <1>2, Zenon

LEMMA StartQueryInv == ASSUME RInv, NEW p \in RecProcs, StartQuery(p) PROVE RInv'
<1>0. recProcs[p].pc = "idle" /\ ~Building(p)  BY Zenon DEF StartQuery, RecAt, Building
<1>a. UNCHANGED <<recWorld, recVersions, recMeta, recOverlay, recIndexed, recCache, recFailures>>  BY Zenon DEF StartQuery
<1>1. PICK r : Go(p, r) /\ r \in {[pc |-> "scan", changed |-> FALSE], [pc |-> "ask"]}  BY Zenon DEF StartQuery
<1>2. r.pc \in {"scan", "ask"} /\ (r.pc = "scan" => r.changed = FALSE)  BY <1>1
<1>3. ProcOK(r) /\ r.pc \notin Loads \cup Builds  BY <1>2, Zenon DEF ProcOK, Loads, Builds
<1> QED  BY <1>0, <1>a, <1>1, <1>2, <1>3, MovesAlone, Zenon DEF Loads, Builds

LEMMA ReturnInv == ASSUME RInv, NEW p \in RecProcs, Return(p) PROVE RInv'
<1>0. recProcs[p].pc = "answer" /\ ~Building(p)  BY Zenon DEF Return, RecAt, Building
<1>a. UNCHANGED <<recWorld, recVersions, recMeta, recOverlay, recIndexed, recCache, recFailures>>  BY Zenon DEF Return
<1>1. PICK r : Go(p, r) /\ r = RecIdle  BY Zenon DEF Return
<1>2. r.pc = "idle"  BY <1>1, Zenon DEF RecIdle
<1>3. ProcOK(r) /\ r.pc \notin Loads \cup Builds  BY <1>2, PlainProc
<1> QED  BY <1>0, <1>a, <1>1, <1>2, <1>3, MovesAlone, Zenon DEF Loads, Builds

LEMMA AskInv == ASSUME RInv, NEW p \in RecProcs, Ask(p) PROVE RInv'
<1>0. recProcs[p].pc = "ask" /\ ~Building(p)  BY Zenon DEF Ask, RecAt, Building
<1>a. UNCHANGED <<recWorld, recVersions, recMeta, recOverlay, recIndexed, recCache, recFailures>>  BY Zenon DEF Ask
<1>1. PICK hash, indexed :
        /\ hash \in DOMAIN recMeta.at /\ indexed \in {FALSE} \cup recWorld.indexed
        /\ Go(p, [pc |-> "look", hash |-> hash, rev |-> recMeta.at[hash], indexed |-> indexed,
                  gen |-> IF indexed THEN Len(recOverlay) ELSE 0])
  BY Zenon DEF Ask, RInv, RStore
<1>2. PICK r : r = [pc |-> "look", hash |-> hash, rev |-> recMeta.at[hash], indexed |-> indexed,
                    gen |-> IF indexed THEN Len(recOverlay) ELSE 0]
  BY Zenon
<1>3. HashNames(r.hash, r.rev)  BY <1>1, <1>2, Zenon DEF RInv, RStore
<1>4. r.indexed \in BOOLEAN /\ r.gen \in 0..Len(recOverlay) /\ (~r.indexed => r.gen = 0)
  <2>1. recWorld.indexed \subseteq BOOLEAN  BY RecordsAssumption, Zenon DEF RInv, RStore
  <2>2. indexed \in BOOLEAN  BY <1>1, <2>1, Zenon
  <2>3. Len(recOverlay) \in Nat  BY StoreLengths, Zenon DEF RInv
  <2>4. r.indexed = indexed /\ r.gen = IF indexed THEN Len(recOverlay) ELSE 0  BY <1>2, Zenon
  <2> QED  BY <2>2, <2>3, <2>4
<1>5. ProcOK(r) /\ r.pc = "look" /\ r.pc \notin Loads \cup Builds
  BY <1>2, <1>3, <1>4, Zenon DEF ProcOK, Loads, Builds
<1> QED  BY <1>0, <1>a, <1>1, <1>2, <1>5, MovesAlone, Zenon DEF Loads, Builds

-----------------------------------------------------------------------------
(* A query that knows its revision. *)

LEMMA Carried ==
    ASSUME RInv, NEW p \in RecProcs, recProcs[p].pc \notin {"idle", "scan", "save", "clear", "ask", "answer"}
    PROVE  /\ HashNames(recProcs[p].hash, recProcs[p].rev) /\ recProcs[p].indexed \in BOOLEAN
           /\ recProcs[p].gen \in 0..Len(recOverlay) /\ (~recProcs[p].indexed => recProcs[p].gen = 0)
           /\ ~Building(p)
BY Zenon DEF RInv, RProcs, ProcOK, Building

\* The same question, further on.
LEMMA SameQuestion ==
    ASSUME RInv, NEW p \in RecProcs, recProcs[p].pc \notin {"idle", "scan", "save", "clear", "ask", "answer"},
           NEW r, r.hash = recProcs[p].hash, r.rev = recProcs[p].rev, r.indexed = recProcs[p].indexed,
           r.gen = recProcs[p].gen
    PROVE  /\ r.pc \in {"look", "lock", "wait"} => ProcOK(r)
           /\ r.pc = "load" /\ r.build \in Nat => ProcOK(r)
           /\ r.pc = "publish" /\ r.build \in Nat /\ Held(r.rows, r.hash) => ProcOK(r)
           /\ r.pc \in {"derived", "waitDerived", "build"} /\ r.indexed /\ Held(r.rows, r.hash) => ProcOK(r)
           /\ r.pc = "select" /\ Held(r.rows, r.hash) /\ ~r.indexed => ProcOK(r)
<1>1. /\ HashNames(r.hash, r.rev) /\ r.indexed \in BOOLEAN
      /\ r.gen \in 0..Len(recOverlay) /\ (~r.indexed => r.gen = 0)
  BY Carried, Zenon
<1>2. r.pc \in {"look", "lock", "wait"} => ProcOK(r)  BY <1>1, Zenon DEF ProcOK
<1>3. r.pc = "load" /\ r.build \in Nat => ProcOK(r)  BY <1>1, Zenon DEF ProcOK
<1>4. r.pc = "publish" /\ r.build \in Nat /\ Held(r.rows, r.hash) => ProcOK(r)  BY <1>1, Zenon DEF ProcOK
<1>5. r.pc \in {"derived", "waitDerived", "build"} /\ r.indexed /\ Held(r.rows, r.hash) => ProcOK(r)
  BY <1>1, Zenon DEF ProcOK
<1>6. r.pc = "select" /\ Held(r.rows, r.hash) /\ ~r.indexed => ProcOK(r)  BY <1>1, Zenon DEF ProcOK
<1> QED  BY <1>2, <1>3, <1>4, <1>5, <1>6, Zenon

LEMMA LookInv == ASSUME RInv, NEW p \in RecProcs, Look(p) PROVE RInv'
<1>0. recProcs[p].pc = "look"  BY Zenon DEF Look, RecAt
<1>a. UNCHANGED <<recWorld, recVersions, recMeta, recOverlay, recIndexed, recCache, recFailures>>  BY Zenon DEF Look
<1>1. PICK r : Go(p, r) /\ r = [pc |-> "lock", hash |-> recProcs[p].hash, rev |-> recProcs[p].rev,
                                indexed |-> recProcs[p].indexed, gen |-> recProcs[p].gen, current |-> recMeta.digest]
  BY Zenon DEF Look
<1>2. ProcOK(r)  BY <1>0, <1>1, SameQuestion, Zenon
<1>3. r.pc = "lock" /\ r.pc \notin Loads \cup Builds  BY <1>1, Zenon DEF Loads, Builds
<1>4. ~Building(p)  BY <1>0, Zenon DEF Building
<1> QED  BY <1>0, <1>a, <1>1, <1>2, <1>3, <1>4, MovesAlone, Zenon DEF Loads, Builds

\* A cache that keeps what the old one had, or forgets it.
LEMMA RefreshedCache ==
    ASSUME RInv, NEW current
    PROVE  LET c == Refreshed(current) IN
           /\ CacheOK(c) /\ c.loading = recCache.loading /\ c.derivedLoading = recCache.derivedLoading
           /\ c.build = recCache.build
           /\ RecCalm => Fresh(c.snapshot.rows) /\ \A s \in c.selections : s.indexed \/ s.some \/ Fresh(s.rows)
<1>1. CASE recCache.current = current
  BY <1>1, Zenon DEF Refreshed, RInv, RCache, RFresh
<1>2. CASE recCache.current # current
  <2>1. PICK c : c = Refreshed(current)  BY Zenon
  <2>2. c = [recCache EXCEPT !.current = current, !.snapshot = NoSnapshot, !.selections = {}]
    BY <1>2, <2>1, Zenon DEF Refreshed
  <2>3. c = [current |-> current, snapshot |-> NoSnapshot, loading |-> recCache.loading, build |-> recCache.build,
             selections |-> {}, derived |-> recCache.derived, derivedLoading |-> recCache.derivedLoading]
    BY <2>2, Zenon DEF RInv, RCache, CacheOK, IsCache
  <2>4. IsCache(c)  BY <2>3, Zenon DEF IsCache
  <2>5. /\ c.snapshot = NoSnapshot /\ c.selections = {} /\ c.derived = recCache.derived /\ c.build = recCache.build
        /\ c.loading = recCache.loading /\ c.derivedLoading = recCache.derivedLoading
    BY <2>3, Zenon
  <2>6. CacheOK(c)  BY <2>4, <2>5, Zenon DEF CacheOK, SnapshotOK, RInv, RCache
  <2>7. Fresh(c.snapshot.rows)  BY <2>5 DEF Fresh, NoSnapshot
  <2> QED  BY <2>1, <2>5, <2>6, <2>7, Zenon
<1> QED  BY <1>1, <1>2, Zenon

LEMMA LockInv == ASSUME RInv, NEW p \in RecProcs, Lock(p) PROVE RInv'
<1>0. recProcs[p].pc = "lock" /\ ~Building(p)  BY Zenon DEF Lock, RecAt, Building
<1>a. UNCHANGED <<recWorld, recVersions, recMeta, recOverlay, recIndexed, recFailures>>  BY Zenon DEF Lock
<1>b. recFailures'.torn \in BOOLEAN /\ recFailures'.torn = recFailures.torn  BY <1>a, Zenon DEF RInv, RFresh
<1>1. PICK d : d = Refreshed(recProcs[p].current)  BY Zenon
<1>2. /\ CacheOK(d) /\ d.loading = recCache.loading /\ d.derivedLoading = recCache.derivedLoading
      /\ d.build = recCache.build
      /\ RecCalm => Fresh(d.snapshot.rows) /\ \A s \in d.selections : s.indexed \/ s.some \/ Fresh(s.rows)
  BY <1>1, RefreshedCache, Zenon
<1>3. LockAs(p, d)  BY <1>1, Zenon DEF Lock
<1>4. /\ recCache.loading # p /\ recCache.derivedLoading # p
      /\ recCache.loading \in RecProcs \cup {"none"} /\ recCache.derivedLoading \in RecProcs \cup {"none"}
  BY <1>0, Zenon DEF RInv, RWaits
<1>5. HashNames(recProcs[p].hash, recProcs[p].rev) /\ recProcs[p].indexed \in BOOLEAN  BY <1>0, Carried, Zenon
<1>6. CASE d.snapshot.hash = recProcs[p].hash
  <2>1. PICK r : r = RecHolding(recProcs[p], RecAfter(recProcs[p]), d.snapshot.rows)  BY Zenon
  <2>2. recCache' = d /\ recProcs' = [recProcs EXCEPT ![p] = r]  BY <1>3, <1>6, <2>1, Zenon DEF LockAs, Go
  <2>3. Held(d.snapshot.rows, recProcs[p].hash)
    <3>1. d.snapshot = NoSnapshot \/ Held(d.snapshot.rows, d.snapshot.hash)  BY <1>2, Zenon DEF CacheOK, SnapshotOK
    <3>2. recProcs[p].hash # NoHash /\ NoSnapshot.hash = NoHash  BY <1>5, Zenon DEF HashNames, NoSnapshot
    <3> QED  BY <1>6, <3>1, <3>2, Zenon
  <2>4. /\ r.hash = recProcs[p].hash /\ r.rev = recProcs[p].rev /\ r.indexed = recProcs[p].indexed
        /\ r.gen = recProcs[p].gen /\ r.rows = d.snapshot.rows
        /\ r.pc = IF recProcs[p].indexed THEN "derived" ELSE "select"
    BY <2>1, Zenon DEF RecHolding, RecAfter
  <2>5. ProcOK(r)  BY <1>0, <1>5, <2>3, <2>4, SameQuestion, Zenon
  <2>6. r.pc \in {"derived", "select"}  BY <2>4, Zenon
  <2>7. Waited(d, p, r)  BY <1>2, <1>4, <2>6, Zenon DEF Waited, Loads, Builds
  <2>8. KeepsFresh(d, p, r)  BY <1>0, <1>2, <1>b, <2>6, Zenon DEF KeepsFresh, Loads
  <2> QED  BY <1>2, <1>a, <1>b, <2>2, <2>5, <2>6, <2>7, <2>8, Moves, Zenon
<1>7. CASE d.snapshot.hash # recProcs[p].hash /\ d.loading # "none"
  <2>1. PICK r : r = RecAsked(recProcs[p], "wait")  BY Zenon
  <2>2. recCache' = d /\ recProcs' = [recProcs EXCEPT ![p] = r]  BY <1>3, <1>7, <2>1, Zenon DEF LockAs, Go
  <2>3. /\ r.hash = recProcs[p].hash /\ r.rev = recProcs[p].rev /\ r.indexed = recProcs[p].indexed
        /\ r.gen = recProcs[p].gen /\ r.pc = "wait"
    BY <2>1, Zenon DEF RecAsked
  <2>4. ProcOK(r)  BY <1>0, <2>3, SameQuestion, Zenon
  <2>5. Waited(d, p, r)  BY <1>2, <1>4, <2>3, Zenon DEF Waited, Loads, Builds
  <2>6. KeepsFresh(d, p, r)  BY <1>0, <1>2, <1>b, <2>3, Zenon DEF KeepsFresh, Loads
  <2> QED  BY <1>2, <1>7, <1>a, <1>b, <2>2, <2>3, <2>4, <2>5, <2>6, Moves, Zenon
<1>8. CASE d.snapshot.hash # recProcs[p].hash /\ d.loading = "none"
  <2>0. PICK c : c = [d EXCEPT !.loading = p]  BY Zenon
  <2>1. PICK r : r = [pc |-> "load", hash |-> recProcs[p].hash, rev |-> recProcs[p].rev,
                      indexed |-> recProcs[p].indexed, gen |-> recProcs[p].gen,
                      current |-> recProcs[p].current, build |-> d.build]
    BY Zenon
  <2>2. recCache' = c /\ recProcs' = [recProcs EXCEPT ![p] = r]  BY <1>3, <1>8, <2>0, <2>1, Zenon DEF LockAs, Go
  <2>3. /\ r.hash = recProcs[p].hash /\ r.rev = recProcs[p].rev /\ r.indexed = recProcs[p].indexed
        /\ r.gen = recProcs[p].gen /\ r.pc = "load" /\ r.build = d.build
    BY <2>1, Zenon
  <2>4. d.build \in Nat  BY <1>2, Zenon DEF CacheOK
  <2>5. ProcOK(r)  BY <1>0, <2>3, <2>4, SameQuestion, Zenon
  <2>6. c = [current |-> d.current, snapshot |-> d.snapshot, loading |-> p, build |-> d.build,
             selections |-> d.selections, derived |-> d.derived, derivedLoading |-> d.derivedLoading]
    BY <1>2, <2>0, Zenon DEF CacheOK, IsCache
  <2>7. /\ c.snapshot = d.snapshot /\ c.selections = d.selections /\ c.derived = d.derived /\ c.build = d.build
        /\ c.loading = p /\ c.derivedLoading = d.derivedLoading
    BY <2>6, Zenon
  <2>8. IsCache(c)  BY <2>6, Zenon DEF IsCache
  <2>9. CacheOK(c)  BY <1>2, <2>7, <2>8, Zenon DEF CacheOK
  <2>10. recCache.loading = "none" /\ "none" \notin RecProcs
    BY <1>2, <1>8, RecordsAssumption, Zenon DEF RecProcs, Worker
  <2>11. Waited(c, p, r)  BY <1>2, <1>4, <2>3, <2>7, <2>10, Zenon DEF Waited, Loads, Builds
  <2>12. KeepsFresh(c, p, r)  BY <1>0, <1>2, <1>b, <2>3, <2>4, <2>7 DEF KeepsFresh, Loads
  <2> QED  BY <1>2, <1>a, <1>b, <2>2, <2>3, <2>5, <2>7, <2>9, <2>10, <2>11, <2>12, Moves, Zenon
<1> QED  BY <1>6, <1>7, <1>8, Zenon

-----------------------------------------------------------------------------
(* The end of a load or of a build. *)

\* The others stay where they are, or are woken.
Stays(q, c) ==
    /\ recProcs'[q] = recProcs[q]
    /\ recProcs[q].pc = "wait" => c.loading # "none"
    /\ recProcs[q].pc = "waitDerived" => c.derivedLoading # "none"
IsWoken(q) ==
    /\ recProcs[q].pc \in {"wait", "waitDerived"}
    /\ recProcs'[q].pc \in {"look", "derived"} /\ ProcOK(recProcs'[q])

LEMMA WakenedInv ==
    ASSUME RInv, NEW p \in RecProcs, NEW r, NEW c, ProcOK(r), CacheOK(c), recCache' = c,
           UNCHANGED <<recWorld, recVersions, recMeta, recOverlay, recIndexed>>,
           recFailures'.torn \in BOOLEAN,
           Waited(c, p, r), KeepsFresh(c, p, r),
           recProcs' = [q \in RecProcs |-> recProcs'[q]], recProcs'[p] = r, r.pc \notin {"wait", "waitDerived"},
           \A q \in RecProcs : q # p => Stays(q, c) \/ IsWoken(q)
    PROVE  RInv'
<1>1. RStore' /\ Grows  BY QuietGrows, Zenon DEF RInv
<1>2. RCache'  BY <1>1, CacheGo, Zenon
<1>3. RProcs'
  <2> SUFFICES ASSUME NEW q \in RecProcs PROVE ProcOK(recProcs[q])'  BY Zenon DEF RProcs
  <2>1. PICK x : x = recProcs'[q]  BY Zenon
  <2>2. ProcOK(x)  BY <2>1, Zenon DEF Stays, IsWoken, RInv, RProcs
  <2>3. ProcOK(x)'  BY <1>1, <2>2, ProcStays, Zenon
  <2> QED  BY <2>1, <2>3, Zenon
<1>4. \A q \in RecProcs : q # p =>
        /\ recProcs'[q].pc \in Loads <=> recProcs[q].pc \in Loads
        /\ recProcs'[q].pc \in Builds <=> recProcs[q].pc \in Builds
        /\ recProcs'[q].pc = "wait" => c.loading # "none"
        /\ recProcs'[q].pc = "waitDerived" => c.derivedLoading # "none"
  BY Zenon DEF Stays, IsWoken, Loads, Builds
<1>5. RWaits'  BY <1>4, WaitsGo, Zenon DEF RInv
<1>6. \A q \in RecProcs : q # p =>
        /\ Busy(recProcs'[q]) <=> Busy(recProcs[q])
        /\ recProcs'[q].pc \in Loads => recProcs'[q] = recProcs[q]
  BY Zenon DEF Stays, IsWoken, Loads, Busy
<1>7. RFresh'  BY <1>6, FreshGo, Zenon DEF RInv
<1> QED  BY <1>1, <1>2, <1>3, <1>5, <1>7, Zenon DEF RInv

\* Nobody is called like nobody.
LEMMA Nobody == "none" \notin RecProcs
BY RecordsAssumption, Zenon DEF RecProcs, Worker

LoadOver(p, r, c) ==
    /\ recProcs[p].pc \in Loads /\ r.pc \in {"derived", "select", "idle"}
    /\ recProcs' = Wakes([recProcs EXCEPT ![p] = r])
    /\ c.loading = "none" /\ c.derivedLoading = recCache.derivedLoading

\* The leader of a load ends it and wakes who waited.
LEMMA LoadEnds ==
    ASSUME RInv, NEW p \in RecProcs, NEW r, NEW c, LoadOver(p, r, c)
    PROVE  /\ Waited(c, p, r)
           /\ recProcs' = [q \in RecProcs |-> recProcs'[q]] /\ recProcs'[p] = r
           /\ \A q \in RecProcs : q # p => Stays(q, c) \/ IsWoken(q)
<1> USE DEF LoadOver
<1>0. PICK procs : procs = [recProcs EXCEPT ![p] = r]  BY Zenon
<1>1. \A q \in RecProcs : procs[q] = IF q = p THEN r ELSE recProcs[q]
  BY <1>0, Zenon DEF RInv, RProcs
<1>2. /\ recProcs' = [q \in RecProcs |-> recProcs'[q]]
      /\ \A q \in RecProcs : recProcs'[q] = IF procs[q].pc = "wait" THEN RecAsked(procs[q], "look") ELSE procs[q]
  BY <1>0 DEF Wakes
<1>3. recProcs'[p] = r  BY <1>1, <1>2, Zenon
<1>4. /\ recCache.loading = p /\ recCache.derivedLoading # p
      /\ recCache.derivedLoading \in RecProcs \cup {"none"}
  BY Zenon DEF RInv, RWaits, Loads, Builds
<1>5. Waited(c, p, r)  BY <1>4, Nobody, Zenon DEF Waited, Loads, Builds
<1>6. ASSUME NEW q \in RecProcs, q # p PROVE Stays(q, c) \/ IsWoken(q)
  <2>1. CASE recProcs[q].pc = "wait"
    <3>1. PICK x : x = recProcs'[q]  BY Zenon
    <3>2. x = RecAsked(recProcs[q], "look")  BY <1>1, <1>2, <1>6, <2>1, <3>1, Zenon
    <3>3. /\ x.pc = "look" /\ x.hash = recProcs[q].hash /\ x.rev = recProcs[q].rev
          /\ x.indexed = recProcs[q].indexed /\ x.gen = recProcs[q].gen
      BY <3>2, Zenon DEF RecAsked
    <3>4. ProcOK(x)  BY <2>1, <3>3, SameQuestion, Zenon
    <3> QED  BY <2>1, <3>1, <3>3, <3>4, Zenon DEF IsWoken
  <2>2. CASE recProcs[q].pc # "wait"
    <3>1. recProcs'[q] = recProcs[q]  BY <1>1, <1>2, <1>6, <2>2, Zenon
    <3>2. recProcs[q].pc = "waitDerived" => c.derivedLoading # "none"  BY Zenon DEF RInv, RWaits
    <3> QED  BY <2>2, <3>1, <3>2, Zenon DEF Stays
  <2> QED  BY <2>1, <2>2, Zenon
<1> QED  BY <1>2, <1>3, <1>5, <1>6, Zenon

BuildOver(p, r, c) ==
    /\ recProcs[p].pc \in Builds /\ r.pc \in {"select", "idle"}
    /\ recProcs' = WakesDerived([recProcs EXCEPT ![p] = r])
    /\ c.loading = recCache.loading /\ c.derivedLoading = "none"

\* The leader of a build ends it and wakes who waited.
LEMMA BuildEnds ==
    ASSUME RInv, NEW p \in RecProcs, NEW r, NEW c, BuildOver(p, r, c)
    PROVE  /\ Waited(c, p, r)
           /\ recProcs' = [q \in RecProcs |-> recProcs'[q]] /\ recProcs'[p] = r
           /\ \A q \in RecProcs : q # p => Stays(q, c) \/ IsWoken(q)
<1> USE DEF BuildOver
<1>0. PICK procs : procs = [recProcs EXCEPT ![p] = r]  BY Zenon
<1>1. \A q \in RecProcs : procs[q] = IF q = p THEN r ELSE recProcs[q]
  BY <1>0, Zenon DEF RInv, RProcs
<1>2. /\ recProcs' = [q \in RecProcs |-> recProcs'[q]]
      /\ \A q \in RecProcs : recProcs'[q] =
           IF procs[q].pc = "waitDerived" THEN RecHolding(procs[q], "derived", procs[q].rows) ELSE procs[q]
  BY <1>0 DEF WakesDerived
<1>3. recProcs'[p] = r  BY <1>1, <1>2, Zenon
<1>4. /\ recCache.derivedLoading = p /\ recCache.loading # p
      /\ recCache.loading \in RecProcs \cup {"none"}
  BY Zenon DEF RInv, RWaits, Loads, Builds
<1>5. Waited(c, p, r)  BY <1>4, Nobody, Zenon DEF Waited, Loads, Builds
<1>6. ASSUME NEW q \in RecProcs, q # p PROVE Stays(q, c) \/ IsWoken(q)
  <2>1. CASE recProcs[q].pc = "waitDerived"
    <3>1. PICK x : x = recProcs'[q]  BY Zenon
    <3>2. x = RecHolding(recProcs[q], "derived", recProcs[q].rows)  BY <1>1, <1>2, <1>6, <2>1, <3>1, Zenon
    <3>3. /\ x.pc = "derived" /\ x.hash = recProcs[q].hash /\ x.rev = recProcs[q].rev
          /\ x.indexed = recProcs[q].indexed /\ x.gen = recProcs[q].gen /\ x.rows = recProcs[q].rows
      BY <3>2, Zenon DEF RecHolding
    <3>4. Held(recProcs[q].rows, recProcs[q].hash) /\ recProcs[q].indexed  BY <2>1, Zenon DEF RInv, RProcs, ProcOK
    <3>5. ProcOK(x)  BY <2>1, <3>3, <3>4, SameQuestion, Zenon
    <3> QED  BY <2>1, <3>1, <3>3, <3>5, Zenon DEF IsWoken
  <2>2. CASE recProcs[q].pc # "waitDerived"
    <3>1. recProcs'[q] = recProcs[q]  BY <1>1, <1>2, <1>6, <2>2, Zenon
    <3>2. recProcs[q].pc = "wait" => c.loading # "none"  BY Zenon DEF RInv, RWaits
    <3> QED  BY <2>2, <3>1, <3>2, Zenon DEF Stays
  <2> QED  BY <2>1, <2>2, Zenon
<1> QED  BY <1>2, <1>3, <1>5, <1>6, Zenon

LEMMA CacheExcept ==
    ASSUME NEW d, IsCache(d), NEW loading, NEW snapshot, NEW selections
    PROVE  [d EXCEPT !.loading = loading, !.snapshot = snapshot, !.selections = selections] =
           [current |-> d.current, snapshot |-> snapshot, loading |-> loading, build |-> d.build,
            selections |-> selections, derived |-> d.derived, derivedLoading |-> d.derivedLoading]
<1>1. PICK e : e = [d EXCEPT !.loading = loading, !.snapshot = snapshot, !.selections = selections]  BY Zenon
<1>2. DOMAIN d = {"current", "snapshot", "loading", "build", "selections", "derived", "derivedLoading"}
  BY Zenon DEF IsCache
<1>3. /\ DOMAIN e = DOMAIN d /\ e = [x \in DOMAIN d |-> e[x]]
      /\ e["loading"] = loading /\ e["snapshot"] = snapshot /\ e["selections"] = selections
      /\ \A x \in DOMAIN d \ {"loading", "snapshot", "selections"} : e[x] = d[x]
  BY <1>1, <1>2, Zenon
<1> QED  BY <1>1, <1>2, <1>3, Zenon

LEMMA PublishInv == ASSUME RInv, NEW p \in RecProcs, Publish(p) PROVE RInv'
<1>0. recProcs[p].pc = "publish" /\ recProcs[p].pc \in Loads /\ ~Building(p)  BY Zenon DEF Publish, RecAt, Building, Loads
<1>a. UNCHANGED <<recWorld, recVersions, recMeta, recOverlay, recIndexed, recFailures>>  BY Zenon DEF Publish
<1>b. recFailures'.torn \in BOOLEAN /\ recFailures'.torn = recFailures.torn  BY <1>a, Zenon DEF RInv, RFresh
<1>c. HashNames(recProcs[p].hash, recProcs[p].rev) /\ recProcs[p].indexed \in BOOLEAN  BY <1>0, Carried, Zenon
<1>d. Held(recProcs[p].rows, recProcs[p].hash)  BY <1>0, Zenon DEF RInv, RProcs, ProcOK
<1>1. PICK r : r = RecHolding(recProcs[p], RecAfter(recProcs[p]), recProcs[p].rows)  BY Zenon
<1>2. /\ r.hash = recProcs[p].hash /\ r.rev = recProcs[p].rev /\ r.indexed = recProcs[p].indexed
      /\ r.gen = recProcs[p].gen /\ r.rows = recProcs[p].rows
      /\ r.pc = IF recProcs[p].indexed THEN "derived" ELSE "select"
  BY <1>1, Zenon DEF RecHolding, RecAfter
<1>3. ProcOK(r)  BY <1>0, <1>c, <1>d, <1>2, SameQuestion, Zenon
<1>4. r.pc \in {"derived", "select"}  BY <1>2, Zenon
<1>5. recProcs' = Wakes([recProcs EXCEPT ![p] = r])
  <2>1. p \in DOMAIN recProcs  BY Zenon DEF RInv, RProcs
  <2>2. [recProcs EXCEPT ![p] = RecHolding(@, RecAfter(@), @.rows)] = [recProcs EXCEPT ![p] = r]  BY <1>1, <2>1, Zenon
  <2> QED  BY <2>2, Zenon DEF Publish
<1>6. PICK snapshot, selections :
        /\ snapshot = IF Publishes(recProcs[p]) THEN [hash |-> recProcs[p].hash, rows |-> recProcs[p].rows]
                      ELSE recCache.snapshot
        /\ selections = IF Publishes(recProcs[p]) /\ recCache.snapshot.hash # recProcs[p].hash THEN {}
                        ELSE recCache.selections
  BY Zenon
<1>7. PICK c : c = [current |-> recCache.current, snapshot |-> snapshot, loading |-> "none", build |-> recCache.build,
                    selections |-> selections, derived |-> recCache.derived,
                    derivedLoading |-> recCache.derivedLoading]
  BY Zenon
<1>8. recCache' = c
  <2>1. recCache' = [recCache EXCEPT !.loading = "none", !.snapshot = snapshot, !.selections = selections]
    BY <1>6, Zenon DEF Publish
  <2>2. IsCache(recCache)  BY Zenon DEF RInv, RCache, CacheOK
  <2> QED  BY <1>7, <2>1, <2>2, CacheExcept, ZenonT(40)
<1>9. /\ c.snapshot = snapshot /\ c.selections = selections /\ c.derived = recCache.derived
      /\ c.build = recCache.build /\ c.loading = "none" /\ c.derivedLoading = recCache.derivedLoading
  BY <1>7, Zenon
<1>10. IsCache(c)  BY <1>7, Zenon DEF IsCache
<1>11. SnapshotOK(snapshot)
  BY <1>6, <1>c, <1>d, Zenon DEF SnapshotOK, HashNames, RInv, RCache, CacheOK
<1>12. selections \subseteq recCache.selections  BY <1>6, Zenon
<1>13. CacheOK(c)  BY <1>9, <1>10, <1>11, <1>12, Zenon DEF CacheOK, RInv, RCache
<1>14. RecCalm => Fresh(snapshot.rows) /\ \A s \in selections : s.indexed \/ s.some \/ Fresh(s.rows)
  <2> SUFFICES ASSUME RecCalm
               PROVE  Fresh(snapshot.rows) /\ \A s \in selections : s.indexed \/ s.some \/ Fresh(s.rows)
    BY Zenon
  <2>1. Fresh(recCache.snapshot.rows) /\ \A s \in recCache.selections : s.indexed \/ s.some \/ Fresh(s.rows)
    BY Zenon DEF RInv, RFresh
  <2>2. Publishes(recProcs[p]) => Fresh(recProcs[p].rows)  BY <1>0, Zenon DEF Publishes, RInv, RFresh
  <2>3. Fresh(snapshot.rows)  BY <1>6, <2>1, <2>2, SMTT(30)
  <2> QED  BY <1>12, <2>1, <2>3, Zenon
<1>15. KeepsFresh(c, p, r)
  BY <1>0, <1>b, <1>4, <1>9, <1>14, Zenon DEF KeepsFresh, Loads
<1>16. /\ Waited(c, p, r)
       /\ recProcs' = [q \in RecProcs |-> recProcs'[q]] /\ recProcs'[p] = r
       /\ \A q \in RecProcs : q # p => Stays(q, c) \/ IsWoken(q)
  <2>1. r.pc \in {"derived", "select", "idle"} /\ recProcs[p].pc \in Loads  BY <1>0, <1>4, Zenon
  <2>2. c.loading = "none" /\ c.derivedLoading = recCache.derivedLoading  BY <1>9, Zenon
  <2>3. LoadOver(p, r, c)  BY <1>5, <2>1, <2>2, Zenon DEF LoadOver
  <2> QED  BY <2>3, LoadEnds, Zenon
<1>17. r.pc \notin {"wait", "waitDerived"}  BY <1>4, Zenon
<1> QED  BY <1>a, <1>b, <1>3, <1>8, <1>13, <1>15, <1>16, <1>17, WakenedInv, Zenon

-----------------------------------------------------------------------------
(* The derived index. *)

\* A query that selects from an index.
LEMMA SelectingProc ==
    ASSUME RInv, NEW p \in RecProcs, recProcs[p].pc \in {"derived", "keep"}, NEW x, IndexOK(x),
           x.hash = recProcs[p].hash
    PROVE  ProcOK(Selecting(recProcs[p], x)) /\ Selecting(recProcs[p], x).pc = "select"
<1>1. PICK r : r = Selecting(recProcs[p], x)  BY Zenon
<1>2. /\ r.pc = "select" /\ r.hash = recProcs[p].hash /\ r.rev = recProcs[p].rev /\ r.indexed = recProcs[p].indexed
      /\ r.gen = x.gen /\ r.rows = x.rows /\ r.overlay = x.overlay
  BY <1>1, Zenon DEF Selecting
<1>3. HashNames(r.hash, r.rev) /\ r.indexed \in BOOLEAN  BY <1>2, Carried, Zenon
<1>4. r.indexed  BY <1>2, Zenon DEF RInv, RProcs, ProcOK
<1>5. Held(r.rows, r.hash) /\ r.gen \in 0..Len(recOverlay) /\ r.overlay = OverlayRows(r.gen)  BY <1>2, Zenon DEF IndexOK
<1>6. ProcOK(r)  BY <1>2, <1>3, <1>4, <1>5, Zenon DEF ProcOK
<1> QED  BY <1>1, <1>2, <1>6, Zenon

\* The index kept under a key.
LEMMA KeptIndexOK ==
    ASSUME RInv, NEW hash, NEW gen, KeptIndex(hash, gen) # {}
    PROVE  LET x == recCache.derived[Pick(KeptIndex(hash, gen))] IN IndexOK(x) /\ x.hash = hash
<1>1. PICK k : k = Pick(KeptIndex(hash, gen))  BY Zenon
<1>2. k \in KeptIndex(hash, gen)  BY <1>1, Zenon DEF Pick
<1> QED  BY <1>1, <1>2, Zenon DEF KeptIndex, RInv, RCache, CacheOK

LEMMA DerivedInv == ASSUME RInv, NEW p \in RecProcs, Derived(p) PROVE RInv'
<1>0. recProcs[p].pc = "derived" /\ ~Building(p)  BY Zenon DEF Derived, RecAt, Building
<1>a. UNCHANGED <<recWorld, recVersions, recMeta, recOverlay, recIndexed, recFailures>>  BY Zenon DEF Derived
<1>b. recFailures'.torn \in BOOLEAN /\ recFailures'.torn = recFailures.torn  BY <1>a, Zenon DEF RInv, RFresh
<1>c. Held(recProcs[p].rows, recProcs[p].hash) /\ recProcs[p].indexed  BY <1>0, Zenon DEF RInv, RProcs, ProcOK
<1>d. recProcs[p].pc \notin Loads \cup Builds  BY <1>0, Zenon DEF Loads, Builds
<1>1. PICK found : found = KeptIndex(recProcs[p].hash, recProcs[p].gen)  BY Zenon
<1>2. CASE found # {}
  <2>1. PICK x : x = recCache.derived[Pick(found)]  BY Zenon
  <2>2. PICK r : r = Selecting(recProcs[p], x)  BY Zenon
  <2>3. Go(p, r) /\ recCache' = recCache  BY <1>1, <1>2, <2>1, <2>2, Zenon DEF Derived
  <2>4. IndexOK(x) /\ x.hash = recProcs[p].hash  BY <1>1, <1>2, <2>1, KeptIndexOK, Zenon
  <2>5. ProcOK(r) /\ r.pc = "select"  BY <1>0, <2>2, <2>4, SelectingProc, Zenon
  <2>6. r.pc \notin Loads \cup Builds  BY <2>5, Zenon DEF Loads, Builds
  <2> QED  BY <1>0, <1>a, <1>d, <2>3, <2>5, <2>6, MovesAlone, Zenon
<1>3. CASE found = {} /\ recCache.derivedLoading # "none"
  <2>1. PICK r : r = RecHolding(recProcs[p], "waitDerived", recProcs[p].rows)  BY Zenon
  <2>2. Go(p, r) /\ recCache' = recCache  BY <1>1, <1>3, <2>1, Zenon DEF Derived
  <2>3. /\ r.hash = recProcs[p].hash /\ r.rev = recProcs[p].rev /\ r.indexed = recProcs[p].indexed
        /\ r.gen = recProcs[p].gen /\ r.rows = recProcs[p].rows /\ r.pc = "waitDerived"
    BY <2>1, Zenon DEF RecHolding
  <2>4. ProcOK(r)  BY <1>0, <1>c, <2>3, SameQuestion, Zenon
  <2>5. r.pc \notin Loads \cup Builds  BY <2>3, Zenon DEF Loads, Builds
  <2> QED  BY <1>0, <1>a, <1>d, <1>3, <2>2, <2>3, <2>4, <2>5, MovesAlone, Zenon
<1>4. CASE found = {} /\ recCache.derivedLoading = "none"
  <2>1. PICK r : r = RecHolding(recProcs[p], "build", recProcs[p].rows)  BY Zenon
  <2>2. PICK c : c = [current |-> recCache.current, snapshot |-> recCache.snapshot, loading |-> recCache.loading,
                      build |-> recCache.build, selections |-> recCache.selections, derived |-> recCache.derived,
                      derivedLoading |-> p]
    BY Zenon
  <2>3. Go(p, r) /\ recCache' = [recCache EXCEPT !.derivedLoading = p]  BY <1>1, <1>4, <2>1, Zenon DEF Derived
  <2>4. recCache' = c  BY <2>2, <2>3 DEF RInv, RCache, CacheOK, IsCache
  <2>5. /\ r.hash = recProcs[p].hash /\ r.rev = recProcs[p].rev /\ r.indexed = recProcs[p].indexed
        /\ r.gen = recProcs[p].gen /\ r.rows = recProcs[p].rows /\ r.pc = "build"
    BY <2>1, Zenon DEF RecHolding
  <2>6. ProcOK(r)  BY <1>0, <1>c, <2>5, SameQuestion, Zenon
  <2>7. /\ c.snapshot = recCache.snapshot /\ c.selections = recCache.selections /\ c.derived = recCache.derived
        /\ c.build = recCache.build /\ c.loading = recCache.loading /\ c.derivedLoading = p
    BY <2>2, Zenon
  <2>8. IsCache(c)  BY <2>2, Zenon DEF IsCache
  <2>9. CacheOK(c)  BY <2>7, <2>8, Zenon DEF RInv, RCache, CacheOK
  <2>10. recCache.loading # p /\ recCache.loading \in RecProcs \cup {"none"}  BY <1>0, Zenon DEF RInv, RWaits
  <2>11. Waited(c, p, r)  BY <1>4, <2>5, <2>7, <2>10, Nobody, Zenon DEF Waited, Loads, Builds
  <2>12. KeepsFresh(c, p, r)  BY <1>0, <1>b, <2>5, <2>7, Zenon DEF KeepsFresh, Loads, RInv, RFresh
  <2>13. recProcs' = [recProcs EXCEPT ![p] = r]  BY <2>3, Zenon DEF Go
  <2>14. recCache.loading # "none" => c.loading # "none"  BY <2>7, Zenon
  <2> QED  BY <1>a, <1>b, <1>4, <2>4, <2>5, <2>6, <2>9, <2>11, <2>12, <2>13, <2>14, Moves, Zenon
<1> QED  BY <1>2, <1>3, <1>4, Zenon

LEMMA BuildDerivedInv == ASSUME RInv, NEW p \in RecProcs, BuildDerived(p) PROVE RInv'
<1>0. recProcs[p].pc = "build" /\ ~Building(p)  BY Zenon DEF BuildDerived, RecAt, Building
<1>a. UNCHANGED <<recWorld, recVersions, recMeta, recOverlay, recIndexed, recCache, recFailures>>  BY Zenon DEF BuildDerived
<1>c. Held(recProcs[p].rows, recProcs[p].hash) /\ recProcs[p].indexed  BY <1>0, Zenon DEF RInv, RProcs, ProcOK
<1>d. /\ HashNames(recProcs[p].hash, recProcs[p].rev) /\ recProcs[p].gen \in 0..Len(recOverlay)
      /\ Len(recOverlay) \in Nat /\ recProcs[p].hash # NoHash /\ recProcs[p].indexed \in BOOLEAN
  BY <1>0, Carried, StoreLengths, Zenon DEF RInv, HashNames
<1>1. PICK gen : gen = IF recProcs[p].gen = 0 THEN 0 ELSE Len(recOverlay)  BY Zenon
<1>2. gen \in 0..Len(recOverlay)  BY <1>d, <1>1
<1>3. PICK x : x = [hash |-> recProcs[p].hash, gen |-> gen, rows |-> recProcs[p].rows, overlay |-> OverlayRows(gen)]
  BY ZenonT(40)
<1>4. IndexOK(x) /\ x.hash = recProcs[p].hash  BY <1>c, <1>d, <1>2, <1>3, Zenon DEF IndexOK
<1>5. PICK r : r = [pc |-> "keep", hash |-> recProcs[p].hash, rev |-> recProcs[p].rev, indexed |-> recProcs[p].indexed,
                    gen |-> recProcs[p].gen, index |-> x]
  BY ZenonT(40)
<1>6. Go(p, r)  BY <1>1, <1>3, <1>5, Zenon DEF BuildDerived
<1>7. /\ r.pc = "keep" /\ r.hash = recProcs[p].hash /\ r.rev = recProcs[p].rev /\ r.indexed = recProcs[p].indexed
      /\ r.gen = recProcs[p].gen /\ r.index = x
  BY <1>5, SMTT(30)
<1>8. ProcOK(r)  BY <1>c, <1>d, <1>4, <1>7, Zenon DEF ProcOK
<1>9. /\ r.pc \notin Loads /\ recProcs[p].pc \notin Loads /\ r.pc \in Builds /\ recProcs[p].pc \in Builds
      /\ r.pc \notin {"wait", "waitDerived", "publish"}
  BY <1>0, <1>7, Zenon DEF Loads, Builds
<1> QED  BY <1>0, <1>a, <1>6, <1>8, <1>9, MovesAlone, ZenonT(40)

\* A function on 1 .. n is a sequence of length n.
LEMMA FunctionIsList ==
    ASSUME NEW n \in Nat, NEW l, l = [i \in 1 .. n |-> l[i]]
    PROVE  IsList(l, n)
<1> DEFINE S == {l[i] : i \in 1 .. n}
<1>1. l \in [1 .. n -> S]  BY Zenon
<1>2. l \in Seq(S)  BY <1>1
<1>3. Len(l) \in Nat /\ DOMAIN l = 1 .. Len(l)  BY <1>2
<1>4. DOMAIN l = 1 .. n  BY <1>1, Zenon
<1>5. Len(l) = n  BY <1>3, <1>4
<1> QED  BY <1>5, Zenon DEF IsList

LEMMA SeqIsFunction ==
    ASSUME NEW S, NEW m \in Seq(S)
    PROVE  Len(m) \in Nat /\ m \in [1 .. Len(m) -> S]
<1>1. PICK k \in Nat : m \in [1 .. k -> S]  OBVIOUS
<1>2. k = Len(m)  BY <1>1
<1> QED  BY <1>1, <1>2, Zenon

\* m is the list l of length n and then x.
Extended(m, l, n, x) == IsList(m, n + 1) /\ (\A i \in 1 .. n : m[i] = l[i]) /\ m[n + 1] = x

LEMMA AppendExtends ==
    ASSUME NEW n, NEW l, IsList(l, n), NEW x
    PROVE  Extended(Append(l, x), l, n, x)
<1> DEFINE S == {l[i] : i \in 1 .. n} \cup {x}
<1>1. n \in Nat /\ l \in [1 .. n -> S] /\ Len(l) = n  BY Zenon DEF IsList
<1>2. l \in Seq(S) /\ x \in S  BY <1>1
<1>3. Append(l, x) \in Seq(S) /\ Len(Append(l, x)) = n + 1  BY <1>1, <1>2
<1>4. \A i \in 1 .. n : Append(l, x)[i] = l[i]  BY <1>1, <1>2
<1>5. Append(l, x)[n + 1] = x  BY <1>1, <1>2
<1> HIDE DEF S
<1>6. Append(l, x) = [i \in 1 .. n + 1 |-> Append(l, x)[i]]
  <2>1. PICK m : m = Append(l, x)  BY Zenon
  <2>2. m \in [1 .. n + 1 -> S]  BY <1>3, <2>1, SeqIsFunction, Zenon
  <2> QED  BY <2>1, <2>2, Zenon
<1> QED  BY <1>1, <1>3, <1>4, <1>5, <1>6 DEF IsList, Extended

LEMMA TailList ==
    ASSUME NEW n, NEW l, IsList(l, n + 1), n \in Nat
    PROVE  IsList(Tail(l), n) /\ \A i \in 1 .. n : Tail(l)[i] = l[i + 1]
<1>1. PICK S : S = {l[i] : i \in 1 .. n + 1}  BY Zenon
<1>2. l \in [1 .. n + 1 -> S] /\ Len(l) = n + 1  BY <1>1, Zenon DEF IsList
<1>3. l \in Seq(S) /\ l # <<>>  BY <1>2
<1>4. PICK t : t = Tail(l)  BY Zenon
<1>5. t \in Seq(S) /\ Len(t) = n /\ \A i \in 1 .. n : t[i] = l[i + 1]
  BY <1>2, <1>3, <1>4
<1>6. t \in [1 .. n -> S]  BY <1>5, SeqIsFunction, Zenon
<1> QED  BY <1>4, <1>5, <1>6, Zenon DEF IsList

\* One more index is kept, the oldest giving way.
LEMMA OneMoreIndex ==
    ASSUME RInv, NEW x, IndexOK(x)
    PROVE  LET l == Bounded(Append(recCache.derived, x)) IN
           IsList(l, Len(l)) /\ \A k \in 1..Len(l) : IndexOK(l[k])
<1>1. PICK n, d, m : n = Len(recCache.derived) /\ d = recCache.derived /\ m = Append(d, x)  BY Zenon
<1>2. n \in Nat /\ IsList(d, n) /\ \A k \in 1..n : IndexOK(d[k])  BY <1>1, Zenon DEF RInv, RCache, CacheOK, IsList
<1>3. Extended(m, d, n, x)  BY <1>1, <1>2, AppendExtends, Zenon
<1>4. IsList(m, n + 1) /\ Len(m) = n + 1  BY <1>3, Zenon DEF Extended, IsList
<1>5. \A k \in 1..(n + 1) : IndexOK(m[k])
  <2> SUFFICES ASSUME NEW k \in 1..(n + 1) PROVE IndexOK(m[k])  BY Zenon
  <2>1. k \in 1..n \/ k = n + 1  BY <1>2
  <2> QED  BY <1>2, <1>3, <2>1, Zenon DEF Extended
<1>6. CASE Len(m) > RecKept
  <2>1. PICK t : t = Tail(m)  BY Zenon
  <2>2. IsList(t, n) /\ \A k \in 1..n : t[k] = m[k + 1]  BY <1>2, <1>4, <2>1, TailList, Zenon
  <2>3. \A k \in 1..n : k + 1 \in 1..(n + 1)  BY <1>2
  <2>4. \A k \in 1..n : IndexOK(t[k])  BY <1>5, <2>2, <2>3, Zenon
  <2>5. Len(t) = n  BY <2>2, Zenon DEF IsList
  <2>6. Bounded(m) = t  BY <1>6, <2>1, Zenon DEF Bounded
  <2> QED  BY <1>1, <2>2, <2>4, <2>5, <2>6, Zenon
<1>7. CASE ~(Len(m) > RecKept)
  <2>1. Bounded(m) = m  BY <1>7, Zenon DEF Bounded
  <2> QED  BY <1>1, <1>4, <1>5, <2>1, Zenon
<1> QED  BY <1>6, <1>7, Zenon

LEMMA DerivedExcept ==
    ASSUME NEW d, IsCache(d), NEW loading, NEW derived
    PROVE  [d EXCEPT !.derivedLoading = loading, !.derived = derived] =
           [current |-> d.current, snapshot |-> d.snapshot, loading |-> d.loading, build |-> d.build,
            selections |-> d.selections, derived |-> derived, derivedLoading |-> loading]
<1>1. PICK e : e = [d EXCEPT !.derivedLoading = loading, !.derived = derived]  BY Zenon
<1>2. DOMAIN d = {"current", "snapshot", "loading", "build", "selections", "derived", "derivedLoading"}
  BY Zenon DEF IsCache
<1>3. /\ DOMAIN e = DOMAIN d /\ e = [x \in DOMAIN d |-> e[x]]
      /\ e["derivedLoading"] = loading /\ e["derived"] = derived
      /\ \A x \in DOMAIN d \ {"derivedLoading", "derived"} : e[x] = d[x]
  BY <1>1, <1>2, Zenon
<1> QED  BY <1>1, <1>2, <1>3, Zenon

LEMMA DerivedSame ==
    ASSUME NEW d, IsCache(d), NEW loading, NEW derived, derived = d.derived
    PROVE  [d EXCEPT !.derivedLoading = loading] = [d EXCEPT !.derivedLoading = loading, !.derived = derived]
<1>1. PICK e : e = [d EXCEPT !.derivedLoading = loading]  BY Zenon
<1>2. PICK f : f = [d EXCEPT !.derivedLoading = loading, !.derived = derived]  BY Zenon
<1>3. DOMAIN d = {"current", "snapshot", "loading", "build", "selections", "derived", "derivedLoading"}
  BY Zenon DEF IsCache
<1>4. DOMAIN e = DOMAIN d /\ e = [x \in DOMAIN d |-> e[x]]
      /\ e["derivedLoading"] = loading /\ \A x \in DOMAIN d \ {"derivedLoading"} : e[x] = d[x]
  BY <1>1, <1>3, Zenon
<1>5. /\ DOMAIN f = DOMAIN d /\ f = [x \in DOMAIN d |-> f[x]]
      /\ f["derivedLoading"] = loading /\ f["derived"] = derived
      /\ \A x \in DOMAIN d \ {"derivedLoading", "derived"} : f[x] = d[x]
  BY <1>2, <1>3, Zenon
<1>6. derived = d["derived"]  BY Zenon
<1>7. \A x \in DOMAIN d : e[x] = f[x]  BY <1>3, <1>4, <1>5, <1>6, Zenon
<1>8. e = f  BY <1>4, <1>5, <1>7, Zenon
<1> QED  BY <1>1, <1>2, <1>8, Zenon

LEMMA KeepDerivedInv == ASSUME RInv, NEW p \in RecProcs, KeepDerived(p) PROVE RInv'
<1>0. recProcs[p].pc = "keep" /\ recProcs[p].pc \in Builds /\ ~Building(p)
  BY Zenon DEF KeepDerived, RecAt, Building, Builds
<1>a. UNCHANGED <<recWorld, recVersions, recMeta, recOverlay, recIndexed, recFailures>>  BY Zenon DEF KeepDerived
<1>b. recFailures'.torn \in BOOLEAN /\ recFailures'.torn = recFailures.torn  BY <1>a, Zenon DEF RInv, RFresh
<1>c. p \in DOMAIN recProcs  BY Zenon DEF RInv, RProcs
<1>1. PICK x : x = recProcs[p].index  BY Zenon
<1>2. IndexOK(x) /\ x.hash = recProcs[p].hash  BY <1>0, <1>1, Zenon DEF RInv, RProcs, ProcOK
<1>3. PICK y, derived :
        /\ IndexOK(y) /\ y.hash = recProcs[p].hash
        /\ IsList(derived, Len(derived)) /\ \A k \in 1..Len(derived) : IndexOK(derived[k])
        /\ recProcs' = WakesDerived([recProcs EXCEPT ![p] = Selecting(recProcs[p], y)])
        /\ recCache' = [recCache EXCEPT !.derivedLoading = "none", !.derived = derived]
  <2>1. CASE KeptIndex(x.hash, x.gen) = {}
    <3>1. PICK derived : derived = Bounded(Append(recCache.derived, x))  BY Zenon
    <3>2. IsList(derived, Len(derived)) /\ \A k \in 1..Len(derived) : IndexOK(derived[k])
      BY <1>2, <3>1, OneMoreIndex, Zenon
    <3>3. /\ recCache' = [recCache EXCEPT !.derivedLoading = "none", !.derived = Bounded(Append(@, x))]
          /\ recProcs' = WakesDerived([recProcs EXCEPT ![p] = Selecting(@, x)])
      BY <1>1, <2>1, Zenon DEF KeepDerived, KeptAs
    <3> QED  BY <1>2, <3>1, <3>2, <3>3, Zenon
  <2>2. CASE KeptIndex(x.hash, x.gen) # {}
    <3>1. PICK y : y = recCache.derived[Pick(KeptIndex(x.hash, x.gen))]  BY Zenon
    <3>2. IndexOK(y) /\ y.hash = recProcs[p].hash  BY <1>2, <2>2, <3>1, KeptIndexOK, Zenon
    <3>3. /\ recCache' = [recCache EXCEPT !.derivedLoading = "none"]
          /\ recProcs' = WakesDerived([recProcs EXCEPT ![p] = Selecting(@, y)])
      BY <1>1, <2>2, <3>1, Zenon DEF KeepDerived, KeptAs
    <3>4. PICK derived : derived = recCache.derived  BY Zenon
    <3>5. IsList(derived, Len(derived)) /\ \A k \in 1..Len(derived) : IndexOK(derived[k])
      BY <3>4, Zenon DEF RInv, RCache, CacheOK
    <3>6. [recCache EXCEPT !.derivedLoading = "none"] = [recCache EXCEPT !.derivedLoading = "none", !.derived = derived]
      <4>1. IsCache(recCache)  BY Zenon DEF RInv, RCache, CacheOK
      <4> QED  BY <3>4, <4>1, DerivedSame, Zenon
    <3> QED  BY <3>2, <3>3, <3>5, <3>6, Zenon
  <2> QED  BY <2>1, <2>2, Zenon
<1>4. PICK r : r = Selecting(recProcs[p], y)  BY Zenon
<1>5. ProcOK(r) /\ r.pc = "select"  BY <1>0, <1>3, <1>4, SelectingProc, Zenon
<1>6. PICK c : c = [current |-> recCache.current, snapshot |-> recCache.snapshot, loading |-> recCache.loading,
                    build |-> recCache.build, selections |-> recCache.selections, derived |-> derived,
                    derivedLoading |-> "none"]
  BY Zenon
<1>7. recCache' = c
  <2>1. IsCache(recCache)  BY Zenon DEF RInv, RCache, CacheOK
  <2> QED  BY <1>3, <1>6, <2>1, DerivedExcept, Zenon
<1>8. /\ c.snapshot = recCache.snapshot /\ c.selections = recCache.selections /\ c.derived = derived
      /\ c.build = recCache.build /\ c.loading = recCache.loading /\ c.derivedLoading = "none"
  BY <1>6, Zenon
<1>9. IsCache(c)  BY <1>6, Zenon DEF IsCache
<1>10. CacheOK(c)  BY <1>3, <1>8, <1>9, Zenon DEF RInv, RCache, CacheOK
<1>11. KeepsFresh(c, p, r)  BY <1>0, <1>b, <1>5, <1>8, Zenon DEF KeepsFresh, Loads, RInv, RFresh
<1>12. /\ Waited(c, p, r)
       /\ recProcs' = [q \in RecProcs |-> recProcs'[q]] /\ recProcs'[p] = r
       /\ \A q \in RecProcs : q # p => Stays(q, c) \/ IsWoken(q)
  <2>1. r.pc \in {"select", "idle"} /\ recProcs[p].pc \in Builds  BY <1>0, <1>5, Zenon
  <2>2. c.loading = recCache.loading /\ c.derivedLoading = "none"  BY <1>8, Zenon
  <2>3. recProcs' = WakesDerived([recProcs EXCEPT ![p] = r])  BY <1>3, <1>4, Zenon
  <2>4. BuildOver(p, r, c)  BY <2>1, <2>2, <2>3, Zenon DEF BuildOver
  <2> QED  BY <2>4, BuildEnds, Zenon
<1>13. r.pc \notin {"wait", "waitDerived"}  BY <1>5, Zenon
<1> QED  BY <1>a, <1>b, <1>5, <1>7, <1>10, <1>11, <1>12, <1>13, WakenedInv, Zenon

-----------------------------------------------------------------------------
(* The answer, and what ends early. *)

LEMMA AnswerProc ==
    ASSUME RInv, NEW p \in RecProcs, recProcs[p].pc = "select", NEW rows, RawsOf(rows) = recProcs[p].hash
    PROVE  ProcOK(Answer(recProcs[p], rows)) /\ Answer(recProcs[p], rows).pc = "answer"
<1>1. PICK r : r = Answer(recProcs[p], rows)  BY Zenon
<1>2. /\ r.pc = "answer" /\ r.hash = recProcs[p].hash /\ r.rows = rows /\ r.gen = recProcs[p].gen
      /\ r.overlay = IF recProcs[p].indexed THEN recProcs[p].overlay ELSE OverlayRows(0)
  BY <1>1, Zenon DEF Answer
<1>3. recProcs[p].gen \in 0..Len(recOverlay) /\ (~recProcs[p].indexed => recProcs[p].gen = 0)  BY Carried, Zenon
<1>4. recProcs[p].indexed => recProcs[p].overlay = OverlayRows(recProcs[p].gen)  BY Zenon DEF RInv, RProcs, ProcOK
<1>5. r.overlay = OverlayRows(r.gen)  BY <1>2, <1>3, <1>4, Zenon
<1>6. ProcOK(r)  BY <1>2, <1>3, <1>5, Zenon DEF ProcOK
<1> QED  BY <1>1, <1>2, <1>6, Zenon

LEMMA SelectionsExcept ==
    ASSUME NEW d, IsCache(d), NEW selections
    PROVE  [d EXCEPT !.selections = selections] =
           [current |-> d.current, snapshot |-> d.snapshot, loading |-> d.loading, build |-> d.build,
            selections |-> selections, derived |-> d.derived, derivedLoading |-> d.derivedLoading]
<1>1. PICK e : e = [d EXCEPT !.selections = selections]  BY Zenon
<1>2. DOMAIN d = {"current", "snapshot", "loading", "build", "selections", "derived", "derivedLoading"}
  BY Zenon DEF IsCache
<1>3. /\ DOMAIN e = DOMAIN d /\ e = [x \in DOMAIN d |-> e[x]] /\ e["selections"] = selections
      /\ \A x \in DOMAIN d \ {"selections"} : e[x] = d[x]
  BY <1>1, <1>2, Zenon
<1> QED  BY <1>1, <1>2, <1>3, Zenon

LEMMA SelectInv == ASSUME RInv, NEW p \in RecProcs, Select(p) PROVE RInv'
<1>0. recProcs[p].pc = "select" /\ ~Building(p) /\ recProcs[p].pc \notin Loads \cup Builds
  BY Zenon DEF Select, RecAt, Building, Loads, Builds
<1>a. UNCHANGED <<recWorld, recVersions, recMeta, recOverlay, recIndexed, recFailures>>  BY Zenon DEF Select
<1>b. recFailures'.torn \in BOOLEAN /\ recFailures'.torn = recFailures.torn  BY <1>a, Zenon DEF RInv, RFresh
<1>c. Held(recProcs[p].rows, recProcs[p].hash)  BY <1>0, Zenon DEF RInv, RProcs, ProcOK
<1>d. recProcs[p].hash # NoHash  BY <1>0, Carried, Zenon DEF HashNames
<1>s. PICK some :
        \/ \E s \in KeptSelections(recProcs[p], some) : Go(p, Answer(recProcs[p], s.rows)) /\ UNCHANGED recCache
        \/ /\ recCache' = [recCache EXCEPT !.selections =
                IF recCache.snapshot.hash = recProcs[p].hash THEN @ \cup {Selection(recProcs[p], some)} ELSE @]
           /\ Go(p, Answer(recProcs[p], Selection(recProcs[p], some).rows))
  BY Zenon DEF Select
<1>1. CASE \E s \in KeptSelections(recProcs[p], some) : Go(p, Answer(recProcs[p], s.rows)) /\ UNCHANGED recCache
  <2>1. PICK s \in KeptSelections(recProcs[p], some) : Go(p, Answer(recProcs[p], s.rows)) /\ UNCHANGED recCache  BY <1>1, SMTT(30)
  <2>2. RawsOf(s.rows) = recProcs[p].hash  BY Zenon DEF KeptSelections, RInv, RCache, CacheOK, Held
  <2>3. PICK r : r = Answer(recProcs[p], s.rows)  BY Zenon
  <2>4. ProcOK(r) /\ r.pc = "answer"  BY <1>0, <2>2, <2>3, AnswerProc, Zenon
  <2>5. r.pc \notin Loads \cup Builds  BY <2>4, Zenon DEF Loads, Builds
  <2> QED  BY <1>0, <1>a, <2>1, <2>3, <2>4, <2>5, MovesAlone, Zenon
<1>2. CASE /\ recCache' = [recCache EXCEPT !.selections =
                IF recCache.snapshot.hash = recProcs[p].hash THEN @ \cup {Selection(recProcs[p], some)} ELSE @]
           /\ Go(p, Answer(recProcs[p], Selection(recProcs[p], some).rows))
  <2>1. PICK t : t = Selection(recProcs[p], some)  BY Zenon
  <2>2. /\ t.hash = recProcs[p].hash /\ t.indexed = recProcs[p].indexed /\ t.some = some
        /\ t.rows = IF ~some /\ ~recProcs[p].indexed /\ recCache.snapshot.hash = recProcs[p].hash THEN recCache.snapshot.rows
                    ELSE recProcs[p].rows
    BY <2>1, Zenon DEF Selection
  <2>3. recCache.snapshot.hash = recProcs[p].hash => Held(recCache.snapshot.rows, recProcs[p].hash)
    BY <1>d DEF RInv, RCache, CacheOK, SnapshotOK, NoSnapshot
  <2>4. Held(t.rows, t.hash)  BY <1>c, <2>2, <2>3, Zenon
  <2>5. PICK selections : selections = IF recCache.snapshot.hash = recProcs[p].hash THEN recCache.selections \cup {t}
                                       ELSE recCache.selections
    BY Zenon
  <2>6. PICK c : c = [current |-> recCache.current, snapshot |-> recCache.snapshot, loading |-> recCache.loading,
                      build |-> recCache.build, selections |-> selections, derived |-> recCache.derived,
                      derivedLoading |-> recCache.derivedLoading]
    BY Zenon
  <2>7. recCache' = c
    <3>1. recCache' = [recCache EXCEPT !.selections = selections]  BY <1>2, <2>1, <2>5, Zenon
    <3>2. IsCache(recCache)  BY Zenon DEF RInv, RCache, CacheOK
    <3> QED  BY <2>6, <3>1, <3>2, SelectionsExcept, Zenon
  <2>8. /\ c.snapshot = recCache.snapshot /\ c.selections = selections /\ c.derived = recCache.derived
        /\ c.build = recCache.build /\ c.loading = recCache.loading /\ c.derivedLoading = recCache.derivedLoading
    BY <2>6, Zenon
  <2>9. IsCache(c)  BY <2>6, Zenon DEF IsCache
  <2>10. \A s \in selections : Held(s.rows, s.hash)
    <3>1. \A s \in recCache.selections : Held(s.rows, s.hash)  BY Zenon DEF RInv, RCache, CacheOK
    <3> QED  BY <2>4, <2>5, <3>1, Zenon
  <2>11. CacheOK(c)  BY <2>8, <2>9, <2>10, Zenon DEF RInv, RCache, CacheOK
  <2>12. RecCalm => Fresh(c.snapshot.rows) /\ \A s \in selections : s.indexed \/ s.some \/ Fresh(s.rows)
    <3> SUFFICES ASSUME RecCalm
                 PROVE  Fresh(c.snapshot.rows) /\ \A s \in selections : s.indexed \/ s.some \/ Fresh(s.rows)
      BY Zenon
    <3>1. Fresh(recCache.snapshot.rows) /\ \A s \in recCache.selections : s.indexed \/ s.some \/ Fresh(s.rows)
      BY Zenon DEF RInv, RFresh
    <3>2. recCache.snapshot.hash = recProcs[p].hash => t.indexed \/ t.some \/ Fresh(t.rows)  BY <2>2, <3>1, Zenon
    <3> QED  BY <2>5, <2>8, <3>1, <3>2, Zenon
  <2>13. PICK r : r = Answer(recProcs[p], t.rows)  BY Zenon
  <2>14. ProcOK(r) /\ r.pc = "answer"  BY <1>0, <2>2, <2>4, <2>13, AnswerProc, Zenon DEF Held
  <2>15. r.pc \notin Loads \cup Builds /\ r.pc \notin {"wait", "waitDerived", "publish"}
    BY <2>14, Zenon DEF Loads, Builds
  <2>16. recProcs' = [recProcs EXCEPT ![p] = r]  BY <1>2, <2>1, <2>13, SMTT(30) DEF Go
  <2>17. Waited(c, p, r)  BY <1>0, <2>8, <2>15, SMTT(30) DEF Waited, RInv, RWaits, Loads, Builds
  <2>18. KeepsFresh(c, p, r)  BY <1>0, <1>b, <2>8, <2>12, <2>15, Zenon DEF KeepsFresh
  <2>19. /\ recCache.loading # "none" => c.loading # "none"
         /\ recCache.derivedLoading # "none" => c.derivedLoading # "none"
    BY <2>8, Zenon
  <2> QED  BY <1>a, <1>b, <2>7, <2>11, <2>14, <2>15, <2>16, <2>17, <2>18, <2>19, Moves, Zenon
<1> QED  BY <1>s, <1>1, <1>2, Zenon

LEMMA ReleasedExcept ==
    ASSUME NEW d, IsCache(d), NEW loading, NEW derivedLoading
    PROVE  [d EXCEPT !.loading = loading, !.derivedLoading = derivedLoading] =
           [current |-> d.current, snapshot |-> d.snapshot, loading |-> loading, build |-> d.build,
            selections |-> d.selections, derived |-> d.derived, derivedLoading |-> derivedLoading]
<1>1. PICK e : e = [d EXCEPT !.loading = loading, !.derivedLoading = derivedLoading]  BY Zenon
<1>2. DOMAIN d = {"current", "snapshot", "loading", "build", "selections", "derived", "derivedLoading"}
  BY Zenon DEF IsCache
<1>3. /\ DOMAIN e = DOMAIN d /\ e = [x \in DOMAIN d |-> e[x]]
      /\ e["loading"] = loading /\ e["derivedLoading"] = derivedLoading
      /\ \A x \in DOMAIN d \ {"loading", "derivedLoading"} : e[x] = d[x]
  BY <1>1, <1>2, Zenon
<1> QED  BY <1>1, <1>2, <1>3, Zenon

LEMMA FailInv == ASSUME RInv, NEW p \in RecProcs, Fail(p) PROVE RInv'
<1>a. UNCHANGED <<recWorld, recVersions, recMeta, recOverlay, recIndexed>>  BY Zenon DEF Fail
<1>b. recProcs[p].pc \in {"ask", "look", "load", "wait", "build", "waitDerived", "scan", "save"}  BY Zenon DEF Fail
<1>c. recProcs[p].pc \in {"scan", "save"} => recProcs[p].changed \in BOOLEAN  BY Zenon DEF RInv, RProcs, ProcOK
<1>d. /\ recFailures.torn \in BOOLEAN
      /\ recFailures'.torn = (recFailures.torn \/ (recProcs[p].pc \in {"scan", "save"} /\ recProcs[p].changed))
  BY Zenon DEF Fail, RInv, RFresh
<1>e. recFailures'.torn \in BOOLEAN  BY <1>d, SMTT(30)
<1>f. ~recFailures'.torn => ~recFailures.torn /\ ~Building(p)  BY <1>b, <1>c, <1>d, Zenon DEF Building
<1>1. PICK r : r = RecIdle  BY Zenon
<1>2. r.pc = "idle"  BY <1>1, Zenon DEF RecIdle
<1>3. ProcOK(r) /\ r.pc \notin Loads \cup Builds  BY <1>2, PlainProc
<1>4. PICK loading, derivedLoading :
        /\ loading = IF recCache.loading = p THEN "none" ELSE recCache.loading
        /\ derivedLoading = IF recCache.derivedLoading = p THEN "none" ELSE recCache.derivedLoading
  BY Zenon
<1>5. PICK c : c = [current |-> recCache.current, snapshot |-> recCache.snapshot, loading |-> loading,
                    build |-> recCache.build, selections |-> recCache.selections, derived |-> recCache.derived,
                    derivedLoading |-> derivedLoading]
  BY ZenonT(40)
<1>6. recCache' = c
  <2>1. recCache' = [recCache EXCEPT !.loading = loading, !.derivedLoading = derivedLoading]
    BY <1>4, Zenon DEF Fail, Released
  <2>2. IsCache(recCache)  BY Zenon DEF RInv, RCache, CacheOK
  <2> QED  BY <1>5, <2>1, <2>2, ReleasedExcept, Zenon
<1>7. /\ c.snapshot = recCache.snapshot /\ c.selections = recCache.selections /\ c.derived = recCache.derived
      /\ c.build = recCache.build /\ c.loading = loading /\ c.derivedLoading = derivedLoading
  BY <1>5, Zenon
<1>8. IsCache(c)  BY <1>5, Zenon DEF IsCache
<1>9. CacheOK(c)  BY <1>7, <1>8, SMTT(30) DEF RInv, RCache, CacheOK
<1>10. KeepsFresh(c, p, r)  BY <1>f, <1>2, <1>7, Zenon DEF KeepsFresh, Loads, RInv, RFresh
<1>11. /\ recCache.loading = p <=> recProcs[p].pc \in Loads
       /\ recCache.derivedLoading = p <=> recProcs[p].pc \in Builds
       /\ recCache.loading \in RecProcs \cup {"none"} /\ recCache.derivedLoading \in RecProcs \cup {"none"}
  BY Zenon DEF RInv, RWaits, Loads, Builds
<1>12. r.pc \notin {"wait", "waitDerived"}  BY <1>2, Zenon
<1>13. CASE recProcs[p].pc = "load"
  <2>1. recProcs' = Wakes([recProcs EXCEPT ![p] = r])  BY <1>1, <1>13, Zenon DEF Fail, RecAt
  <2>2. recProcs[p].pc \in Loads /\ recProcs[p].pc \notin Builds  BY <1>13, Zenon DEF Loads, Builds
  <2>3. c.loading = "none" /\ c.derivedLoading = recCache.derivedLoading  BY <1>4, <1>7, <1>11, <2>2, SMTT(30)
  <2>4. LoadOver(p, r, c)  BY <1>2, <2>1, <2>2, <2>3, Zenon DEF LoadOver
  <2>5. /\ Waited(c, p, r)
        /\ recProcs' = [q \in RecProcs |-> recProcs'[q]] /\ recProcs'[p] = r
        /\ \A q \in RecProcs : q # p => Stays(q, c) \/ IsWoken(q)
    BY <2>4, LoadEnds, Zenon
  <2> QED  BY <1>a, <1>e, <1>3, <1>6, <1>9, <1>10, <1>12, <2>5, WakenedInv, SMTT(30)
<1>14. CASE recProcs[p].pc = "build"
  <2>1. recProcs' = WakesDerived([recProcs EXCEPT ![p] = r])  BY <1>1, <1>14, Zenon DEF Fail, RecAt
  <2>2. recProcs[p].pc \in Builds /\ recProcs[p].pc \notin Loads  BY <1>14, SMTT(30) DEF Loads, Builds
  <2>3. c.derivedLoading = "none" /\ c.loading = recCache.loading  BY <1>4, <1>7, <1>11, <2>2, SMTT(30)
  <2>4. BuildOver(p, r, c)  BY <1>2, <2>1, <2>2, <2>3, Zenon DEF BuildOver
  <2>5. /\ Waited(c, p, r)
        /\ recProcs' = [q \in RecProcs |-> recProcs'[q]] /\ recProcs'[p] = r
        /\ \A q \in RecProcs : q # p => Stays(q, c) \/ IsWoken(q)
    BY <2>4, BuildEnds, Zenon
  <2> QED  BY <1>a, <1>e, <1>3, <1>6, <1>9, <1>10, <1>12, <2>5, WakenedInv, SMTT(30)
<1>15. CASE recProcs[p].pc \notin {"load", "build"}
  <2>1. recProcs' = [recProcs EXCEPT ![p] = r]  BY <1>1, <1>15, Zenon DEF Fail, RecAt
  <2>2. recProcs[p].pc \notin Loads \cup Builds  BY <1>b, <1>15, SMTT(30) DEF Loads, Builds
  <2>3. c.loading = recCache.loading /\ c.derivedLoading = recCache.derivedLoading  BY <1>4, <1>7, <1>11, <2>2, SMTT(30)
  <2>4. Waited(c, p, r)  BY <1>3, <1>11, <2>2, <2>3, Zenon DEF Waited
  <2>5. /\ recCache.loading # "none" => c.loading # "none"
        /\ recCache.derivedLoading # "none" => c.derivedLoading # "none"
    BY <2>3, Zenon
  <2> QED  BY <1>a, <1>e, <1>3, <1>6, <1>9, <1>10, <1>12, <2>1, <2>4, <2>5, Moves, ZenonT(40)
<1> QED  BY <1>13, <1>14, <1>15, Zenon

LEMMA SaveLexicalInv == ASSUME RInv, NEW p \in RecProcs, SaveLexical(p) PROVE RInv'
<1>0. recProcs[p].pc = "save" /\ recProcs[p].batch \in Nat /\ recIndexed \in Nat
  BY SMTT(30) DEF SaveLexical, RecAt, RInv, RProcs, ProcOK, RFresh
<1>a. UNCHANGED <<recWorld, recVersions, recMeta, recOverlay, recCache, recFailures>>  BY Zenon DEF SaveLexical
<1>1. PICK r : r = [pc |-> "scan", changed |-> TRUE]  BY Zenon
<1>2. r.pc = "scan" /\ r.changed = TRUE /\ recProcs' = [recProcs EXCEPT ![p] = r]
  BY <1>1, Zenon DEF SaveLexical, Go
<1>3. ProcOK(r)  BY <1>2, Zenon DEF ProcOK
<1>4. RStore' /\ Grows  BY <1>a, QuietGrows, Zenon DEF RInv
<1>5. RProcs' /\ \A q \in RecProcs : recProcs'[q] = IF q = p THEN r ELSE recProcs[q]
  BY <1>2, <1>3, <1>4, ProcsGo, Zenon DEF RInv
<1>6. RCache'
  <2>1. PICK c : c = recCache  BY Zenon
  <2> QED  BY <1>a, <1>4, <2>1, CacheGo, Zenon DEF RInv, RCache
<1>7. RWaits'  BY <1>0, <1>a, <1>2, <1>5, SMTT(30) DEF RInv, RWaits
<1>8. recIndexed' \in Nat  BY <1>0, Zenon DEF SaveLexical
<1>9. ~RecCalm'
  <2>1. recProcs'[p].pc = "scan" /\ recProcs'[p].changed  BY <1>2, <1>5, Zenon
  <2>2. Building(p)'  BY <2>1, SMTT(30) DEF Building
  <2> QED  BY <2>2, Zenon DEF RecCalm
<1>10. \A q \in RecProcs : recProcs'[q].pc \in {"load", "publish"} => recProcs'[q].build <= recCache'.build
  BY <1>a, <1>2, <1>5, SMTT(30) DEF RInv, RFresh
<1>11. recFailures'.torn \in BOOLEAN  BY <1>a, Zenon DEF RInv, RFresh
<1>12. RFresh'  BY <1>8, <1>9, <1>10, <1>11, Zenon DEF RFresh
<1> QED  BY <1>4, <1>5, <1>6, <1>7, <1>12, SMTT(30) DEF RInv

LEMMA ClearExcept ==
    ASSUME NEW d, IsCache(d), NEW build, NEW snapshot, NEW selections
    PROVE  [d EXCEPT !.build = build, !.snapshot = snapshot, !.selections = selections] =
           [current |-> d.current, snapshot |-> snapshot, loading |-> d.loading, build |-> build,
            selections |-> selections, derived |-> d.derived, derivedLoading |-> d.derivedLoading]
<1>1. PICK e : e = [d EXCEPT !.build = build, !.snapshot = snapshot, !.selections = selections]  BY Zenon
<1>2. DOMAIN d = {"current", "snapshot", "loading", "build", "selections", "derived", "derivedLoading"}
  BY Zenon DEF IsCache
<1>3. /\ DOMAIN e = DOMAIN d /\ e = [x \in DOMAIN d |-> e[x]]
      /\ e["build"] = build /\ e["snapshot"] = snapshot /\ e["selections"] = selections
      /\ \A x \in DOMAIN d \ {"build", "snapshot", "selections"} : e[x] = d[x]
  BY <1>1, <1>2, Zenon
<1> QED  BY <1>1, <1>2, <1>3, ZenonT(40)

LEMMA ClearCacheInv == ASSUME RInv, NEW p \in RecProcs, ClearCache(p) PROVE RInv'
<1>0. recProcs[p].pc = "clear" /\ recCache.build \in Nat  BY Zenon DEF ClearCache, RecAt, RInv, RCache, CacheOK
<1>a. UNCHANGED <<recWorld, recVersions, recMeta, recOverlay, recIndexed, recFailures>>  BY Zenon DEF ClearCache
<1>1. PICK r : r = [pc |-> "ask"]  BY Zenon
<1>2. r.pc = "ask" /\ recProcs' = [recProcs EXCEPT ![p] = r]  BY <1>1, Zenon DEF ClearCache, Go
<1>3. ProcOK(r)  BY <1>2, PlainProc
<1>4. RStore' /\ Grows  BY <1>a, QuietGrows, Zenon DEF RInv
<1>5. RProcs' /\ \A q \in RecProcs : recProcs'[q] = IF q = p THEN r ELSE recProcs[q]
  BY <1>2, <1>3, <1>4, ProcsGo, ZenonT(40) DEF RInv
<1>6. PICK c : c = [current |-> recCache.current, snapshot |-> NoSnapshot, loading |-> recCache.loading,
                    build |-> recCache.build + 1, selections |-> {}, derived |-> recCache.derived,
                    derivedLoading |-> recCache.derivedLoading]
  BY Zenon
<1>7. recCache' = c
  <2>1. IsCache(recCache)  BY Zenon DEF RInv, RCache, CacheOK
  <2>2. recCache' = [recCache EXCEPT !.build = recCache.build + 1, !.snapshot = NoSnapshot, !.selections = {}]
    BY Zenon DEF ClearCache
  <2> QED  BY <1>6, <2>1, <2>2, ClearExcept, Zenon
<1>8. /\ c.snapshot = NoSnapshot /\ c.selections = {} /\ c.derived = recCache.derived
      /\ c.build = recCache.build + 1 /\ c.loading = recCache.loading /\ c.derivedLoading = recCache.derivedLoading
  BY <1>6, Zenon
<1>9. IsCache(c)  BY <1>6, Zenon DEF IsCache
<1>10. CacheOK(c)
  <2>1. IsList(recCache.derived, Len(recCache.derived)) /\ \A k \in 1..Len(recCache.derived) : IndexOK(recCache.derived[k])
    BY Zenon DEF RInv, RCache, CacheOK
  <2>2. c.build \in Nat  BY <1>0, <1>8
  <2>3. SnapshotOK(c.snapshot)  BY <1>8, Zenon DEF SnapshotOK
  <2> QED  BY <1>8, <1>9, <2>1, <2>2, <2>3, Zenon DEF CacheOK
<1>11. RCache'  BY <1>4, <1>7, <1>10, CacheGo, SMTT(30)
<1>12. RWaits'  BY <1>0, <1>2, <1>5, <1>7, <1>8 DEF RInv, RWaits
<1>13. ASSUME NEW q \in RecProcs, recProcs'[q].pc \in {"load", "publish"}
       PROVE  recProcs'[q].build <= recCache'.build /\ recProcs'[q].build # recCache'.build
  <2>1. recProcs'[q] = recProcs[q]  BY <1>2, <1>5, <1>13, SMTT(30)
  <2>2. recProcs[q].build \in Nat /\ recProcs[q].build <= recCache.build
    BY <1>13, <2>1, Zenon DEF RInv, RProcs, ProcOK, RFresh
  <2> QED  BY <1>0, <1>7, <1>8, <2>1, <2>2
<1>14. Fresh(recCache.snapshot.rows)'
  <2>1. recCache'.snapshot.rows = <<>>  BY <1>7, <1>8, SMTT(30) DEF NoSnapshot
  <2> QED  BY <2>1, SMTT(30) DEF Fresh
<1>15. recIndexed' \in Nat /\ recFailures'.torn \in BOOLEAN  BY <1>a, SMTT(30) DEF RInv, RFresh
<1>16. RFresh'  BY <1>7, <1>8, <1>13, <1>14, <1>15, Zenon DEF RFresh
<1> QED  BY <1>4, <1>5, <1>11, <1>12, <1>16, Zenon DEF RInv

LEMMA NewCacheOK ==
    /\ CacheOK(NewCache) /\ NewCache.loading = "none" /\ NewCache.derivedLoading = "none"
    /\ NewCache.snapshot.rows = <<>> /\ NewCache.selections = {} /\ NewCache.build = 0
<1>1. PICK c : c = NewCache  BY Zenon
<1>2. /\ c.loading = "none" /\ c.derivedLoading = "none" /\ c.snapshot = NoSnapshot
      /\ c.selections = {} /\ c.build = 0 /\ c.derived = <<>>
  BY <1>1, Zenon DEF NewCache
<1>3. IsCache(c)  BY <1>1, Zenon DEF NewCache, IsCache
<1>4. IsList(<<>>, Len(<<>>)) /\ Len(<<>>) = 0
  <2>1. <<>> = [i \in 1 .. 0 |-> <<>>[i]]  OBVIOUS
  <2> QED  BY <2>1, Zenon DEF IsList
<1>5. CacheOK(c)  BY <1>2, <1>3, <1>4 DEF CacheOK, SnapshotOK
<1> QED  BY <1>1, <1>2, <1>5 DEF NoSnapshot

LEMMA IdleInv ==
    ASSUME recCache = NewCache, recIndexed \in Nat, recFailures.torn \in BOOLEAN,
           \A p \in RecProcs : recProcs[p].pc = "idle"
    PROVE  RWaits /\ RFresh
<1>1. RWaits  BY NewCacheOK, Nobody, Zenon DEF RWaits
<1>2. Fresh(<<>>)  BY DEF Fresh
<1>3. RFresh  BY <1>2, NewCacheOK, Zenon DEF RFresh
<1> QED  BY <1>1, <1>3, Zenon

LEMMA RecRestartInv == ASSUME RInv, Restart PROVE RInv'
<1>1. UNCHANGED <<recWorld, recVersions, recMeta, recOverlay, recIndexed, recProcs, recFailures>>  BY Zenon DEF Restart
<1>2. RStore' /\ Grows  BY <1>1, QuietGrows, Zenon DEF RInv
<1>3. RProcs'  BY <1>1, <1>2, ProcsKept, Zenon DEF RInv
<1>4. PICK c : c = NewCache  BY Zenon
<1>5. CacheOK(c) /\ recCache' = c  BY <1>4, NewCacheOK, Zenon DEF Restart
<1>6. RCache'  BY <1>2, <1>5, CacheGo, Zenon
<1>7. \A p \in RecProcs : recProcs'[p].pc = "idle"  BY <1>1, Zenon DEF Restart, RecAt
<1>8. recIndexed' \in Nat /\ recFailures'.torn \in BOOLEAN  BY <1>1, Zenon DEF RInv, RFresh
<1>9. RWaits'  BY <1>4, <1>5, <1>7, NewCacheOK, Nobody, Zenon DEF RWaits
<1>10. Fresh(recCache.snapshot.rows)'  BY <1>4, <1>5, NewCacheOK DEF Fresh
<1>11. RFresh'  BY <1>4, <1>5, <1>7, <1>8, <1>10, NewCacheOK, Zenon DEF RFresh
<1> QED  BY <1>2, <1>3, <1>6, <1>9, <1>11, Zenon DEF RInv

(***************************************************************************)
(* Records in seq order.                                                   *)
(***************************************************************************)

\* Every set of naturals that is not empty has a least element.
LEMMA RecLeast ==
    ASSUME NEW T \in SUBSET Nat, T # {}
    PROVE  \E x \in T : \A y \in T : x <= y
<1> DEFINE R == {ss \in Nat \X Nat : ss[1] < ss[2]}
<1>1. IsWellFoundedOn(R, Nat)  BY NatLessThanWellFounded, Zenon DEF OpToRel
<1>2. \A x, y \in Nat : <<y, x>> \notin R => x <= y  OBVIOUS
<1> HIDE DEF R
<1>3. \E x \in T : \A y \in T : ~ (<<y, x>> \in R)  BY <1>1, WFMin, Zenon
<1> QED  BY <1>2, <1>3, Zenon

\* f lists the first s of the sets, for every s up to n.
Entry(sets, f, s) ==
    IF s = 0 THEN <<>> ELSE IF sets[s] = {} THEN f[s - 1] ELSE Append(f[s - 1], Pick(sets[s]))

Lists(sets, f, n) == f = [s \in 0..n |-> Entry(sets, f, s)]

LEMMA ListsExist == ASSUME NEW sets, NEW n \in Nat PROVE \E f : Lists(sets, f, n)
<1> DEFINE Bad == {m \in Nat : ~ \E f : Lists(sets, f, m)}
<1> SUFFICES ASSUME Bad # {} PROVE FALSE  BY Zenon
<1>1. PICK m \in Bad : \A k \in Bad : m <= k
  <2>1. Bad \in SUBSET Nat  BY Zenon
  <2> HIDE DEF Bad
  <2> QED  BY <2>1, RecLeast, Zenon
<1>2. m \in Nat /\ ~ \E f : Lists(sets, f, m)  BY Zenon
<1>3. CASE m = 0
  <2>1. Lists(sets, [s \in 0..0 |-> <<>>], 0)  BY DEF Lists, Entry
  <2> QED  BY <1>2, <1>3, <2>1, Zenon
<1>4. CASE m # 0
  <2>1. m - 1 \in Nat /\ m - 1 \notin Bad
    <3>1. m - 1 \in Nat /\ ~(m <= m - 1)  BY <1>2, <1>4
    <3> HIDE DEF Bad
    <3> QED  BY <1>1, <3>1, Zenon
  <2>2. PICK f : Lists(sets, f, m - 1)  BY <2>1, Zenon
  <2> DEFINE g == [s \in 0..m |-> IF s = m THEN Entry(sets, f, m) ELSE f[s]]
  <2>3. \A s \in 0..m : g[s] = Entry(sets, g, s)
    <3> SUFFICES ASSUME NEW s \in 0..m PROVE g[s] = Entry(sets, g, s)  BY Zenon
    <3>1. s # 0 => s - 1 \in 0..m /\ g[s - 1] = f[s - 1]  BY <1>2, <1>4
    <3>2. CASE s = m  BY <1>4, <3>1, <3>2, Zenon DEF Entry
    <3>3. CASE s # m
      <4>1. s \in 0..(m - 1)  BY <1>2, <3>3
      <4>2. f[s] = Entry(sets, f, s)  BY <2>2, <4>1, Zenon DEF Lists
      <4> QED  BY <3>1, <3>3, <4>2, Zenon DEF Entry
    <3> QED  BY <3>2, <3>3, Zenon
  <2>4. Lists(sets, g, m)  BY <2>3, Zenon DEF Lists
  <2> HIDE DEF g
  <2> QED  BY <1>2, <2>4, Zenon
<1> QED  BY <1>3, <1>4, Zenon

\* What InOrder unfolds to.
LEMMA InOrderList ==
    ASSUME NEW sets, NEW n \in Nat
    PROVE  \E f : /\ InOrder(sets, n) = f[n]
                  /\ \A s \in 0..n : f[s] = Entry(sets, f, s)
<1> DEFINE f == CHOOSE g : Lists(sets, g, n)
<1>1. Lists(sets, f, n)  BY ListsExist, Zenon
<1>2. InOrder(sets, n) = f[n]  BY Zenon DEF InOrder, Lists, Entry
<1> HIDE DEF f
<1>3. \A s \in 0..n : f[s] = Entry(sets, f, s)  BY <1>1, Zenon DEF Lists
<1> QED  BY <1>2, <1>3, Zenon

Agree(a, b, n) == \A s \in 1..n : a[s] = b[s]

\* Lists of the same sets are the same.
LEMMA ListsAgree ==
    ASSUME NEW a, NEW b, NEW n \in Nat, Agree(a, b, n),
           NEW f, \A s \in 0..n : f[s] = Entry(a, f, s),
           NEW g, \A s \in 0..n : g[s] = Entry(b, g, s)
    PROVE  f[n] = g[n]
<1> DEFINE Bad == {m \in 0..n : f[m] # g[m]}
<1>1. Bad = {}
  <2> SUFFICES ASSUME Bad # {} PROVE FALSE  BY Zenon
  <2>1. PICK m \in Bad : \A k \in Bad : m <= k
    <3>1. Bad \in SUBSET Nat  OBVIOUS
    <3> HIDE DEF Bad
    <3> QED  BY <3>1, RecLeast, Zenon
  <2>2. m \in 0..n /\ f[m] # g[m]  BY Zenon
  <2>3. m # 0 => f[m - 1] = g[m - 1]
    <3>1. m # 0 => m - 1 \in 0..n /\ ~(m <= m - 1)  BY <2>2
    <3>2. m # 0 => m - 1 \notin Bad
      <4> HIDE DEF Bad
      <4> QED  BY <2>1, <3>1, Zenon
    <3> QED  BY <3>1, <3>2, Zenon
  <2>4. m # 0 => m \in 1..n /\ a[m] = b[m]  BY <2>2 DEF Agree
  <2> QED  BY <2>2, <2>3, <2>4, Zenon DEF Entry
<1> QED  BY <1>1

LEMMA InOrderAgree ==
    ASSUME NEW a, NEW b, NEW n \in Nat, Agree(a, b, n)
    PROVE  InOrder(a, n) = InOrder(b, n)
<1>1. PICK f : InOrder(a, n) = f[n] /\ \A s \in 0..n : f[s] = Entry(a, f, s)  BY InOrderList, Zenon
<1>2. PICK g : InOrder(b, n) = g[n] /\ \A s \in 0..n : g[s] = Entry(b, g, s)  BY InOrderList, Zenon
<1>3. f[n] = g[n]  BY <1>1, <1>2, ListsAgree
<1> QED  BY <1>1, <1>2, <1>3, Zenon

\* One more set.
LEMMA InOrderNext ==
    ASSUME NEW sets, NEW n \in Nat
    PROVE  InOrder(sets, n + 1) = IF sets[n + 1] = {} THEN InOrder(sets, n)
                                  ELSE Append(InOrder(sets, n), Pick(sets[n + 1]))
<1>0. n + 1 \in Nat  OBVIOUS
<1>1. PICK f : InOrder(sets, n + 1) = f[n + 1] /\ \A s \in 0..(n + 1) : f[s] = Entry(sets, f, s)
  BY <1>0, InOrderList, Zenon
<1>2. PICK g : InOrder(sets, n) = g[n] /\ \A s \in 0..n : g[s] = Entry(sets, g, s)  BY InOrderList, Zenon
<1>3. \A s \in 0..n : f[s] = Entry(sets, f, s)  BY <1>1
<1>4. f[n] = g[n]
  <2>1. Agree(sets, sets, n)  BY Zenon DEF Agree
  <2> QED  BY <1>2, <1>3, <2>1, ListsAgree
<1>5. f[n + 1] = Entry(sets, f, n + 1)  BY <1>1
<1>6. n + 1 # 0 /\ n + 1 - 1 = n  OBVIOUS
<1> QED  BY <1>1, <1>2, <1>4, <1>5, <1>6 DEF Entry

\* What is listed is in one of the sets.
LEMMA InOrderMembers ==
    ASSUME NEW S, NEW sets, NEW n \in Nat, \A s \in 1..n : sets[s] \subseteq S
    PROVE  InOrder(sets, n) \in Seq(S)
<1>1. PICK f : InOrder(sets, n) = f[n] /\ \A s \in 0..n : f[s] = Entry(sets, f, s)  BY InOrderList, Zenon
<1> DEFINE Bad == {m \in 0..n : f[m] \notin Seq(S)}
<1>2. Bad = {}
  <2> SUFFICES ASSUME Bad # {} PROVE FALSE  BY Zenon
  <2>1. PICK m \in Bad : \A k \in Bad : m <= k
    <3>1. Bad \in SUBSET Nat  OBVIOUS
    <3> HIDE DEF Bad
    <3> QED  BY <3>1, RecLeast, Zenon
  <2>2. m \in 0..n /\ f[m] \notin Seq(S)  BY Zenon
  <2>3. m # 0 => f[m - 1] \in Seq(S)
    <3>1. m # 0 => m - 1 \in 0..n /\ ~(m <= m - 1)  BY <2>2
    <3>2. m # 0 => m - 1 \notin Bad
      <4> HIDE DEF Bad
      <4> QED  BY <2>1, <3>1, Zenon
    <3> QED  BY <3>1, <3>2, Zenon
  <2>4. m # 0 /\ sets[m] # {} => Pick(sets[m]) \in S
    <3>1. m # 0 => sets[m] \subseteq S  BY <2>2
    <3>2. sets[m] # {} => Pick(sets[m]) \in sets[m]  BY Zenon DEF Pick
    <3> QED  BY <3>1, <3>2, Zenon
  <2>5. f[m] = Entry(sets, f, m)  BY <1>1, <2>2, Zenon
  <2> QED  BY <2>2, <2>3, <2>4, <2>5 DEF Entry
<1> QED  BY <1>1, <1>2

-----------------------------------------------------------------------------
(* Revisions. *)

\* A later table: versions that were current may have ended since, and the
\* new ones began since.
Follows(versions, later, rev) ==
    /\ IsList(later, Len(later)) /\ Len(later) >= Len(versions)
    /\ \A v \in 1..Len(versions) :
         /\ later[v].raw = versions[v].raw /\ later[v].seq = versions[v].seq
         /\ later[v].from = versions[v].from
         /\ later[v].to = versions[v].to \/ (versions[v].to = 0 /\ later[v].to \in Nat /\ later[v].to > rev)
    /\ \A v \in 1..Len(later) : v > Len(versions) => later[v].from \in Nat /\ later[v].from > rev

LEMMA LiveType == ASSUME NEW versions, NEW rev, NEW s PROVE Live(versions, rev, s) \subseteq 1..Len(versions)
BY Zenon DEF Live

\* The rowids of a revision are a list.
LEMMA RevisionList ==
    ASSUME NEW versions, NEW top \in Nat, NEW rev
    PROVE  /\ AtRevision(versions, top, rev) \in Seq(1..Len(versions))
           /\ IsList(AtRevision(versions, top, rev), Len(AtRevision(versions, top, rev)))
           /\ \A i \in 1..Len(AtRevision(versions, top, rev)) : AtRevision(versions, top, rev)[i] \in 1..Len(versions)
<1> DEFINE sets == [s \in 1..top |-> Live(versions, rev, s)]
<1>1. \A s \in 1..top : sets[s] \subseteq 1..Len(versions)  BY LiveType, Zenon
<1>2. PICK at : at = AtRevision(versions, top, rev)  BY Zenon
<1>3. at = InOrder(sets, top)  BY <1>2, Zenon DEF AtRevision
<1> HIDE DEF sets
<1>4. at \in Seq(1..Len(versions))  BY <1>1, <1>3, InOrderMembers, Zenon
<1>5. Len(at) \in Nat /\ at \in [1..Len(at) -> 1..Len(versions)]  BY <1>4, SeqIsFunction, Zenon
<1> QED  BY <1>2, <1>4, <1>5, Zenon DEF IsList

\* A later write leaves the versions live at an earlier revision.
LEMMA SameLive ==
    ASSUME NEW versions, NEW later, NEW top, NEW rev, History(versions, top, rev),
           Follows(versions, later, rev), NEW r \in 0..rev, NEW s
    PROVE  Live(later, r, s) = Live(versions, r, s)
<1>1. ASSUME NEW v \in 1..Len(versions)
      PROVE  v \in Live(later, r, s) <=> v \in Live(versions, r, s)
  BY <1>1, SMTT(30) DEF Live, History, Follows, IsList
<1>2. ASSUME NEW v \in Live(later, r, s) PROVE v \in 1..Len(versions)
  BY <1>2 DEF Live, History, Follows, IsList
<1>3. Live(versions, r, s) \subseteq 1..Len(versions)  BY LiveType, Zenon
<1> QED  BY <1>1, <1>2, <1>3, SMTT(30)

\* Later writes leave the records of a revision as they were.
LEMMA RawsKept ==
    ASSUME NEW versions, NEW later, NEW top, NEW rev, History(versions, top, rev),
           Follows(versions, later, rev), NEW new \in {top, top + 1}, NEW r \in 0..rev
    PROVE  Raws(later, new, r) = Raws(versions, top, r)
<1>0. top \in Nat /\ rev \in Nat  BY Zenon DEF History
<1> DEFINE old == [s \in 1..top |-> Live(versions, r, s)]
           same == [s \in 1..top |-> Live(later, r, s)]
           more == [s \in 1..(top + 1) |-> Live(later, r, s)]
<1>1. same = old  BY SameLive
<1>2. AtRevision(later, top, r) = AtRevision(versions, top, r)  BY <1>1, Zenon DEF AtRevision
<1>3. AtRevision(later, top + 1, r) = AtRevision(versions, top, r)
  <2>1. more[top + 1] = {}
    <3>1. more[top + 1] = Live(versions, r, top + 1)  BY <1>0, SameLive
    <3>2. \A v \in 1..Len(versions) : versions[v].seq # top + 1  BY <1>0 DEF History
    <3> QED  BY <3>1, <3>2, Zenon DEF Live
  <2>2. Agree(more, old, top)  BY <1>0, SameLive DEF Agree
  <2>3. AtRevision(later, top + 1, r) = InOrder(more, top + 1)  BY Zenon DEF AtRevision
  <2>4. AtRevision(versions, top, r) = InOrder(old, top)  BY Zenon DEF AtRevision
  <2> HIDE DEF more, old
  <2>5. InOrder(more, top + 1) = InOrder(more, top)  BY <1>0, <2>1, InOrderNext, Zenon
  <2>6. InOrder(more, top) = InOrder(old, top)  BY <1>0, <2>2, InOrderAgree, Zenon
  <2> QED  BY <2>3, <2>4, <2>5, <2>6, Zenon
<1>4. PICK at : at = AtRevision(versions, top, r)  BY Zenon
<1>5. AtRevision(later, new, r) = at  BY <1>2, <1>3, <1>4, Zenon
<1>6. \A i \in 1..Len(at) : at[i] \in 1..Len(versions)  BY <1>0, <1>4, RevisionList, Zenon
<1>7. \A i \in 1..Len(at) : later[at[i]].raw = versions[at[i]].raw  BY <1>6, Zenon DEF Follows
<1>8. Raws(later, new, r) = [i \in 1..Len(at) |-> later[at[i]].raw]  BY <1>5, Zenon DEF Raws
<1>9. Raws(versions, top, r) = [i \in 1..Len(at) |-> versions[at[i]].raw]  BY <1>4, Zenon DEF Raws
<1> QED  BY <1>7, <1>8, <1>9, Zenon

\* A record that is only added comes last.
LEMMA RawsAppended ==
    ASSUME NEW versions, NEW top, NEW rev, History(versions, top, rev),
           NEW x, x.seq = top + 1, x.from = rev + 1, x.to = 0,
           NEW later, Extended(later, versions, Len(versions), x)
    PROVE  Raws(later, top + 1, rev + 1) = Append(Raws(versions, top, rev), x.raw)
<1> DEFINE n == Len(versions)
           old == [s \in 1..top |-> Live(versions, rev, s)]
           more == [s \in 1..(top + 1) |-> Live(later, rev + 1, s)]
<1>0. top \in Nat /\ rev \in Nat /\ n \in Nat /\ Len(later) = n + 1
  BY Zenon DEF History, Extended, IsList
<1>1. ASSUME NEW v \in 1..(n + 1), NEW s \in 1..top
      PROVE  v \in Live(later, rev + 1, s) <=> v \in Live(versions, rev, s)
  <2>1. CASE v \in 1..n
    BY <1>0, <1>1, <2>1, SMTT(30) DEF Live, History, Extended
  <2>2. CASE v = n + 1
    BY <1>0, <1>1, <2>2 DEF Live, Extended
  <2> QED  BY <1>0, <1>1, <2>1, <2>2
<1>2. ASSUME NEW s \in 1..top PROVE Live(later, rev + 1, s) = Live(versions, rev, s)
  <2>1. Live(later, rev + 1, s) \subseteq 1..(n + 1)  BY <1>0, LiveType, Zenon
  <2>2. Live(versions, rev, s) \subseteq 1..(n + 1)  BY <1>0, LiveType
  <2> QED  BY <1>1, <1>2, <2>1, <2>2, Zenon
<1>3. Live(later, rev + 1, top + 1) = {n + 1}
  <2>1. \A v \in 1..n : later[v].seq # top + 1  BY <1>0, SMTT(30) DEF History, Extended
  <2>2. n + 1 \in Live(later, rev + 1, top + 1)  BY <1>0 DEF Live, Extended
  <2>3. \A v \in Live(later, rev + 1, top + 1) : v = n + 1  BY <1>0, <2>1 DEF Live
  <2> QED  BY <2>2, <2>3, Zenon
<1>4. Agree(more, old, top)  BY <1>0, <1>2 DEF Agree
<1>5. more[top + 1] = {n + 1}  BY <1>0, <1>3
<1>6. Pick({n + 1}) = n + 1  BY Zenon DEF Pick
<1>7. AtRevision(later, top + 1, rev + 1) = InOrder(more, top + 1)  BY Zenon DEF AtRevision
<1>8. AtRevision(versions, top, rev) = InOrder(old, top)  BY Zenon DEF AtRevision
<1> HIDE DEF more, old
<1>9. InOrder(more, top + 1) = Append(InOrder(more, top), n + 1)
  <2>1. more[top + 1] # {} /\ Pick(more[top + 1]) = n + 1  BY <1>5, <1>6, Zenon
  <2> QED  BY <1>0, <2>1, InOrderNext, Zenon
<1>10. InOrder(more, top) = InOrder(old, top)  BY <1>0, <1>4, InOrderAgree, Zenon
<1>11. PICK at, k : at = AtRevision(versions, top, rev) /\ k = Len(at)  BY Zenon
<1>12. IsList(at, k) /\ \A i \in 1..k : at[i] \in 1..n  BY <1>0, <1>11, RevisionList, Zenon
<1>13. PICK next : next = Append(at, n + 1)  BY Zenon
<1>14. Extended(next, at, k, n + 1)  BY <1>12, <1>13, AppendExtends, Zenon
<1>15. AtRevision(later, top + 1, rev + 1) = next  BY <1>7, <1>8, <1>9, <1>10, <1>11, <1>13, Zenon
<1>16. PICK a : a = [i \in 1..k |-> versions[at[i]].raw]  BY Zenon
<1>17. Raws(versions, top, rev) = a  BY <1>11, <1>16, Zenon DEF Raws
<1>18. IsList(a, k)  BY <1>12, <1>16, FunctionIsList DEF IsList
<1>19. PICK b : b = Append(a, x.raw)  BY Zenon
<1>20. Extended(b, a, k, x.raw)  BY <1>18, <1>19, AppendExtends, Zenon
<1>21. Raws(later, top + 1, rev + 1) = [i \in 1..Len(next) |-> later[next[i]].raw]  BY <1>15, Zenon DEF Raws
<1>22. Len(next) = k + 1 /\ k \in Nat /\ b = [i \in 1..(k + 1) |-> b[i]]  BY <1>12, <1>14, <1>20, Zenon DEF Extended, IsList
<1>23. \A i \in 1..(k + 1) : later[next[i]].raw = b[i]
  <2>1. \A i \in 1..k : next[i] = at[i] /\ later[at[i]] = versions[at[i]] /\ b[i] = versions[at[i]].raw
    BY <1>12, <1>14, <1>16, <1>20, Zenon DEF Extended
  <2>2. next[k + 1] = n + 1 /\ later[n + 1] = x /\ b[k + 1] = x.raw
    BY <1>14, <1>20, Zenon DEF Extended
  <2>3. \A i \in 1..(k + 1) : i \in 1..k \/ i = k + 1  BY <1>22
  <2> QED  BY <2>1, <2>2, <2>3
<1> QED  BY <1>17, <1>19, <1>21, <1>22, <1>23, Zenon

-----------------------------------------------------------------------------
(* Writing. *)

\* No revision has the hash that stands for none.
LEMMA RawsHash ==
    ASSUME NEW versions, NEW top, NEW rev, History(versions, top, rev), NEW r
    PROVE  Raws(versions, top, r) # NoHash
<1> SUFFICES ASSUME Raws(versions, top, r) = NoHash PROVE FALSE  BY Zenon
<1>0. top \in Nat  BY Zenon DEF History
<1>1. PICK at : at = AtRevision(versions, top, r)  BY Zenon
<1>2. Len(at) \in Nat /\ \A i \in 1..Len(at) : at[i] \in 1..Len(versions)
  BY <1>0, <1>1, RevisionList, Zenon DEF IsList
<1>3. [i \in 1..Len(at) |-> versions[at[i]].raw] = NoHash  BY <1>1, Zenon DEF Raws
<1>4. 1 \in 1..Len(at) /\ NoHash[1][1] = 0  BY <1>2, <1>3 DEF NoHash
<1>5. versions[at[1]].raw[1] = 0  BY <1>3, <1>4, Zenon
<1>6. versions[at[1]].raw[1] # 0  BY <1>2, <1>4, Zenon DEF History
<1> QED  BY <1>5, <1>6, Zenon

\* A revision of the table later on.
LEMMA LaterRevision ==
    ASSUME NEW versions, NEW top, NEW rev, History(versions, top, rev),
           NEW later, NEW new \in {top, top + 1}, Follows(versions, later, rev),
           NEW next, History(later, new, next), NEW r \in 0..rev
    PROVE  Raws(later, new, r) = Raws(versions, top, r) /\ Raws(later, new, r) # NoHash
BY RawsKept, RawsHash

\* What only adds a record.
Adds(versions, later, top, rev) ==
    \E x : x.seq = top + 1 /\ x.from = rev + 1 /\ x.to = 0 /\ Extended(later, versions, Len(versions), x)

\* nextDigest, extending the digest state or reading all again, is the hash of the current records.
LEMMA DigestIsHash ==
    ASSUME RStore, NEW later, NEW new \in {recMeta.seq, recMeta.seq + 1}, NEW appendOnly \in BOOLEAN,
           appendOnly => new = recMeta.seq + 1 /\ Adds(recVersions, later, recMeta.seq, recMeta.rev)
    PROVE  nextDigest(later, new, appendOnly) = Raws(later, new, recMeta.rev + 1)
<1>1. CASE appendOnly /\ readDigestState
  <2>1. PICK x : /\ x.seq = recMeta.seq + 1 /\ x.from = recMeta.rev + 1 /\ x.to = 0
                 /\ Extended(later, recVersions, Len(recVersions), x)
    BY <1>1, Zenon DEF Adds
  <2>2. later[Len(later)] = x  BY <2>1, Zenon DEF Extended, IsList
  <2>3. recMeta.state = Raws(recVersions, recMeta.seq, recMeta.rev)
    BY <1>1, Zenon DEF readDigestState, RStore
  <2>4. Raws(later, recMeta.seq + 1, recMeta.rev + 1) = Append(recMeta.state, x.raw)
    BY <2>1, <2>3, RawsAppended DEF RStore
  <2> QED  BY <1>1, <2>2, <2>4, Zenon DEF nextDigest
<1>2. CASE ~(appendOnly /\ readDigestState)
  BY <1>2, Zenon DEF nextDigest
<1> QED  BY <1>1, <1>2, Zenon

\* A write that follows the versions there are, and commits the hash of what is then current, leaves the store sound.
LEMMA CommitStore ==
    ASSUME RStore, NEW later, NEW new \in {recMeta.seq, recMeta.seq + 1}, NEW appendOnly \in BOOLEAN,
           NEW older, Follows(recVersions, later, recMeta.rev), History(later, new, recMeta.rev + 1),
           appendOnly => new = recMeta.seq + 1 /\ Adds(recVersions, later, recMeta.seq, recMeta.rev),
           Commit(later, new, appendOnly, older), UNCHANGED <<recOverlay, recWorld>>
    PROVE  /\ RStore'
           /\ \A h, r : HashNames(h, r) => HashNames(h, r)'
           /\ Len(recVersions') >= Len(recVersions)
<1>a. PICK rev, digest : rev = recMeta.rev /\ digest = Raws(later, new, rev + 1)  BY Zenon
<1>0. History(recVersions, recMeta.seq, rev) /\ rev \in Nat  BY <1>a, Zenon DEF RStore, History
<1>1. nextDigest(later, new, appendOnly) = digest  BY <1>a, DigestIsHash, Zenon
<1>2. /\ recVersions' = later /\ recMeta'.rev = rev + 1 /\ recMeta'.seq = new /\ recMeta'.digest = digest
      /\ DOMAIN recMeta'.at = DOMAIN recMeta.at \cup {digest}
      /\ \A h \in DOMAIN recMeta'.at : recMeta'.at[h] = IF h = digest THEN rev + 1 ELSE recMeta.at[h]
  BY <1>a, <1>1 DEF Commit
<1>3. ASSUME NEW h, NEW r, HashNames(h, r) PROVE HashNames(h, r)'
  <2>1. r \in 0..rev /\ Raws(recVersions, recMeta.seq, r) = h /\ h # NoHash  BY <1>a, <1>3, Zenon DEF HashNames
  <2>2. r \in 0..(rev + 1)  BY <1>0, <2>1
  <2>3. Raws(later, new, r) = h  BY <1>a, <1>0, <2>1, LaterRevision
  <2> QED  BY <1>2, <2>1, <2>2, <2>3, Zenon DEF HashNames
<1>4. HashNames(digest, rev + 1)'
  <2>1. digest # NoHash  BY <1>a, RawsHash, Zenon
  <2>2. rev + 1 \in 0..(rev + 1)  BY <1>0
  <2> QED  BY <1>a, <1>2, <2>1, <2>2, Zenon DEF HashNames
<1>5. \A h \in DOMAIN recMeta'.at : HashNames(h, recMeta.at[h])'
  <2> SUFFICES ASSUME NEW h \in DOMAIN recMeta'.at PROVE HashNames(h, recMeta.at[h])'  BY Zenon
  <2>1. CASE h = digest
    <3>1. recMeta'.at[h] = rev + 1  BY <1>2, <2>1, Zenon
    <3>2. HashNames(h, rev + 1)'  BY <1>4, <2>1, Zenon
    <3> QED  BY <1>2, <3>1, <3>2, Zenon DEF HashNames
  <2>2. CASE h # digest
    <3>1. h \in DOMAIN recMeta.at /\ recMeta'.at[h] = recMeta.at[h]  BY <1>2, <2>2, Zenon
    <3>2. PICK r : r = recMeta.at[h]  BY Zenon
    <3>3. HashNames(h, r)  BY <3>1, <3>2, Zenon DEF RStore
    <3>4. HashNames(h, r)'  BY <1>3, <3>3, Zenon
    <3> QED  BY <3>1, <3>2, <3>4, Zenon DEF HashNames
  <2> QED  BY <2>1, <2>2, Zenon
<1>6. Len(recVersions') >= Len(recVersions)  BY <1>2, Zenon DEF Follows
<1>7. RStore'  BY <1>a, <1>2, <1>5, Zenon DEF RStore
<1> QED  BY <1>3, <1>6, <1>7, Zenon

\* The versions with the current ones of an id ended.
LEMMA EndedFollows ==
    ASSUME RStore, NEW id
    PROVE  /\ IsList(VersionsEnded(id), Len(recVersions))
           /\ \A v \in 1..Len(recVersions) :
                /\ IsVersion(VersionsEnded(id)[v])
                /\ VersionsEnded(id)[v].seq = recVersions[v].seq
                /\ VersionsEnded(id)[v].raw = recVersions[v].raw
                /\ VersionsEnded(id)[v].from = recVersions[v].from
                /\ \/ VersionsEnded(id)[v].to = recVersions[v].to
                   \/ recVersions[v].to = 0 /\ VersionsEnded(id)[v].to = recMeta.rev + 1
                /\ CurrentOf(id) = {} => VersionsEnded(id)[v] = recVersions[v]
<1>1. Len(recVersions) \in Nat /\ \A v \in 1..Len(recVersions) : IsVersion(recVersions[v])
  BY Zenon DEF RStore, History, IsList
<1>2. PICK l : l = VersionsEnded(id)  BY Zenon
<1>3. l = [v \in 1..Len(recVersions) |-> l[v]]  BY <1>2, Zenon DEF VersionsEnded
<1>4. ASSUME NEW v \in 1..Len(recVersions)
      PROVE  /\ IsVersion(l[v]) /\ l[v].seq = recVersions[v].seq /\ l[v].raw = recVersions[v].raw
             /\ l[v].from = recVersions[v].from
             /\ l[v].to = recVersions[v].to \/ (recVersions[v].to = 0 /\ l[v].to = recMeta.rev + 1)
             /\ CurrentOf(id) = {} => l[v] = recVersions[v]
  <2>1. CASE v \in CurrentOf(id)
    <3>1. l[v] = [recVersions[v] EXCEPT !.to = recMeta.rev + 1]  BY <1>2, <2>1, Zenon DEF VersionsEnded
    <3>2. l[v] = [id |-> recVersions[v].id, raw |-> recVersions[v].raw, from |-> recVersions[v].from,
                  to |-> recMeta.rev + 1, seq |-> recVersions[v].seq]
      BY <1>1, <3>1, Zenon DEF IsVersion
    <3>3. recVersions[v].to = 0 /\ CurrentOf(id) # {}  BY <2>1, Zenon DEF CurrentOf
    <3> QED  BY <3>2, <3>3 DEF IsVersion
  <2>2. CASE v \notin CurrentOf(id)
    <3>1. l[v] = recVersions[v]  BY <1>2, <2>2, Zenon DEF VersionsEnded
    <3> QED  BY <1>1, <3>1, Zenon
  <2> QED  BY <2>1, <2>2, Zenon
<1>5. IsList(l, Len(recVersions))  BY <1>1, <1>3, FunctionIsList, Zenon
<1> QED  BY <1>2, <1>4, <1>5, Zenon

LEMMA DeleteFollows ==
    ASSUME RStore, NEW id
    PROVE  /\ Follows(recVersions, VersionsEnded(id), recMeta.rev)
           /\ History(VersionsEnded(id), recMeta.seq, recMeta.rev + 1)
<1>1. PICK l : l = VersionsEnded(id)  BY Zenon
<1>2. History(recVersions, recMeta.seq, recMeta.rev) /\ recMeta.rev \in Nat  BY Zenon DEF RStore, History
<1>3. /\ IsList(l, Len(recVersions)) /\ Len(recVersions) \in Nat /\ Len(l) = Len(recVersions)
      /\ \A v \in 1..Len(recVersions) :
           /\ IsVersion(l[v]) /\ l[v].seq = recVersions[v].seq /\ l[v].raw = recVersions[v].raw
           /\ l[v].from = recVersions[v].from
           /\ l[v].to = recVersions[v].to \/ (recVersions[v].to = 0 /\ l[v].to = recMeta.rev + 1)
  BY <1>1, EndedFollows, Zenon DEF IsList
<1>4. Follows(recVersions, l, recMeta.rev)  BY <1>2, <1>3 DEF Follows
<1>5. History(l, recMeta.seq, recMeta.rev + 1)
  <2>1. ASSUME NEW v \in 1..Len(l)
        PROVE  /\ IsVersion(l[v]) /\ l[v].seq \in 1..recMeta.seq /\ l[v].raw[1] # 0
               /\ l[v].from \in 1..(recMeta.rev + 1) /\ l[v].to \in 0..(recMeta.rev + 1)
    <3>1. /\ recVersions[v].seq \in 1..recMeta.seq /\ recVersions[v].raw[1] # 0
          /\ recVersions[v].from \in 1..recMeta.rev /\ recVersions[v].to \in 0..recMeta.rev
      BY <1>2, <1>3, Zenon DEF History
    <3>2. /\ IsVersion(l[v]) /\ l[v].seq = recVersions[v].seq /\ l[v].raw = recVersions[v].raw
          /\ l[v].from = recVersions[v].from
          /\ l[v].to = recVersions[v].to \/ l[v].to = recMeta.rev + 1
      BY <1>3, Zenon
    <3> QED  BY <1>2, <3>1, <3>2
  <2>2. recMeta.seq \in Nat /\ recMeta.rev + 1 \in Nat  BY <1>2 DEF History
  <2> QED  BY <1>3, <2>1, <2>2, Zenon DEF History
<1> QED  BY <1>1, <1>4, <1>5, Zenon

LEMMA WriteFollows ==
    ASSUME RStore, NEW id, id # 0, NEW value,
           NEW new, new = IF CurrentOf(id) = {} THEN recMeta.seq + 1 ELSE recMeta.seq
    PROVE  /\ new \in {recMeta.seq, recMeta.seq + 1}
           /\ Follows(recVersions, writeVersion(id, value), recMeta.rev)
           /\ History(writeVersion(id, value), new, recMeta.rev + 1)
           /\ CurrentOf(id) = {} =>
                new = recMeta.seq + 1 /\ Adds(recVersions, writeVersion(id, value), recMeta.seq, recMeta.rev)
<1>1. PICK e, n, x :
        /\ e = VersionsEnded(id) /\ n = Len(recVersions)
        /\ x = [id |-> id, raw |-> <<id, value>>, from |-> recMeta.rev + 1, to |-> 0,
                seq |-> IF CurrentOf(id) = {} THEN recMeta.seq + 1 ELSE recVersions[Pick(CurrentOf(id))].seq]
  BY Zenon
<1>2. /\ History(recVersions, recMeta.seq, recMeta.rev) /\ recMeta.rev \in Nat /\ recMeta.seq \in Nat
      /\ n \in Nat /\ IsList(recVersions, n)
  BY <1>1, Zenon DEF RStore, History, IsList
<1>3. /\ IsList(e, n)
      /\ \A v \in 1..n :
           /\ IsVersion(e[v]) /\ e[v].seq = recVersions[v].seq /\ e[v].raw = recVersions[v].raw
           /\ e[v].from = recVersions[v].from
           /\ e[v].to = recVersions[v].to \/ (recVersions[v].to = 0 /\ e[v].to = recMeta.rev + 1)
           /\ CurrentOf(id) = {} => e[v] = recVersions[v]
  BY <1>1, EndedFollows, Zenon
<1>4. PICK l : l = writeVersion(id, value)  BY Zenon
<1>5. l = Append(e, x)  BY <1>1, <1>4, Zenon DEF writeVersion
<1>6. Extended(l, e, n, x)  BY <1>3, <1>5, AppendExtends, Zenon
<1>7. /\ x.raw[1] # 0 /\ x.from = recMeta.rev + 1 /\ x.to = 0 /\ IsVersion(x)
      /\ x.seq = IF CurrentOf(id) = {} THEN recMeta.seq + 1 ELSE recVersions[Pick(CurrentOf(id))].seq
  BY <1>1, Zenon DEF IsVersion
<1>8. new \in {recMeta.seq, recMeta.seq + 1} /\ x.seq \in 1..new
  <2>1. CASE CurrentOf(id) = {}  BY <1>2, <1>7, <2>1
  <2>2. CASE CurrentOf(id) # {}
    <3>1. Pick(CurrentOf(id)) \in 1..n  BY <1>1, <2>2, Zenon DEF Pick, CurrentOf
    <3>2. recVersions[Pick(CurrentOf(id))].seq \in 1..recMeta.seq  BY <1>1, <1>2, <3>1, Zenon DEF History
    <3> QED  BY <1>2, <1>7, <2>2, <3>2, Zenon
  <2> QED  BY <2>1, <2>2, Zenon
<1>9. /\ Len(l) = n + 1 /\ IsList(l, Len(l)) /\ (\A v \in 1..n : l[v] = e[v]) /\ l[n + 1] = x
      /\ \A v \in 1..Len(l) : v \in 1..n \/ v = n + 1
  <2>1. IsList(l, n + 1) /\ (\A v \in 1..n : l[v] = e[v]) /\ l[n + 1] = x  BY <1>6, Zenon DEF Extended
  <2>2. Len(l) = n + 1  BY <2>1, Zenon DEF IsList
  <2>3. \A v \in 1..(n + 1) : v \in 1..n \/ v = n + 1  BY <1>2
  <2> QED  BY <2>1, <2>2, <2>3, Zenon
<1>10. Follows(recVersions, l, recMeta.rev)
  <2>1. \A v \in 1..n :
          /\ l[v].raw = recVersions[v].raw /\ l[v].seq = recVersions[v].seq /\ l[v].from = recVersions[v].from
          /\ l[v].to = recVersions[v].to
             \/ (recVersions[v].to = 0 /\ l[v].to \in Nat /\ l[v].to > recMeta.rev)
    BY <1>2, <1>3, <1>9, SMTT(30)
  <2>2. \A v \in 1..Len(l) : v > n => l[v].from \in Nat /\ l[v].from > recMeta.rev
    BY <1>2, <1>7, <1>9
  <2>3. Len(l) >= n  BY <1>2, <1>9
  <2> QED  BY <1>1, <1>9, <2>1, <2>2, <2>3, SMTT(30) DEF Follows
<1>11. History(l, new, recMeta.rev + 1)
  <2>1. ASSUME NEW v \in 1..n
        PROVE  /\ IsVersion(l[v]) /\ l[v].seq \in 1..new /\ l[v].raw[1] # 0
               /\ l[v].from \in 1..(recMeta.rev + 1) /\ l[v].to \in 0..(recMeta.rev + 1)
    <3>1. /\ recVersions[v].seq \in 1..recMeta.seq /\ recVersions[v].raw[1] # 0
          /\ recVersions[v].from \in 1..recMeta.rev /\ recVersions[v].to \in 0..recMeta.rev
      BY <1>1, <1>2, Zenon DEF History
    <3>2. /\ IsVersion(l[v]) /\ l[v].seq = recVersions[v].seq /\ l[v].raw = recVersions[v].raw
          /\ l[v].from = recVersions[v].from
          /\ l[v].to = recVersions[v].to \/ l[v].to = recMeta.rev + 1
      BY <1>3, <1>9, Zenon
    <3> QED  BY <1>2, <1>8, <3>1, <3>2, SMTT(30)
  <2>2. x.from \in 1..(recMeta.rev + 1) /\ x.to \in 0..(recMeta.rev + 1)  BY <1>2, <1>7
  <2>3. new \in Nat /\ recMeta.rev + 1 \in Nat  BY <1>2, <1>8
  <2> QED  BY <1>7, <1>8, <1>9, <2>1, <2>2, <2>3, SMTT(30) DEF History
<1>12. ASSUME CurrentOf(id) = {}
       PROVE  new = recMeta.seq + 1 /\ Adds(recVersions, l, recMeta.seq, recMeta.rev)
  <2>1. Extended(l, recVersions, n, x)  BY <1>3, <1>6, <1>12, Zenon DEF Extended
  <2> QED  BY <1>1, <1>7, <1>12, <2>1, Zenon DEF Adds
<1> QED  BY <1>4, <1>8, <1>10, <1>11, <1>12, Zenon

LEMMA PutStore ==
    ASSUME RStore, Put
    PROVE  /\ RStore'
           /\ \A h, r : HashNames(h, r) => HashNames(h, r)'
           /\ Len(recVersions') >= Len(recVersions)
<1>1. UNCHANGED <<recOverlay, recWorld>>  BY Zenon DEF Put
<1>2. PICK id \in recWorld.ids, older \in recWorld.builds :
        \/ \E value \in RecValues :
             Commit(writeVersion(id, value),
                    IF CurrentOf(id) = {} THEN recMeta.seq + 1 ELSE recMeta.seq, CurrentOf(id) = {}, older)
        \/ Commit(VersionsEnded(id), recMeta.seq, FALSE, older)
  BY Zenon DEF Put
<1>3. id # 0  BY RecordsAssumption, Zenon DEF RStore
<1>4. ASSUME NEW value,
             Commit(writeVersion(id, value),
                    IF CurrentOf(id) = {} THEN recMeta.seq + 1 ELSE recMeta.seq, CurrentOf(id) = {}, older)
      PROVE  /\ RStore' /\ Len(recVersions') >= Len(recVersions)
             /\ \A h, r : HashNames(h, r) => HashNames(h, r)'
  <2>1. PICK later, new, only :
          /\ later = writeVersion(id, value) /\ only = (CurrentOf(id) = {})
          /\ new = IF CurrentOf(id) = {} THEN recMeta.seq + 1 ELSE recMeta.seq
    BY Zenon
  <2>2. Commit(later, new, only, older) /\ only \in BOOLEAN  BY <1>4, <2>1, Zenon
  <2>3. /\ new \in {recMeta.seq, recMeta.seq + 1}
        /\ Follows(recVersions, later, recMeta.rev) /\ History(later, new, recMeta.rev + 1)
        /\ only => new = recMeta.seq + 1 /\ Adds(recVersions, later, recMeta.seq, recMeta.rev)
    BY <1>3, <2>1, WriteFollows, Zenon
  <2> QED  BY <1>1, <2>2, <2>3, CommitStore, Zenon
<1>5. ASSUME Commit(VersionsEnded(id), recMeta.seq, FALSE, older)
      PROVE  /\ RStore' /\ Len(recVersions') >= Len(recVersions)
             /\ \A h, r : HashNames(h, r) => HashNames(h, r)'
  BY <1>1, <1>5, DeleteFollows, CommitStore, Zenon
<1> QED  BY <1>2, <1>4, <1>5, Zenon

\* A write is growth.
LEMMA PutGrows == ASSUME RStore, Put PROVE RStore' /\ Grows
<1>1. RStore' /\ (\A h, r : HashNames(h, r) => HashNames(h, r)') /\ Len(recVersions') >= Len(recVersions)
  BY PutStore, Zenon
<1>2. recOverlay' = recOverlay  BY Zenon DEF Put
<1>3. \A g : OverlayRows(g)' = OverlayRows(g)  BY <1>2, Zenon DEF OverlayRows
<1>4. Len(recVersions) \in Nat /\ Len(recOverlay) \in Nat  BY StoreLengths, Zenon
<1>5. Len(recVersions') \in Nat /\ Len(recOverlay') \in Nat  BY <1>1, Zenon DEF RStore, History, IsList
<1> QED  BY <1>1, <1>2, <1>3, <1>4, <1>5 DEF Grows

LEMMA ReplaceGrows == ASSUME RStore, ReplaceDerivedMetadata PROVE RStore' /\ Grows
<1>1. UNCHANGED <<recWorld, recVersions, recMeta>>  BY Zenon DEF ReplaceDerivedMetadata
<1>2. PICK rows : recOverlay' = Append(recOverlay, rows)  BY Zenon DEF ReplaceDerivedMetadata
<1>3. PICK n : n = Len(recOverlay) /\ n \in Nat /\ IsList(recOverlay, n)  BY StoreLengths, Zenon DEF RStore
<1>4. Extended(recOverlay', recOverlay, n, rows)  BY <1>2, <1>3, AppendExtends, Zenon
<1>5. /\ IsList(recOverlay', n + 1) /\ Len(recOverlay') = n + 1
      /\ \A g \in 1..n : recOverlay'[g] = recOverlay[g]
  BY <1>4, Zenon DEF Extended, IsList
<1>6. \A h, r : HashNames(h, r) => HashNames(h, r)'  BY <1>1, Zenon DEF HashNames
<1>7. \A g \in 0..n : OverlayRows(g)' = OverlayRows(g)  BY <1>3, <1>5 DEF OverlayRows
<1>8. RStore'  BY <1>1, <1>5, <1>6, Zenon DEF RStore
<1>9. Len(recVersions) \in Nat /\ Len(recVersions') = Len(recVersions)  BY <1>1, StoreLengths, Zenon
<1> QED  BY <1>3, <1>5, <1>6, <1>7, <1>8, <1>9 DEF Grows

\* A write of records or of the overlay, another process's or this one's.
LEMMA WriteInv == ASSUME RInv, Put \/ ReplaceDerivedMetadata PROVE RInv'
<1>1. RStore' /\ Grows  BY PutGrows, ReplaceGrows, Zenon DEF RInv
<1>2. UNCHANGED <<recIndexed, recCache, recProcs, recFailures>>  BY Zenon DEF Put, ReplaceDerivedMetadata
<1>3. RProcs'  BY <1>1, <1>2, ProcsKept, Zenon DEF RInv
<1>4. RCache'
  <2>1. PICK c : c = recCache  BY Zenon
  <2> QED  BY <1>1, <1>2, <2>1, CacheGo, Zenon DEF RInv, RCache
<1>5. RWaits'  BY <1>2, Zenon DEF RInv, RWaits
<1>6. RecCalm' <=> RecCalm  BY <1>2, Zenon DEF RecCalm, Building
<1>7. RFresh'  BY <1>2, <1>6, Zenon DEF RInv, RFresh, Fresh
<1> QED  BY <1>1, <1>3, <1>4, <1>5, <1>7, Zenon DEF RInv

\* What one statement reads is the revision, with the token counts there are.
LEMMA RowsRead ==
    ASSUME RInv, NEW hash, NEW rev, HashNames(hash, rev)
    PROVE  Held(RowsAt(rev), hash) /\ Fresh(RowsAt(rev))
<1>0. History(recVersions, recMeta.seq, recMeta.rev) /\ recMeta.seq \in Nat /\ recIndexed \in Nat
  BY Zenon DEF RInv, RStore, History, RFresh
<1>1. PICK at : at = AtRevision(recVersions, recMeta.seq, rev)  BY Zenon
<1>2. Len(at) \in Nat /\ \A i \in 1..Len(at) : at[i] \in 1..Len(recVersions)
  BY <1>0, <1>1, RevisionList, Zenon DEF IsList
<1>3. PICK n : n = Len(at) /\ n \in Nat  BY <1>2, Zenon
<1>4. PICK rows : rows = [i \in 1..n |-> [raw |-> recVersions[at[i]].raw, version |-> at[i], ready |-> at[i] <= recIndexed]]
  BY Zenon
<1>5. rows = RowsAt(rev)  BY <1>1, <1>3, <1>4, Zenon DEF RowsAt
<1>6. IsList(rows, n)  BY <1>3, <1>4, FunctionIsList, Zenon
<1>7. Len(rows) = n  BY <1>6, Zenon DEF IsList
<1>8. [i \in 1..n |-> rows[i].raw] = [i \in 1..n |-> recVersions[at[i]].raw]  BY <1>4, Zenon
<1>9. RawsOf(rows) = hash  BY <1>1, <1>3, <1>7, <1>8, Zenon DEF RawsOf, HashNames, Raws
<1>10. \A i \in 1..n : rows[i].version = at[i] /\ (rows[i].ready <=> at[i] <= recIndexed)  BY <1>4, Zenon
<1>11. \A i \in 1..n : rows[i].version \in 1..Len(recVersions)  BY <1>2, <1>3, <1>10, Zenon
<1>12. Held(rows, hash)  BY <1>6, <1>7, <1>9, <1>11, Zenon DEF Held
<1>13. Len(recVersions) \in Nat  BY StoreLengths, Zenon DEF RInv
<1>14. \A i \in 1..n : rows[i].ready \/ rows[i].version > recIndexed
  <2> SUFFICES ASSUME NEW i \in 1..n PROVE rows[i].ready \/ rows[i].version > recIndexed  BY Zenon
  <2>1. at[i] \in Int  BY <1>2, <1>3, <1>13
  <2> QED  BY <1>0, <1>10, <2>1
<1> QED  BY <1>5, <1>7, <1>12, <1>14, Zenon DEF Fresh

LEMMA LoadRecordsInv == ASSUME RInv, NEW p \in RecProcs, LoadRecords(p) PROVE RInv'
<1>0. recProcs[p].pc = "load"  BY Zenon DEF LoadRecords, RecAt
<1>a. UNCHANGED <<recWorld, recVersions, recMeta, recOverlay, recIndexed, recCache, recFailures>>  BY Zenon DEF LoadRecords
<1>1. PICK r : Go(p, r) /\ r = [pc |-> "publish", hash |-> recProcs[p].hash, rev |-> recProcs[p].rev,
                                indexed |-> recProcs[p].indexed, gen |-> recProcs[p].gen,
                                current |-> recProcs[p].current, build |-> recProcs[p].build,
                                rows |-> RowsAt(recProcs[p].rev)]
  BY Zenon DEF LoadRecords
<1>2. HashNames(recProcs[p].hash, recProcs[p].rev)  BY <1>0, Carried, Zenon
<1>3. Held(r.rows, r.hash) /\ Fresh(r.rows)  BY <1>1, <1>2, RowsRead, Zenon
<1>4. recProcs[p].build \in Nat  BY <1>0, Zenon DEF RInv, RProcs, ProcOK
<1>5. ProcOK(r)  BY <1>0, <1>1, <1>3, <1>4, SameQuestion, Zenon
<1>6. /\ r.pc = "publish" /\ r.pc \in Loads /\ recProcs[p].pc \in Loads
      /\ r.pc \notin Builds /\ recProcs[p].pc \notin Builds
      /\ r.build = recProcs[p].build
  BY <1>0, <1>1, Zenon DEF Loads, Builds
<1>7. ~Building(p)  BY <1>0, Zenon DEF Building
<1> QED  BY <1>a, <1>1, <1>3, <1>5, <1>6, <1>7, MovesAlone, Zenon

LEMMA RecInitInv == ASSUME RecInit PROVE RInv
<1>0. /\ recVersions = <<>> /\ recIndexed = 0 /\ recOverlay = <<>> /\ recWorld \in RecWorlds
      /\ recMeta.rev = 0 /\ recMeta.seq = 0 /\ recMeta.digest = <<>> /\ recMeta.at = [h \in {<<>>} |-> 0]
      /\ recCache = NewCache /\ recProcs = [p \in RecProcs |-> RecIdle] /\ recFailures.torn = FALSE
  BY Zenon DEF RecInit
<1>1. IsList(<<>>, Len(<<>>)) /\ Len(<<>>) = 0
  <2>1. <<>> = [i \in 1 .. 0 |-> <<>>[i]]  OBVIOUS
  <2> QED  BY <2>1, Zenon DEF IsList
<1>2. History(<<>>, 0, 0)  BY <1>1 DEF History, IsVersion
<1>3. Raws(<<>>, 0, 0) = <<>>
  <2>1. PICK at : at = AtRevision(<<>>, 0, 0)  BY Zenon
  <2>2. IsList(at, Len(at)) /\ \A i \in 1..Len(at) : at[i] \in 1..Len(<<>>)
    BY <1>2, <2>1, RevisionList, Zenon
  <2>3. Len(at) = 0
    <3>1. Len(at) \in Nat  BY <2>2, Zenon DEF IsList
    <3>2. Len(at) # 0 => 1 \in 1..Len(at)  BY <3>1
    <3> QED  BY <1>1, <2>2, <3>2
  <2>4. [i \in 1..0 |-> <<>>[at[i]].raw] = <<>>  OBVIOUS
  <2> QED  BY <2>1, <2>3, <2>4, Zenon DEF Raws
<1>4. <<>> # NoHash  BY Zenon DEF NoHash
<1>5. RStore
  <2>1. HashNames(<<>>, 0)  BY <1>0, <1>3, <1>4 DEF HashNames
  <2> QED  BY <1>0, <1>1, <1>2, <1>3, <2>1, Zenon DEF RStore
<1>6. RProcs
  <2>1. \A p \in RecProcs : recProcs[p].pc = "idle"  BY <1>0, Zenon DEF RecIdle
  <2>2. \A p \in RecProcs : ProcOK(recProcs[p])  BY <2>1, PlainProc
  <2> QED  BY <1>0, <2>2, Zenon DEF RProcs
<1>7. RCache  BY <1>0, NewCacheOK, Zenon DEF RCache
<1>8. RWaits /\ RFresh
  <2>1. \A p \in RecProcs : recProcs[p].pc = "idle"  BY <1>0, Zenon DEF RecIdle
  <2>2. recIndexed \in Nat /\ recFailures.torn \in BOOLEAN  BY <1>0, Zenon
  <2> QED  BY <1>0, <2>1, <2>2, IdleInv, Zenon
<1> QED  BY <1>5, <1>6, <1>7, <1>8, Zenon DEF RInv

LEMMA RecStepInv == ASSUME RInv, NEW p \in RecProcs, RecStep(p) PROVE RInv'
BY ScanInv, SaveLexicalInv, ClearCacheInv, StartQueryInv, AskInv, LookInv, LockInv, LoadRecordsInv, PublishInv,
   DerivedInv, BuildDerivedInv, KeepDerivedInv, SelectInv, ReturnInv, FailInv, Zenon DEF RecStep

LEMMA RecNextInv == ASSUME RInv, [RecNext]_recVars PROVE RInv'
<1>1. CASE RecNext  BY <1>1, WriteInv, WokenInv, RecRestartInv, RecStepInv, Zenon DEF RecNext
<1>2. CASE UNCHANGED recVars
  <2>0. /\ UNCHANGED <<recWorld, recVersions, recMeta, recOverlay, recIndexed>>
        /\ UNCHANGED <<recCache, recProcs, recFailures>>
    BY <1>2, Zenon DEF recVars
  <2>1. RStore' /\ Grows  BY <2>0, QuietGrows, Zenon DEF RInv
  <2>2. RProcs'  BY <2>0, <2>1, ProcsKept, Zenon DEF RInv
  <2>3. RCache'
    <3>1. PICK c : c = recCache  BY Zenon
    <3> QED  BY <2>0, <2>1, <3>1, CacheGo, Zenon DEF RInv, RCache
  <2>4. RWaits'  BY <2>0, Zenon DEF RInv, RWaits
  <2>5. RecCalm' <=> RecCalm  BY <2>0, Zenon DEF RecCalm, Building
  <2>6. RFresh'  BY <2>0, <2>5, Zenon DEF RInv, RFresh, Fresh
  <2> QED  BY <2>1, <2>2, <2>3, <2>4, <2>6, Zenon DEF RInv
<1> QED  BY <1>1, <1>2, Zenon

LEMMA RInvAnswers == ASSUME RInv PROVE AnswersAreTheRevision
<1>1. /\ recMeta.digest = Raws(recVersions, recMeta.seq, recMeta.rev)
      /\ \A h \in DOMAIN recMeta.at : Raws(recVersions, recMeta.seq, recMeta.at[h]) = h
  BY Zenon DEF RInv, RStore, HashNames
<1>2. \A p \in RecProcs : RecAt(p, "answer") =>
        RawsOf(recProcs[p].rows) = recProcs[p].hash /\ recProcs[p].overlay = OverlayRows(recProcs[p].gen)
  BY Zenon DEF RInv, RProcs, ProcOK, RecAt
<1>3. recCache.snapshot.hash # NoHash => RawsOf(recCache.snapshot.rows) = recCache.snapshot.hash
  <2>1. recCache.snapshot = NoSnapshot \/ Held(recCache.snapshot.rows, recCache.snapshot.hash)
    BY Zenon DEF RInv, RCache, CacheOK, SnapshotOK
  <2> QED  BY <2>1 DEF NoSnapshot, Held
<1>4. \A s \in recCache.selections : RawsOf(s.rows) = s.hash
  BY Zenon DEF RInv, RCache, CacheOK, Held
<1>5. \A k \in 1..Len(recCache.derived) :
        /\ RawsOf(recCache.derived[k].rows) = recCache.derived[k].hash
        /\ recCache.derived[k].overlay = OverlayRows(recCache.derived[k].gen)
  BY Zenon DEF RInv, RCache, CacheOK, IndexOK, Held
<1> QED  BY <1>1, <1>2, <1>3, <1>4, <1>5, Zenon DEF AnswersAreTheRevision

LEMMA RInvKeepsUp == ASSUME RInv PROVE CacheKeepsUp
<1>1. ASSUME recIndexed = Len(recVersions), ~recFailures.torn, \A p \in RecProcs : ~Building(p)
      PROVE  /\ IsReady(recCache.snapshot.rows)
             /\ \A s \in recCache.selections : s.indexed \/ s.some \/ IsReady(s.rows)
  <2>0. RecCalm  BY <1>1, Zenon DEF RecCalm
  <2>1. Fresh(recCache.snapshot.rows) /\ \A s \in recCache.selections : s.indexed \/ s.some \/ Fresh(s.rows)
    BY <2>0, Zenon DEF RInv, RFresh
  <2>2. Len(recVersions) \in Nat  BY StoreLengths, Zenon DEF RInv
  <2>3. ASSUME NEW rows, Fresh(rows), \A i \in 1..Len(rows) : rows[i].version \in 1..Len(recVersions)
        PROVE  IsReady(rows)
    <3> SUFFICES ASSUME NEW i \in 1..Len(rows) PROVE rows[i].ready  BY Zenon DEF IsReady
    <3>1. rows[i].version <= recIndexed  BY <1>1, <2>2, <2>3
    <3>2. rows[i].version \in Int /\ recIndexed \in Int  BY <1>1, <2>2, <2>3
    <3>3. rows[i].ready \/ rows[i].version > recIndexed  BY <2>3, Zenon DEF Fresh
    <3> QED  BY <3>1, <3>2, <3>3
  <2>4. \A i \in 1..Len(recCache.snapshot.rows) : recCache.snapshot.rows[i].version \in 1..Len(recVersions)
    <3>1. recCache.snapshot = NoSnapshot \/ Held(recCache.snapshot.rows, recCache.snapshot.hash)
      BY Zenon DEF RInv, RCache, CacheOK, SnapshotOK
    <3> QED  BY <3>1 DEF Held, NoSnapshot
  <2>5. \A s \in recCache.selections : \A i \in 1..Len(s.rows) : s.rows[i].version \in 1..Len(recVersions)
    BY Zenon DEF RInv, RCache, CacheOK, Held
  <2> QED  BY <2>1, <2>3, <2>4, <2>5, Zenon
<1>2. ASSUME NEW p \in RecProcs
      PROVE  /\ RecAt(p, "wait") => \E q \in RecProcs : recCache.loading = q /\ recProcs[q].pc \in {"load", "publish"}
             /\ RecAt(p, "waitDerived") =>
                  \E q \in RecProcs : recCache.derivedLoading = q /\ recProcs[q].pc \in {"build", "keep"}
  BY Zenon DEF RInv, RWaits, RecAt
<1> QED  BY <1>1, <1>2, Zenon DEF CacheKeepsUp, Covered

\* The inductive invariant: revisions and generations that are only added to, queries and a cache that hold what they
\* say they hold, and a leader for everyone who waits (Store.load, recordCache).
THEOREM RecordsInvariant == RecSpec => []RInv
<1>1. RecInit => RInv  BY RecInitInv, Zenon
<1>2. RInv /\ [RecNext]_recVars => RInv'  BY RecNextInv, Zenon
<1> QED  BY <1>1, <1>2, PTL DEF RecSpec

\* Every answer, and everything the cache keeps, is the revision and the overlay generation it is named by, and the
\* digest is the hash of the current records, for any number of queries, records and writes (nextDigest, queryRecords).
THEOREM Answers == RecSpec => []AnswersAreTheRevision
<1>1. RInv => AnswersAreTheRevision  BY RInvAnswers, Zenon
<1> QED  BY <1>1, RecordsInvariant, PTL

\* No load that began before a build of the index is published, or shared by a request that keeps every row, once the
\* build is over, and no query waits for a load or a build that nobody is at (buildLexical, selectRecords, derived).
THEOREM KeepsUp == RecSpec => []CacheKeepsUp
<1>1. RInv => CacheKeepsUp  BY RInvKeepsUp, Zenon
<1> QED  BY <1>1, RecordsInvariant, PTL
=============================================================================
