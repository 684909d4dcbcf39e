------------------------------ MODULE Records ------------------------------
(***************************************************************************)
(* The records store (internal/records): versioned records in one SQLite   *)
(* file, a revision digest resumed from a saved hash state (digest.go), a  *)
(* lexical index built behind the writes (fts.go), an overlay of derived   *)
(* metadata (derived.go), and the query runtime's cache (cache.go,         *)
(* read.go, selection.go, index_build.go) shared by queries and by the     *)
(* lexical worker.                                                         *)
(*                                                                         *)
(* Data: a record JSON is <<id, value>>, a digest is the sequence it       *)
(* hashes, and a saved hash state the sequence hashed so far, so hashing   *)
(* is injective; a rowid is a position in recVersions.  The rows of the    *)
(* overlay are one value, replaced whole.  A selection is ready when each  *)
(* of its rows was read with a token count.                                *)
(***************************************************************************)
EXTENDS Integers, Sequences

CONSTANTS
  RecValues,           \* what a record may say
  RecQueries,          \* the concurrent queries
  RecOverlays,         \* the rows a derivation job may write
  RecKept,             \* derivedIndex profiles kept (4)
  RecWorlds            \* what a run may meet: see recWorld

\* An id is never the one of NoHash, and no query is called like nobody.
ASSUME RecordsAssumption ==
  "none" \notin RecQueries /\ \A w \in RecWorlds : 0 \notin w.ids /\ w.indexed \subseteq BOOLEAN

VARIABLES
  recWorld,     \* [puts, replaces, failures (at most), ids, builds, queries, indexed, filters,
                \*  catchUp, restarts]
  recVersions,  \* rowid -> [id, raw, seq, from, to]; to = 0 while current
  recMeta,      \* [rev, seq, digest, at, label, state], as of the meta table
  recIndexed,   \* the highest version_id in lexical_documents
  recOverlay,   \* generation -> the overlay's rows; its length is the generation
  recCache,     \* the queryCache
  recWake,      \* lexicalWake holds a wake
  recProcs,     \* query or Worker -> where it is
  recFailures   \* [met, torn]: failures met, and whether one tore a build behind a saved batch

recVars == <<recWorld, recVersions, recMeta, recIndexed, recOverlay, recCache, recWake, recProcs, recFailures>>

Worker == "worker"
RecProcs == RecQueries \cup {Worker}

NoHash == <<<<0, "none">>>>
NoSnapshot == [hash |-> NoHash, rows |-> <<>>]
NewCache == [current |-> NoHash, snapshot |-> NoSnapshot, loading |-> "none", build |-> 0,
             selections |-> {}, derived |-> <<>>, derivedLoading |-> "none"]
RecIdle == [pc |-> "idle"]

(***************************************************************************)
(* Writing                                                                 *)
(***************************************************************************)

\* The rows of seq s that revision rev sees; a version keeps the seq of the one it ends.
Live(versions, rev, s) ==
  {v \in 1..Len(versions) :
     /\ versions[v].seq = s /\ versions[v].from <= rev
     /\ versions[v].to = 0 \/ versions[v].to > rev}

Pick(S) == CHOOSE v \in S : TRUE

\* One of each of the first n sets, in order; none of an empty one.
InOrder(sets, n) ==
  LET upTo[s \in 0..n] == IF s = 0 THEN <<>>
                          ELSE IF sets[s] = {} THEN upTo[s - 1]
                          ELSE Append(upTo[s - 1], Pick(sets[s]))
  IN upTo[n]

\* The rowids of the records of revision rev, in seq order; top is the last seq.
AtRevision(versions, top, rev) == InOrder([s \in 1..top |-> Live(versions, rev, s)], top)

Raws(versions, top, rev) ==
  LET at == AtRevision(versions, top, rev) IN [i \in 1..Len(at) |-> versions[at[i]].raw]

CurrentOf(id) == {v \in 1..Len(recVersions) : recVersions[v].id = id /\ recVersions[v].to = 0}

\* The deletes and writeVersion: a current version ends at the next revision;
\* a replaced record keeps its seq, a new one takes the next.
VersionsEnded(id) == [v \in 1..Len(recVersions) |->
                IF v \in CurrentOf(id) THEN [recVersions[v] EXCEPT !.to = recMeta.rev + 1] ELSE recVersions[v]]

writeVersion(id, value) ==
  Append(VersionsEnded(id), [id |-> id, raw |-> <<id, value>>, from |-> recMeta.rev + 1, to |-> 0,
                     seq |-> IF CurrentOf(id) = {} THEN recMeta.seq + 1
                             ELSE recVersions[Pick(CurrentOf(id))].seq])

readDigestState == recMeta.label = recMeta.rev /\ recMeta.state = recMeta.digest

\* nextDigest: what the saved state and the appended records hash to, else
\* what the records of the new revision do.
nextDigest(versions, seq, appendOnly) ==
  IF appendOnly /\ readDigestState THEN Append(recMeta.state, versions[Len(versions)].raw)
  ELSE Raws(versions, seq, recMeta.rev + 1)

\* One transaction.  An older build writes the same records and digest, and
\* leaves the digest state as it was.
Commit(versions, seq, appendOnly, older) ==
  \E digest \in {IF older THEN Raws(versions, seq, recMeta.rev + 1) ELSE nextDigest(versions, seq, appendOnly)} :
    /\ recVersions' = versions
    /\ recMeta' = [rev |-> recMeta.rev + 1, seq |-> seq, digest |-> digest,
                   at |-> [h \in DOMAIN recMeta.at \cup {digest} |->
                             IF h = digest THEN recMeta.rev + 1 ELSE recMeta.at[h]],
                   label |-> IF older THEN recMeta.label ELSE recMeta.rev + 1,
                   state |-> IF older THEN recMeta.state ELSE digest]

\* Put: an upsert, or a delete, then the worker is woken.  A put that expects
\* another revision changes nothing.  An older build is another process.
Put ==
  /\ recMeta.rev < recWorld.puts
  /\ \E id \in recWorld.ids, older \in recWorld.builds :
       /\ \/ \E value \in RecValues :
               Commit(writeVersion(id, value),
                      IF CurrentOf(id) = {} THEN recMeta.seq + 1 ELSE recMeta.seq, CurrentOf(id) = {}, older)
          \/ Commit(VersionsEnded(id), recMeta.seq, FALSE, older)
       /\ recWake' = (recWake \/ ~older)
  /\ UNCHANGED <<recWorld, recIndexed, recOverlay, recCache, recProcs, recFailures>>

\* ReplaceDerivedMetadata: only a change moves the generation.
ReplaceDerivedMetadata ==
  /\ Len(recOverlay) < recWorld.replaces
  /\ \E rows \in RecOverlays : (recOverlay # <<>> => recOverlay[Len(recOverlay)] # rows) /\ recOverlay' = Append(recOverlay, rows)
  /\ UNCHANGED <<recWorld, recVersions, recMeta, recIndexed, recCache, recWake, recProcs, recFailures>>

\* The rows of generation g, none for no generation.
OverlayRows(g) == IF g = 0 THEN "empty" ELSE recOverlay[g]

(***************************************************************************)
(* The lexical index: buildLexical, run by the worker and by a query that  *)
(* catches the index up (CatchUpLexical)                                   *)
(***************************************************************************)
Go(p, next) == recProcs' = [recProcs EXCEPT ![p] = next]
RecAt(p, pc) == recProcs[p].pc = pc

\* runLexicalWorker takes the wake.
Woken ==
  /\ recWake /\ RecAt(Worker, "idle")
  /\ recWake' = FALSE
  /\ Go(Worker, [pc |-> "scan", changed |-> FALSE])
  /\ UNCHANGED <<recWorld, recVersions, recMeta, recIndexed, recOverlay, recCache, recFailures>>

\* The versions above the highest indexed one, one at a time (batches of 512);
\* none left ends the build.
Scan(p) ==
  /\ RecAt(p, "scan")
  /\ Go(p, IF recIndexed < Len(recVersions) THEN [pc |-> "save", changed |-> recProcs[p].changed, batch |-> recIndexed + 1]
           ELSE IF recProcs[p].changed THEN [pc |-> "clear"]
           ELSE [pc |-> "ask"])
  /\ UNCHANGED <<recWorld, recVersions, recMeta, recIndexed, recOverlay, recCache, recWake, recFailures>>

\* saveLexical: a version another build saved meanwhile is ignored.
SaveLexical(p) ==
  /\ RecAt(p, "save")
  /\ recIndexed' = IF recProcs[p].batch > recIndexed THEN recProcs[p].batch ELSE recIndexed
  /\ Go(p, [pc |-> "scan", changed |-> TRUE])
  /\ UNCHANGED <<recWorld, recVersions, recMeta, recOverlay, recCache, recWake, recFailures>>

\* What was read before the index covered it is forgotten, and is not
\* published any more.
ClearCache(p) ==
  /\ RecAt(p, "clear")
  /\ recCache' = [recCache EXCEPT !.build = @ + 1, !.snapshot = NoSnapshot, !.selections = {}]
  /\ Go(p, [pc |-> "ask"])
  /\ UNCHANGED <<recWorld, recVersions, recMeta, recIndexed, recOverlay, recWake, recFailures>>

\* A query starts, with or without catching the index up.
StartQuery(p) ==
  /\ p \in recWorld.queries /\ RecAt(p, "idle")
  /\ \/ recWorld.catchUp /\ Go(p, [pc |-> "scan", changed |-> FALSE])
     \/ Go(p, [pc |-> "ask"])
  /\ UNCHANGED <<recWorld, recVersions, recMeta, recIndexed, recOverlay, recCache, recWake, recFailures>>

(***************************************************************************)
(* Reading: queryRecords                                                   *)
(***************************************************************************)

\* derivedGeneration and revision: the current revision, or an earlier one by
\* its hash; the worker prepares the current one (prepareSnapshot).
Ask(p) ==
  /\ RecAt(p, "ask")
  /\ \E hash \in (IF p = Worker THEN {recMeta.digest} ELSE DOMAIN recMeta.at),
        indexed \in (IF p = Worker THEN {FALSE} ELSE recWorld.indexed) :
       Go(p, [pc |-> "look", hash |-> hash, rev |-> recMeta.at[hash], indexed |-> indexed,
              gen |-> IF indexed THEN Len(recOverlay) ELSE 0])
  /\ UNCHANGED <<recWorld, recVersions, recMeta, recIndexed, recOverlay, recCache, recWake, recFailures>>

\* The current digest is read, then the cache locked.
Look(p) ==
  /\ RecAt(p, "look")
  /\ LET proc == recProcs[p]
     IN Go(p, [pc |-> "lock", hash |-> proc.hash, rev |-> proc.rev, indexed |-> proc.indexed, gen |-> proc.gen,
               current |-> recMeta.digest])
  /\ UNCHANGED <<recWorld, recVersions, recMeta, recIndexed, recOverlay, recCache, recWake, recFailures>>

\* A new current revision forgets the snapshot and its selections.
Refreshed(current) ==
  IF recCache.current = current THEN recCache
  ELSE [recCache EXCEPT !.current = current, !.snapshot = NoSnapshot, !.selections = {}]

\* A query with the revision it asked for, without and with its rows.
RecAsked(proc, pc) == [pc |-> pc, hash |-> proc.hash, rev |-> proc.rev, indexed |-> proc.indexed, gen |-> proc.gen]
RecHolding(proc, pc, rows) ==
  [pc |-> pc, hash |-> proc.hash, rev |-> proc.rev, indexed |-> proc.indexed, gen |-> proc.gen, rows |-> rows]
RecAfter(proc) == IF proc.indexed THEN "derived" ELSE "select"

\* The snapshot of the hash is taken; else one load runs at a time.
LockAs(p, cache) ==
  \/ /\ cache.snapshot.hash = recProcs[p].hash
     /\ recCache' = cache
     /\ Go(p, RecHolding(recProcs[p], RecAfter(recProcs[p]), cache.snapshot.rows))
  \/ /\ cache.snapshot.hash # recProcs[p].hash /\ cache.loading # "none"
     /\ recCache' = cache
     /\ Go(p, RecAsked(recProcs[p], "wait"))
  \/ /\ cache.snapshot.hash # recProcs[p].hash /\ cache.loading = "none"
     /\ recCache' = [cache EXCEPT !.loading = p]
     /\ LET proc == recProcs[p]
        IN Go(p, [pc |-> "load", hash |-> proc.hash, rev |-> proc.rev, indexed |-> proc.indexed, gen |-> proc.gen,
                  current |-> proc.current, build |-> cache.build])

Lock(p) ==
  /\ RecAt(p, "lock")
  /\ LockAs(p, Refreshed(recProcs[p].current))
  /\ UNCHANGED <<recWorld, recVersions, recMeta, recIndexed, recOverlay, recWake, recFailures>>

\* One statement reads the records of the revision and their token counts.
\* The rows one query of queryRecords returns.
RowsAt(rev) ==
  LET at == AtRevision(recVersions, recMeta.seq, rev)
  IN [i \in 1..Len(at) |-> [raw |-> recVersions[at[i]].raw, version |-> at[i], ready |-> at[i] <= recIndexed]]

LoadRecords(p) ==
  /\ RecAt(p, "load")
  /\ LET proc == recProcs[p]
     IN Go(p, [pc |-> "publish", hash |-> proc.hash, rev |-> proc.rev, indexed |-> proc.indexed, gen |-> proc.gen,
               current |-> proc.current, build |-> proc.build, rows |-> RowsAt(proc.rev)])
  /\ UNCHANGED <<recWorld, recVersions, recMeta, recIndexed, recOverlay, recCache, recWake, recFailures>>

\* The end of a load, however it ends, wakes its waiters, which look again.
Wakes(procs) == [q \in RecProcs |-> IF procs[q].pc = "wait" THEN RecAsked(procs[q], "look") ELSE procs[q]]
WakesDerived(procs) ==
  [q \in RecProcs |-> IF procs[q].pc = "waitDerived" THEN RecHolding(procs[q], "derived", procs[q].rows) ELSE procs[q]]

\* Only a read that no newer revision and no build has overtaken is published.
\* Mutant: the build is not looked at.
PublishesOvertaken(proc) == recCache.current = proc.current

Publishes(proc) == recCache.current = proc.current /\ recCache.build = proc.build

Publish(p) ==
  /\ RecAt(p, "publish")
  /\ recCache' = [recCache EXCEPT
       !.loading = "none",
       !.snapshot = IF Publishes(recProcs[p]) THEN [hash |-> recProcs[p].hash, rows |-> recProcs[p].rows] ELSE @,
       !.selections = IF Publishes(recProcs[p]) /\ recCache.snapshot.hash # recProcs[p].hash THEN {} ELSE @]
  /\ recProcs' = Wakes([recProcs EXCEPT ![p] = RecHolding(@, RecAfter(@), @.rows)])
  /\ UNCHANGED <<recWorld, recVersions, recMeta, recIndexed, recOverlay, recWake, recFailures>>

(***************************************************************************)
(* The derived index of an indexed query (derived, buildDerived)           *)
(***************************************************************************)
KeptIndex(hash, gen) == {k \in 1..Len(recCache.derived) : recCache.derived[k].hash = hash /\ recCache.derived[k].gen = gen}

Selecting(proc, index) ==
  [pc |-> "select", hash |-> proc.hash, rev |-> proc.rev, indexed |-> proc.indexed, gen |-> index.gen,
   rows |-> index.rows, overlay |-> index.overlay]

Derived(p) ==
  /\ RecAt(p, "derived")
  /\ LET found == KeptIndex(recProcs[p].hash, recProcs[p].gen)
     IN \/ /\ found # {}
           /\ Go(p, Selecting(recProcs[p], recCache.derived[Pick(found)]))
           /\ UNCHANGED recCache
        \/ /\ found = {} /\ recCache.derivedLoading # "none"
           /\ Go(p, RecHolding(recProcs[p], "waitDerived", recProcs[p].rows))
           /\ UNCHANGED recCache
        \/ /\ found = {} /\ recCache.derivedLoading = "none"
           /\ Go(p, RecHolding(recProcs[p], "build", recProcs[p].rows))
           /\ recCache' = [recCache EXCEPT !.derivedLoading = p]
  /\ UNCHANGED <<recWorld, recVersions, recMeta, recIndexed, recOverlay, recWake, recFailures>>

\* derivedRows reads the generation with the rows; without an overlay none is
\* read.
BuildDerived(p) ==
  /\ RecAt(p, "build")
  /\ LET proc == recProcs[p]
         gen == IF proc.gen = 0 THEN 0 ELSE Len(recOverlay)
     IN Go(p, [pc |-> "keep", hash |-> proc.hash, rev |-> proc.rev, indexed |-> proc.indexed, gen |-> proc.gen,
               index |-> [hash |-> proc.hash, gen |-> gen, rows |-> proc.rows, overlay |-> OverlayRows(gen)]])
  /\ UNCHANGED <<recWorld, recVersions, recMeta, recIndexed, recOverlay, recCache, recWake, recFailures>>

\* Kept under the generation it was built from, the oldest giving way.
\* Mutant: under the generation the query asked for.
KeptAsAsked(proc) == [proc.index EXCEPT !.gen = proc.gen]

KeptAs(proc) == proc.index

Bounded(list) == IF Len(list) > RecKept THEN Tail(list) ELSE list

KeepDerived(p) ==
  /\ RecAt(p, "keep")
  /\ \E index \in {KeptAs(recProcs[p])} :
       IF KeptIndex(index.hash, index.gen) = {}
         THEN /\ recCache' = [recCache EXCEPT !.derivedLoading = "none", !.derived = Bounded(Append(@, index))]
              /\ recProcs' = WakesDerived([recProcs EXCEPT ![p] = Selecting(@, index)])
       ELSE /\ recCache' = [recCache EXCEPT !.derivedLoading = "none"]
            /\ recProcs' = WakesDerived([recProcs EXCEPT ![p] =
                 Selecting(@, recCache.derived[Pick(KeptIndex(index.hash, index.gen))])])
  /\ UNCHANGED <<recWorld, recVersions, recMeta, recIndexed, recOverlay, recWake, recFailures>>

(***************************************************************************)
(* The selection and the answer                                            *)
(***************************************************************************)
KeptSelections(proc, some) ==
  {s \in recCache.selections :
     s.hash = proc.hash /\ s.indexed = proc.indexed /\ s.gen = proc.gen /\ s.some = some}

\* selectRecords, indexedSelection and keepSelection: one selection per key,
\* kept only beside the snapshot of its hash.  A request whose filter keeps
\* every row shares the snapshot's (allSelection); one that keeps some of them
\* chooses from the rows it has read itself, by which it is known here.
Selection(proc, some) ==
  [hash |-> proc.hash, indexed |-> proc.indexed, gen |-> proc.gen, some |-> some,
   rows |-> IF ~some /\ ~proc.indexed /\ recCache.snapshot.hash = proc.hash THEN recCache.snapshot.rows ELSE proc.rows]

Answer(proc, rows) ==
  [pc |-> "answer", hash |-> proc.hash, rows |-> rows, indexed |-> proc.indexed,
   gen |-> proc.gen, overlay |-> IF proc.indexed THEN proc.overlay ELSE OverlayRows(0)]

Select(p) ==
  /\ RecAt(p, "select")
  /\ \E some \in (IF p = Worker THEN {FALSE} ELSE recWorld.filters) :
       \/ \E s \in KeptSelections(recProcs[p], some) :
            Go(p, Answer(recProcs[p], s.rows)) /\ UNCHANGED recCache
       \/ /\ KeptSelections(recProcs[p], some) = {}
          /\ recCache' = [recCache EXCEPT !.selections =
               IF recCache.snapshot.hash = recProcs[p].hash THEN @ \cup {Selection(recProcs[p], some)} ELSE @]
          /\ Go(p, Answer(recProcs[p], Selection(recProcs[p], some).rows))
  /\ UNCHANGED <<recWorld, recVersions, recMeta, recIndexed, recOverlay, recWake, recFailures>>

\* A selection that is not ready wakes the worker; the query ranks by the
\* rules that need no index.
IsReady(rows) == \A i \in 1..Len(rows) : rows[i].ready

Return(p) ==
  /\ RecAt(p, "answer")
  /\ recWake' = (recWake \/ (p # Worker /\ ~IsReady(recProcs[p].rows)))
  /\ Go(p, RecIdle)
  /\ UNCHANGED <<recWorld, recVersions, recMeta, recIndexed, recOverlay, recCache, recFailures>>

Released(p) == [recCache EXCEPT !.loading = IF @ = p THEN "none" ELSE @,
                                !.derivedLoading = IF @ = p THEN "none" ELSE @]

Fail(p) ==
  /\ recFailures.met < recWorld.failures
  /\ recProcs[p].pc \in {"ask", "look", "load", "wait", "build", "waitDerived", "scan", "save"}
  /\ recFailures' = [met |-> recFailures.met + 1,
                     torn |-> recFailures.torn \/ (recProcs[p].pc \in {"scan", "save"} /\ recProcs[p].changed)]
  /\ recCache' = Released(p)
  /\ recProcs' = LET failed == [recProcs EXCEPT ![p] = RecIdle]
                 IN IF RecAt(p, "load") THEN Wakes(failed)
                    ELSE IF RecAt(p, "build") THEN WakesDerived(failed) ELSE failed
  /\ UNCHANGED <<recWorld, recVersions, recMeta, recIndexed, recOverlay, recWake>>

\* stop, after the last call, and StartRuntime: a new cache, and a wake.
Restart ==
  /\ recWorld.restarts /\ \A p \in RecProcs : RecAt(p, "idle")
  /\ recCache' = NewCache /\ recWake' = TRUE
  /\ UNCHANGED <<recWorld, recVersions, recMeta, recIndexed, recOverlay, recProcs, recFailures>>

RecStep(p) == Scan(p) \/ SaveLexical(p) \/ ClearCache(p) \/ StartQuery(p) \/ Ask(p) \/ Look(p) \/ Lock(p) \/ LoadRecords(p)
              \/ Publish(p) \/ Derived(p) \/ BuildDerived(p) \/ KeepDerived(p) \/ Select(p) \/ Return(p) \/ Fail(p)

RecInit ==
  /\ recWorld \in RecWorlds
  /\ recVersions = <<>> /\ recIndexed = 0 /\ recOverlay = <<>>
  /\ recMeta = [rev |-> 0, seq |-> 0, digest |-> <<>>, at |-> [h \in {<<>>} |-> 0], label |-> -1, state |-> <<>>]
  /\ recCache = NewCache /\ recWake = TRUE
  /\ recProcs = [p \in RecProcs |-> RecIdle]
  /\ recFailures = [met |-> 0, torn |-> FALSE]

RecNext == Put \/ ReplaceDerivedMetadata \/ Woken \/ Restart \/ \E p \in RecProcs : RecStep(p)

RecSpec == RecInit /\ [][RecNext]_recVars
=============================================================================
