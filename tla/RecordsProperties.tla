------------------------- MODULE RecordsProperties -------------------------
(***************************************************************************)
(* What the records store promises its readers (Records).                  *)
(***************************************************************************)
EXTENDS Records

RawsOf(rows) == [i \in 1..Len(rows) |-> rows[i].raw]

\* What a query answers from, and whatever the cache keeps for the next one,
\* is the revision and the generation of the overlay it is kept under: no
\* race of writes, builds, loads and waits puts rows of one under the name of
\* another (queryRecords, derived, keepSelection).  The name itself is right:
\* the revision digest is the hash of the current records, whichever builds
\* wrote them and whatever hash state they left behind, and a hash names a
\* revision with exactly its records (nextDigest, readDigestState, Put).
AnswersAreTheRevision ==
  /\ recMeta.digest = Raws(recVersions, recMeta.seq, recMeta.rev)
  /\ \A h \in DOMAIN recMeta.at : Raws(recVersions, recMeta.seq, recMeta.at[h]) = h
  /\ \A p \in RecProcs : RecAt(p, "answer") =>
       RawsOf(recProcs[p].rows) = recProcs[p].hash /\ recProcs[p].overlay = OverlayRows(recProcs[p].gen)
  /\ recCache.snapshot.hash # NoHash => RawsOf(recCache.snapshot.rows) = recCache.snapshot.hash
  /\ \A s \in recCache.selections : RawsOf(s.rows) = s.hash
  /\ \A k \in 1..Len(recCache.derived) :
       /\ RawsOf(recCache.derived[k].rows) = recCache.derived[k].hash
       /\ recCache.derived[k].overlay = OverlayRows(recCache.derived[k].gen)

\* The cache keeps up with what it is waited for.  Once the index covers every
\* version and no build is at work, the snapshot and the selections that share
\* it were read with their token counts: no load that began before the build is
\* published after it, and a request that keeps every row is served the
\* snapshot's, not the ones it has read itself, unless a build failed behind a
\* batch it had saved (lexicalBuild, selectRecords).  Of the other selections,
\* and of a derived index, CatchUpLexical says more than holds: they may have
\* been read before the build and are served until the revision moves on.  And
\* whoever waits for a load or a build of the cache waits for one that is under
\* way: a failed or canceled one leaves no query waiting (snapshotLoading,
\* derivedLoading, their deferred release).
Building(p) == recProcs[p].pc \in {"scan", "save", "clear"} /\ (recProcs[p].pc = "clear" \/ recProcs[p].changed)
Covered == recIndexed = Len(recVersions) /\ ~recFailures.torn /\ \A p \in RecProcs : ~Building(p)
CacheKeepsUp ==
  /\ Covered =>
       /\ IsReady(recCache.snapshot.rows)
       /\ \A s \in recCache.selections : s.indexed \/ s.some \/ IsReady(s.rows)
  /\ \A p \in RecProcs :
       /\ RecAt(p, "wait") => \E q \in RecProcs : recCache.loading = q /\ recProcs[q].pc \in {"load", "publish"}
       /\ RecAt(p, "waitDerived") => \E q \in RecProcs : recCache.derivedLoading = q /\ recProcs[q].pc \in {"build", "keep"}
=============================================================================
