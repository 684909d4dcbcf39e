--------------------------- MODULE FoldProperties ---------------------------
(***************************************************************************)
(* What consolidation promises of the stored state of a scope (Fold).      *)
(***************************************************************************)
EXTENDS Fold

Row == IF stored = NoRow THEN EmptyState ELSE stored

Occurs(s, v) == Cardinality({i \in 1..Len(s) : s[i] = v})
Places(st, v) == Occurs(st.pending, v) + Occurs(st.memory, v) + Cardinality({d \in st.failed : v \in d})

\* Every record up to the watermark is accounted for once: it is pending,
\* folded into the memory or dropped, never two of these, and none of them
\* only when there was nothing to read or a later version replaced it before
\* a job read it.  Memory and pending are in write order, the memory before
\* the pending: batches are linked in order (readNewRecords, foldTimelines,
\* foldDropping, foldLayered, whatever cancels, fails or races).  And what the
\* answered calls spent is metered once, by the job that made them, whether its
\* batches were linked, discarded or kept for a later job; only what a job
\* could not save at all is missing (keepExtractions, unmetered).
NothingLost ==
  /\ \A v \in 1..written :
       /\ Places(Row, v) <= (IF v <= Row.mark THEN 1 ELSE 0)
       /\ v <= Row.mark /\ v \in Heads /\ readable(v) > 0 => Places(Row, v) = 1
  /\ \A i, k \in 1..Len(Row.memory \o Row.pending) :
       i < k => (Row.memory \o Row.pending)[i] < (Row.memory \o Row.pending)[k]
  /\ books + MapThenSumSet(LAMBDA j : Outstanding(jobs[j]), Jobs) = 0

\* The stored state only moves on: no save takes back the watermark, an item
\* of the memory or a drop that another job stored, save the reset that
\* replaces it all (saveTimelines' token).  And an outage of any length drops
\* nothing and brings nothing closer to a drop: a job none of whose calls was
\* answered or refused counts no error, and gives up only on a record that no
\* request can hold (countedError, foldJob.counts, foldDropping).
Saving(j) == jobs[j].pc \in {"save", "linked", "close", "fold"}

SavesMoveOn ==
  [][ /\ \/ Row.mark <= Row'.mark /\ IsPrefix(Row.memory, Row'.memory) /\ Row.failed \subseteq Row'.failed
         \/ \E j \in Jobs : Saving(j) /\ jobs[j].req = "reset"
      /\ \A j \in Jobs :
           /\ Saving(j) /\ ~jobs[j].contact
           /\ jobs'[j] # jobs[j] /\ stored' # stored
           => /\ Row'.errors <= Row.errors /\ Row'.linkErrors <= Row.linkErrors
              /\ \A d \in Row'.failed \ Row.failed : \A v \in d : d = {v} /\ readable(v) > RequestUnits ]_vars

\* A batch the provider keeps refusing, cutting off or finding too large does
\* not stop every later job: with nothing but such batches in the way, every
\* record is folded or dropped in the end (dropDue, foldDropping, nextBatch's
\* flush), by jobs none of which holds a short batch back.  A batch that times
\* out while no other call of its job is answered is not told from an outage
\* and waits, by design.
Drained == Row.mark = Len(world.script) /\ Row.pending = <<>>
Obstinate == world.faults # {} \/ "hold" \in world.requests \/ "slow" \in Temper([v \in 1..Len(world.script) |-> v])
BacklogDrains == Obstinate \/ <>Drained
=============================================================================
