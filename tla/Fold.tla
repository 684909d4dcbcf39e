-------------------------------- MODULE Fold --------------------------------
(***************************************************************************)
(* Consolidation of one scope (internal/memoryagent: timelines.go,         *)
(* timelines_store.go, layered.go, layered_link.go).  A job reads the      *)
(* records written after the stored watermark, folds them in batches into  *)
(* the memory through a completion model, and replaces the stored state    *)
(* under the token of the state it read.  Several jobs, of one agent (they *)
(* share its lock and its kept extractions) or of several processes (they  *)
(* share only the stored row), run over one scope.                         *)
(*                                                                         *)
(* Data: a record version is its rowid; what a parsed reply writes down of *)
(* a part of a batch is the part itself, appended to the memory; a drop is *)
(* the set of the records given up on (the code stores their number and    *)
(* logs them).  The token is the digest of the payload, so the payload     *)
(* stands for it.  Ages are young or old: dropAfter has passed since the   *)
(* first counted error, or not.                                            *)
(***************************************************************************)
EXTENDS Integers, Sequences, FiniteSets, SequencesExt, FiniteSetsExt

CONSTANTS
  Jobs,           \* the jobs that may run (world.agent: whose), each again and again
  Worlds,         \* what a run may meet: see world
  BatchUnits,     \* Consolidation.BatchCharacters
  MaxBatches,     \* Consolidation.MaxBatches, and of every request
  RequestUnits,   \* the units a provider takes in one request
  Parallel,       \* Consolidation.Parallel
  DropErrors,     \* dropErrors
  KeptBound,      \* extractionCacheSize
  AnsweredCalls   \* bound: calls answered before an outage meets a fold

VARIABLES
  world,    \* [script, agent, layered, defer, faults, requests]
  written,  \* the record versions written: script[1..written]
  stored,   \* the timelines row: a state, or NoRow
  jobs,     \* job -> what it holds
  lock,     \* agent -> the job that holds lockTimelines, or None
  kept,     \* agent -> its extractionCache, the most recently stored first
  books     \* calls metered in the stored state less calls answered

vars == <<world, written, stored, jobs, lock, kept, books>>

None == "none"

EmptyState == [mark |-> 0, pending |-> <<>>, memory |-> <<>>, failed |-> {},
               errors |-> 0, old |-> FALSE, linkErrors |-> 0, linkOld |-> FALSE]

\* A scope never written has no row.
NoRow == [EmptyState EXCEPT !.mark = -1]

NoJob == [pc |-> "idle"]

(***************************************************************************)
(* Records                                                                 *)
(***************************************************************************)

\* The current heads: versions no later version of the record replaces.
Heads == {v \in 1..written : \A w \in (v + 1)..written : world.script[w].id # world.script[v].id}

\* What a job reads of a version, in units; 0 when nothing is readable.
readable(v) == world.script[v].units

RECURSIVE Units(_)
Units(batch) == IF batch = <<>> THEN 0 ELSE readable(Head(batch)) + Units(Tail(batch))

Temper(batch) == {world.script[v].temper : v \in ToSet(batch)}

\* nextBatch: the shortest prefix that reaches BatchUnits, else all of it
\* when flushing, else none.
nextBatch(pending, flush) ==
  LET full == {k \in 1..Len(pending) : Units(SubSeq(pending, 1, k)) >= BatchUnits}
  IN IF full # {} THEN SubSeq(pending, 1, CHOOSE k \in full : \A m \in full : k <= m)
     ELSE IF flush THEN pending ELSE <<>>

Rest(pending, batch) == SubSeq(pending, Len(batch) + 1, Len(pending))

\* layeredBatches: up to MaxBatches consecutive batches.
RECURSIVE layeredBatches(_, _, _)
layeredBatches(pending, flush, max) ==
  LET batch == nextBatch(pending, flush)
  IN IF max = 0 \/ batch = <<>> THEN <<>>
     ELSE <<batch>> \o layeredBatches(Rest(pending, batch), flush, max - 1)

\* readNewRecords: the fresh heads in version order, up to the first one
\* whose units would pass the bound of a nonempty pending list.
Fresh(st) == SelectSeq([v \in 1..written |-> v], LAMBDA v : v \in Heads /\ v > st.mark)

PendingAfter(st, fresh, k) == st.pending \o SelectSeq(SubSeq(fresh, 1, k), LAMBDA v : readable(v) > 0)

PassesBound(st, fresh, k) ==
  /\ k < Len(fresh)
  /\ readable(fresh[k + 1]) > 0
  /\ PendingAfter(st, fresh, k) # <<>>
  /\ Units(PendingAfter(st, fresh, k)) + readable(fresh[k + 1]) > MaxBatches * BatchUnits

ReadCount(st, fresh) ==
  CHOOSE k \in 0..Len(fresh) : /\ k = Len(fresh) \/ PassesBound(st, fresh, k)
                               /\ \A i \in 0..(k - 1) : ~PassesBound(st, fresh, i)

\* Mutant: the watermark passes the records the bound left unread.
readNewRecordsAll(st, fresh, k) ==
  [st EXCEPT !.pending = PendingAfter(st, fresh, k), !.mark = IF fresh = <<>> THEN @ ELSE Last(fresh)]

readNewRecords(st, fresh, k) ==
  [st EXCEPT !.pending = PendingAfter(st, fresh, k), !.mark = IF k = 0 THEN @ ELSE fresh[k]]

(***************************************************************************)
(* One fold: what the calls of a batch come to.  left is how many more     *)
(* calls are answered before the provider or the caller stops them, with   *)
(* the error stop.                                                         *)
(***************************************************************************)
Nothing(left) == [folded |-> <<>>, failed |-> {}, calls |-> 0, left |-> left, err |-> None, refused |-> FALSE]

Stopped(r, err) == [r EXCEPT !.err = err, !.refused = @ \/ err = "refused"]

Joined(a, b) == [folded |-> a.folded \o b.folded, failed |-> a.failed \cup b.failed,
                 calls |-> a.calls + b.calls, left |-> b.left, err |-> b.err,
                 refused |-> a.refused \/ b.refused]

Half(batch) == (Len(batch) + 1) \div 2
FirstHalf(batch) == SubSeq(batch, 1, Half(batch))
SecondHalf(batch) == SubSeq(batch, Half(batch) + 1, Len(batch))

Given(left, n) == IF left < n THEN left ELSE n

\* completeFold of a request that is not too large: its error, or None.
CallError(batch) ==
  IF "refused" \in Temper(batch) THEN "refused" ELSE IF "slow" \in Temper(batch) THEN "timeout" ELSE None

\* A reply parses at the first or the second attempt, or at neither.
Attempts(batch) == IF Temper(batch) \cap {"garbled", "flaky"} # {} THEN 2 ELSE 1

Answered(batch, left) == [Nothing(left - Given(left, Attempts(batch))) EXCEPT !.calls = Given(left, Attempts(batch))]

\* Op of v, with v evaluated once.
With(v, Op(_)) == CHOOSE r \in {Op(x) : x \in {v}} : TRUE

\* A batch too large for a request, and a batch that cannot be read, fold in
\* halves; the second attempt's unreadable half is dropped.
RECURSIVE foldTimelines(_, _, _, _)
foldTimelines(batch, split, left, stop) ==
  LET halves(before, deeper) ==
        With(foldTimelines(FirstHalf(batch), deeper, before.left, stop), LAMBDA a :
          IF a.err # None THEN Joined(before, a)
          ELSE With(foldTimelines(SecondHalf(batch), deeper, a.left, stop), LAMBDA b : Joined(Joined(before, a), b)))
  IN IF Units(batch) > RequestUnits
       THEN IF Len(batch) = 1 THEN [Nothing(left) EXCEPT !.failed = {ToSet(batch)}] ELSE halves(Nothing(left), split)
     ELSE IF left = 0 THEN Stopped(Nothing(0), stop)
     ELSE IF CallError(batch) # None THEN Stopped(Nothing(left - 1), CallError(batch))
     ELSE IF left < Attempts(batch) THEN Stopped(Answered(batch, left), stop)
     ELSE IF "garbled" \notin Temper(batch) THEN [Answered(batch, left) EXCEPT !.folded = batch]
     ELSE IF split /\ Len(batch) > 1 THEN halves(Answered(batch, left), FALSE)
     ELSE [Answered(batch, left) EXCEPT !.failed = {ToSet(batch)}]

\* countedError, foldJob.mayCount and foldJob.counts.
countedError(err) == err = "refused"
mayCount(err) == countedError(err) \/ (world.layered /\ err = "timeout")
\* Mutant: a timeout counts against its batch whether or not a call of the
\* job was answered.
countsUnanswered(err, answered) == mayCount(err)

counts(err, answered) == countedError(err) \/ (world.layered /\ err = "timeout" /\ answered)

\* foldDropping: each half on its own; a half whose error counts is dropped
\* whole, decided once both have run.
Dropping(halves, answered) ==
  LET failures == {i \in 1..Len(halves) : halves[i].r.err # None}
      calls == halves[1].r.calls + (IF Len(halves) = 2 THEN halves[2].r.calls ELSE 0)
      never == {i \in failures : ~mayCount(halves[i].r.err)}
      unearned == {i \in failures : ~counts(halves[i].r.err, answered \/ calls > 0)}
      refused == \E i \in 1..Len(halves) : halves[i].r.refused
      base == [Nothing(0) EXCEPT !.calls = calls, !.refused = refused]
  IN IF never \cup unearned # {}
       THEN [base EXCEPT !.err = halves[IF never # {} THEN CHOOSE i \in never : TRUE
                                        ELSE CHOOSE i \in unearned : TRUE].r.err]
     ELSE [base EXCEPT
            !.folded = FlattenSeq([i \in 1..Len(halves) |-> IF i \in failures THEN <<>> ELSE halves[i].r.folded]),
            !.failed = UNION {IF i \in failures THEN {ToSet(halves[i].part)} ELSE halves[i].r.failed : i \in 1..Len(halves)}]

foldDropping(batch, left, stop, answered) ==
  LET first == IF Len(batch) = 1 THEN batch ELSE FirstHalf(batch)
  IN With([part |-> first, r |-> foldTimelines(first, FALSE, left, stop)], LAMBDA a :
       IF Len(batch) = 1 \/ (a.r.err # None /\ ~mayCount(a.r.err)) THEN Dropping(<<a>>, answered)
       ELSE With([part |-> SecondHalf(batch), r |-> foldTimelines(SecondHalf(batch), FALSE, a.r.left, stop)],
                 LAMBDA b : Dropping(<<a, b>>, answered)))

\* dropDue and linkDue (ruleDue).
dropDue(st) == st.errors >= DropErrors /\ st.old
linkDue(st) == st.linkErrors >= DropErrors /\ st.linkOld

\* countFailure: only whether DropErrors is reached matters, so it counts no further.
Count(n) == IF n < DropErrors THEN n + 1 ELSE n
countError(st, err, answered) == IF counts(err, answered) THEN [st EXCEPT !.errors = Count(@)] ELSE st

\* The stops a fold of job j can meet (an outage, a timeout of every call,
\* the caller's cancellation), and how many calls were answered before.
Endless == 99
Stops(j) ==
  IF jobs[j].canceled THEN {<<"canceled", 0>>}
  ELSE {<<None, Endless>>}
    \cup (IF "outage" \in world.faults THEN {"unavailable", "timeout"} \X (0..AnsweredCalls) ELSE {})
    \cup (IF "cancel" \in world.faults THEN {"canceled"} \X (0..AnsweredCalls) ELSE {})

(***************************************************************************)
(* A job: request, lock, load and read (consolidateTimelines)              *)
(***************************************************************************)
Agent(j) == world.agent[j]
Of(a) == {j \in DOMAIN world.agent : Agent(j) = a}

Write ==
  /\ written < Len(world.script)
  /\ written' = written + 1
  /\ UNCHANGED <<world, stored, jobs, lock, kept, books>>

Start(j) ==
  /\ j \in DOMAIN world.agent /\ jobs[j].pc = "idle"
  /\ \E req \in world.requests : jobs' = [jobs EXCEPT ![j] = [pc |-> "lock", req |-> req]]
  /\ UNCHANGED <<world, written, stored, lock, kept, books>>

\* lockTimelines, then loadTimelines; a Reset starts from the empty state,
\* under the token of the state it replaces.
Load(j) ==
  /\ jobs[j].pc = "lock" /\ lock[Agent(j)] = None
  /\ lock' = [lock EXCEPT ![Agent(j)] = j]
  /\ jobs' = [jobs EXCEPT ![j] =
       [pc |-> "read", req |-> @.req, token |-> stored,
        st |-> IF @.req = "reset" \/ stored = NoRow THEN EmptyState ELSE stored]]
  /\ UNCHANGED <<world, written, stored, kept, books>>

\* Nothing found and nothing left unread, or a bound that leaves no full
\* batch: the short rest folds too.
\* Mutant: a bound that leaves no full batch folds nothing.
FlushesRestOnly(req, st, read, unread) == req # "hold" /\ read = 0 /\ unread = 0

Flushes(req, st, read, unread) ==
  \/ req # "hold" /\ read = 0 /\ unread = 0
  \/ unread > 0 /\ nextBatch(st.pending, FALSE) = <<>>

NotTaken == [Nothing(0) EXCEPT !.err = "not taken"]
UnderWay == [Nothing(0) EXCEPT !.err = "under way"]

\* extractBatches: no batch taken yet, the head in drop mode when due.
StartRun(st, batches) ==
  [batches |-> batches, out |-> [i \in 1..Len(batches) |-> NotTaken], next |-> 1,
   failed |-> Len(batches) + 1, halted |-> FALSE, dropping |-> dropDue(st), linked |-> 0, metered |-> 0]

Begin(j, st, flush, dirty, batches) ==
  [pc |-> IF ~world.layered THEN "fold" ELSE IF batches = <<>> THEN "close" ELSE "link",
   req |-> jobs[j].req, token |-> jobs[j].token, st |-> st, flush |-> flush, n |-> 0, err |-> None,
   dirty |-> dirty \/ batches # <<>>, canceled |-> FALSE, calls |-> 0, answered |-> FALSE, contact |-> FALSE,
   run |-> StartRun(st, batches)]

Read(j) ==
  /\ jobs[j].pc = "read"
  /\ \E fresh \in {Fresh(jobs[j].st)} : \E k \in {ReadCount(jobs[j].st, fresh)} :
     \E st \in {readNewRecords(jobs[j].st, fresh, k)} : \E flush \in {Flushes(jobs[j].req, st, k, Len(fresh) - k)} :
     \E batches \in {IF world.layered THEN layeredBatches(st.pending, flush, MaxBatches) ELSE <<>>} :
       jobs' = [jobs EXCEPT ![j] = Begin(j, st, flush, k > 0 \/ @.req = "reset", batches)]
  /\ UNCHANGED <<world, written, stored, lock, kept, books>>

\* The answered calls of the extractions that ended and no link has metered.
Ended(run) == {i \in 1..Len(run.out) : run.out[i] \notin {NotTaken, UnderWay}}
Unmetered(run) == MapThenSumSet(LAMBDA i : run.out[i].calls, {i \in Ended(run) : i > run.metered})

\* The calls a job has answered and not yet saved.
Outstanding(job) ==
  IF job.pc \in {"idle", "lock", "read"} THEN 0
  ELSE job.calls + Unmetered(job.run)

\* A job returns: its lock is free; what it did not save is gone.
End(j, lost) ==
  /\ jobs' = [jobs EXCEPT ![j] = NoJob]
  /\ lock' = [lock EXCEPT ![Agent(j)] = IF @ = j THEN None ELSE @]
  /\ books' = books + lost

(***************************************************************************)
(* Timelines mode: one batch after the other                               *)
(***************************************************************************)
Batch(j) == nextBatch(jobs[j].st.pending, jobs[j].flush)

FoldAs(j, r) ==
  /\ books' = books - r.calls
  /\ jobs' = [jobs EXCEPT ![j] =
       [@ EXCEPT !.dirty = TRUE, !.calls = @ + r.calls, !.err = r.err,
                 !.canceled = @ \/ r.err = "canceled",
                 !.contact = @ \/ r.calls > 0 \/ r.refused,
                 !.pc = IF r.err = None THEN "save" ELSE "close",
                 !.st = IF r.err # None THEN countError(@, r.err, FALSE)
                        ELSE [@ EXCEPT !.pending = Rest(@, Batch(j)), !.memory = @ \o r.folded,
                                       !.failed = @ \cup r.failed, !.errors = 0, !.old = FALSE]]]

FoldBatch(j) ==
  /\ jobs[j].pc = "fold" /\ jobs[j].n < MaxBatches /\ Batch(j) # <<>>
  /\ \E s \in Stops(j) :
     \E r \in {IF jobs[j].n = 0 /\ dropDue(jobs[j].st) THEN foldDropping(Batch(j), s[2], s[1], FALSE)
               ELSE foldTimelines(Batch(j), TRUE, s[2], s[1])} : FoldAs(j, r)
  /\ UNCHANGED <<world, written, stored, lock, kept>>

saveTimelines(j) == stored = jobs[j].token /\ stored' = jobs[j].st

Save(j) ==
  /\ jobs[j].pc = "save"
  /\ \/ /\ ~jobs[j].canceled /\ saveTimelines(j)
        /\ jobs' = [jobs EXCEPT ![j] = [@ EXCEPT !.pc = "fold", !.token = jobs[j].st, !.dirty = FALSE,
                                                 !.calls = 0, !.n = @ + 1]]
        /\ books' = books + jobs[j].calls
        /\ UNCHANGED lock
     \/ /\ jobs[j].canceled \/ stored # jobs[j].token
        /\ End(j, Outstanding(jobs[j])) /\ UNCHANGED stored
  /\ UNCHANGED <<world, written, kept>>

\* The save after the loop: after a fold error no cancellation stops it.
Close(j) ==
  /\ \/ jobs[j].pc = "close"
     \/ jobs[j].pc = "fold" /\ (jobs[j].n = MaxBatches \/ Batch(j) = <<>>)
  /\ \/ /\ jobs[j].dirty /\ (jobs[j].err # None \/ ~jobs[j].canceled) /\ saveTimelines(j)
        /\ End(j, jobs[j].calls)
     \/ /\ ~jobs[j].dirty
        /\ End(j, 0) /\ UNCHANGED stored
     \/ /\ jobs[j].dirty
        /\ (jobs[j].err = None /\ jobs[j].canceled) \/ stored # jobs[j].token
        /\ End(j, Outstanding(jobs[j])) /\ UNCHANGED stored
  /\ UNCHANGED <<world, written, kept>>

(***************************************************************************)
(* Layered mode: a pool extracts the batches, the job links them in order  *)
(***************************************************************************)
Running(run) == {i \in 1..Len(run.out) : run.out[i] = UnderWay}

\* Whether the workers have all returned.
Quiet(run) == Running(run) = {} /\ (run.halted \/ run.next >= run.failed)

\* extractionKey: what an extraction depends on.
extractionKey(run, i) == <<i = 1 /\ run.dropping, run.batches[i]>>

\* extractionCache.take, and put within its bound.
KeptAt(a, key) == {k \in 1..Len(kept[a]) : kept[a][k].key = key}
Without(a, key) == SelectSeq(kept[a], LAMBDA e : e.key # key)
put(cache, e) == SubSeq(<<e>> \o SelectSeq(cache, LAMBDA x : x.key # e.key), 1,
                        IF KeptBound < 1 + Len(SelectSeq(cache, LAMBDA x : x.key # e.key)) THEN KeptBound
                        ELSE 1 + Len(SelectSeq(cache, LAMBDA x : x.key # e.key)))

\* A worker takes the next batch; an extraction the agent keeps ends at once.
Take(j) ==
  /\ jobs[j].pc \in {"link", "linked", "stop", "abort"}
  /\ LET run == jobs[j].run
         found == IF world.defer THEN KeptAt(Agent(j), extractionKey(run, run.next)) ELSE {}
     IN /\ ~run.halted /\ run.next < run.failed /\ Cardinality(Running(run)) < Parallel
        /\ jobs' = [jobs EXCEPT ![j].run.next = @ + 1,
                                ![j].run.out[run.next] =
                                   IF found = {} THEN UnderWay ELSE kept[Agent(j)][CHOOSE k \in found : TRUE].x]
        /\ kept' = [kept EXCEPT ![Agent(j)] = IF found = {} THEN @ ELSE Without(Agent(j), extractionKey(run, run.next))]
  /\ UNCHANGED <<world, written, stored, lock, books>>

\* An extraction ends.  A failed one fails the run there and cancels the
\* later ones; a canceled one may end before it notices.
Cut(j, i) == jobs[j].canceled \/ i > jobs[j].run.failed \/ jobs[j].pc = "abort"
ExtractStops(j, i) ==
  {<<None, Endless>>} \cup (IF Cut(j, i) THEN {"canceled"} \X (0..AnsweredCalls) ELSE Stops(j))

ExtractAs(j, i, r) ==
  /\ books' = books - r.calls
  /\ jobs' = [jobs EXCEPT ![j].run.out[i] = [r EXCEPT !.left = 0],
                          ![j].run.failed = IF r.err # None /\ i < @ THEN i ELSE @,
                          ![j].answered = @ \/ r.calls > 0,
                          ![j].contact = @ \/ r.calls > 0 \/ r.refused,
                          ![j].canceled = @ \/ (r.err = "canceled" /\ ~Cut(j, i))]

Extract(j) ==
  /\ jobs[j].pc \in {"link", "linked", "stop", "abort"}
  /\ \E i \in Running(jobs[j].run) : \E s \in ExtractStops(j, i) :
     \E r \in {IF i = 1 /\ jobs[j].run.dropping
                 THEN foldDropping(jobs[j].run.batches[i], s[2], s[1], jobs[j].answered)
               ELSE foldTimelines(jobs[j].run.batches[i], TRUE, s[2], s[1])} : ExtractAs(j, i, r)
  /\ UNCHANGED <<world, written, stored, lock, kept>>

\* What JEV makes of a batch: nothing is asked while the memory is empty.
Judgements(j) ==
  IF jobs[j].st.memory = <<>> THEN {"unasked"}
  ELSE IF jobs[j].canceled THEN {"canceled"}
  ELSE {"ok"} \cup (IF "link" \in world.faults THEN {"refused"} ELSE {})
              \cup (IF "outage" \in world.faults THEN {"unavailable"} ELSE {})
              \cup (IF "cancel" \in world.faults THEN {"canceled"} ELSE {})

\* keepsPending, outageError: the batch waits for a later job rather than
\* link without JEV.
keepsPending(st, err) == world.defer /\ (err = "unavailable" \/ ~linkDue(st))
LinkStops(st, err) == err = "canceled" \/ (err \in {"refused", "unavailable"} /\ keepsPending(st, err))

\* Stopping for good: a job that defers links lets the extractions under
\* way end and keeps them, unless an extraction stopped it.
Keeps(err, extractErr) == world.defer /\ err # None /\ ~extractErr

\* applyLinked: the head batch leaves the pending records, its items join
\* the memory behind those of the batches before it.
applyLinked(st, batch, x) ==
  [st EXCEPT !.pending = Rest(@, batch), !.memory = @ \o x.folded, !.failed = @ \cup x.failed,
             !.errors = 0, !.old = FALSE, !.linkErrors = 0, !.linkOld = FALSE]

\* linkStopped: the request's own failure counts toward the linking rule.
linkStopped(st, err) == IF countedError(err) THEN [st EXCEPT !.linkErrors = Count(@)] ELSE st

Head1(j) == jobs[j].run.linked + 1

LinkAs(j, x, jev) ==
  IF x.err # None
    THEN [jobs[j] EXCEPT !.calls = @ + x.calls, !.run.metered = @ + 1, !.err = x.err, !.pc = "stop",
                         !.run.halted = Keeps(x.err, TRUE)]
  ELSE IF LinkStops(jobs[j].st, jev)
    THEN [jobs[j] EXCEPT !.calls = @ + x.calls, !.run.metered = @ + 1, !.err = jev, !.pc = "stop",
                         !.run.halted = Keeps(jev, FALSE), !.canceled = @ \/ jev = "canceled",
                         !.contact = @ \/ jev = "refused",
                         !.st = linkStopped(@, jev)]
  ELSE [jobs[j] EXCEPT !.calls = @ + x.calls, !.run.metered = @ + 1, !.run.linked = @ + 1, !.pc = "linked",
                       !.answered = @ \/ jev = "ok", !.contact = @ \/ jev \in {"ok", "refused"},
                       !.st = applyLinked(@, jobs[j].run.batches[Head1(j)], x)]

\* The head batch, once extracted, is metered and linked (linker.link).
Link(j) ==
  /\ jobs[j].pc = "link" /\ Head1(j) \in Ended(jobs[j].run)
  /\ \E jev \in Judgements(j) :
       jobs' = [jobs EXCEPT ![j] = LinkAs(j, jobs[j].run.out[Head1(j)], jev)]
  /\ UNCHANGED <<world, written, stored, lock, kept, books>>

\* Saved after each batch.  A canceled save leaves the batch linked for the
\* last save; one that lost the race ends the job.
SaveLinked(j) ==
  /\ jobs[j].pc = "linked"
  /\ \/ /\ ~jobs[j].canceled /\ saveTimelines(j)
        /\ jobs' = [jobs EXCEPT ![j] =
             [@ EXCEPT !.token = jobs[j].st, !.dirty = FALSE, !.calls = 0,
                       !.pc = IF jobs[j].run.linked = Len(jobs[j].run.batches) THEN "stop" ELSE "link"]]
        /\ books' = books + jobs[j].calls
     \/ /\ jobs[j].canceled
        /\ jobs' = [jobs EXCEPT ![j].pc = "stop", ![j].err = "canceled", ![j].run.halted = Keeps("canceled", FALSE)]
        /\ UNCHANGED <<stored, books>>
     \/ /\ ~jobs[j].canceled /\ stored # jobs[j].token
        /\ jobs' = [jobs EXCEPT ![j].pc = "abort"]
        /\ UNCHANGED <<stored, books>>
  /\ UNCHANGED <<world, written, lock, kept>>

unmetered(x) == [x EXCEPT !.calls = 0]

\* keepExtractions: the last batch first, so that the head is the last to go.
RECURSIVE keepExtractions(_, _, _)
keepExtractions(cache, run, i) ==
  IF i <= run.linked THEN cache
  ELSE keepExtractions(IF i \in Ended(run) /\ run.out[i].err = None
                         THEN put(cache, [key |-> extractionKey(run, i), x |-> unmetered(run.out[i])])
                       ELSE cache, run, i - 1)

ExtractFailed(run) == run.metered > 0 /\ run.out[run.metered].err # None

\* Once the workers have stopped: what they spent is counted, an extraction's
\* error counts against the head batch, and the extractions left are kept.
Stop(j) ==
  /\ jobs[j].pc = "stop" /\ Quiet(jobs[j].run)
  /\ LET job == jobs[j] IN
     /\ jobs' = [jobs EXCEPT ![j] =
          [@ EXCEPT !.pc = "close", !.calls = @ + Unmetered(job.run), !.run.metered = Len(job.run.batches),
                    !.dirty = @ \/ job.err # None,
                    !.st = IF ExtractFailed(job.run) THEN countError(@, job.err, job.answered) ELSE @]]
     /\ kept' = [kept EXCEPT ![Agent(j)] =
          IF Keeps(job.err, ExtractFailed(job.run)) THEN keepExtractions(@, job.run, Len(job.run.batches)) ELSE @]
  /\ UNCHANGED <<world, written, stored, lock, books>>

Abort(j) ==
  /\ jobs[j].pc = "abort" /\ Quiet(jobs[j].run)
  /\ End(j, Outstanding(jobs[j]))
  /\ UNCHANGED <<world, written, stored, kept>>

(***************************************************************************)
(* The caller, the clock and the process                                   *)
(***************************************************************************)
Cancel(j) ==
  /\ "cancel" \in world.faults
  /\ \/ /\ jobs[j].pc \in {"lock", "read"}
        /\ End(j, 0)
     \/ /\ jobs[j].pc \in {"fold", "save", "link", "linked"} /\ ~jobs[j].canceled
        /\ jobs' = [jobs EXCEPT ![j].canceled = TRUE]
        /\ UNCHANGED <<lock, books>>
  /\ UNCHANGED <<world, written, stored, kept>>

\* dropAfter passes since the first counted errors.
Aged(st) == [st EXCEPT !.old = st.errors > 0, !.linkOld = st.linkErrors > 0]

TimePasses ==
  /\ stored' = Aged(stored)
  /\ jobs' = [j \in Jobs |-> IF jobs[j].pc \in {"idle", "lock"} THEN jobs[j]
                             ELSE [jobs[j] EXCEPT !.st = Aged(@), !.token = Aged(@)]]
  /\ <<stored, jobs>>' # <<stored, jobs>>
  /\ UNCHANGED <<world, written, lock, kept, books>>

\* A process dies with its jobs and its kept extractions.
Crash(a) ==
  /\ "crash" \in world.faults
  /\ \E j \in Of(a) : jobs[j].pc # "idle"
  /\ jobs' = [j \in Jobs |-> IF j \in Of(a) THEN NoJob ELSE jobs[j]]
  /\ lock' = [lock EXCEPT ![a] = None]
  /\ kept' = [kept EXCEPT ![a] = <<>>]
  /\ books' = books + MapThenSumSet(LAMBDA j : Outstanding(jobs[j]), Of(a))
  /\ UNCHANGED <<world, written, stored>>

JobStep(j) == Start(j) \/ Load(j) \/ Read(j) \/ FoldBatch(j) \/ Save(j) \/ Close(j)
              \/ Take(j) \/ Extract(j) \/ Link(j) \/ SaveLinked(j) \/ Stop(j) \/ Abort(j)

FoldAgents == {"a1", "a2"}

FoldInit ==
  /\ world \in Worlds
  /\ written = 0 /\ stored = NoRow /\ books = 0
  /\ jobs = [j \in Jobs |-> NoJob]
  /\ lock = [a \in FoldAgents |-> None]
  /\ kept = [a \in FoldAgents |-> <<>>]

FoldNext ==
  \/ Write \/ TimePasses
  \/ \E j \in Jobs : JobStep(j) \/ Cancel(j)
  \/ \E a \in FoldAgents : Crash(a)

\* Jobs are started again and again (the scheduler, a cron, a caller), each
\* goes on, and time passes.
FoldFairness == /\ WF_vars(Write) /\ WF_vars(TimePasses)
                /\ \A j \in Jobs : WF_vars(JobStep(j))
=============================================================================
