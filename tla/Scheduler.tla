------------------------------ MODULE Scheduler ------------------------------
(***************************************************************************)
(* Background consolidation of the AML adapter: the fold scheduler of      *)
(* internal/aml/scheduler.go with the Adds, Searches and jobs of server.go *)
(* that use it.                                                            *)
(*                                                                         *)
(* Every critical section of the scheduler's lock is one step.  The change *)
(* channel is the set open of the goroutines that took it and have not     *)
(* seen it closed: a change empties the set.  A user's records are counted *)
(* in characters; a job folds full batches, a Search folds everything.     *)
(***************************************************************************)
EXTENDS Integers, FiniteSets, Sequences, SequencesExt

CONSTANTS
    Users,        \* keys of the user stores
    Workers,      \* consolidation workers
    Adds,         \* Adds served at once
    Searches,     \* Searches served at once
    MaxUsers,     \* maxConsolidationUsers
    Batch,        \* characters of a full batch
    LagBound,     \* backlog above which an Add waits
    MaxCalls,     \* maxConsolidateCalls
    Leftovers,    \* characters earlier processes may have left pending
    MaxAdds,      \* bound: number of Adds
    MaxSearches,  \* bound: number of Searches
    MaxClock,     \* bound: last instant, at which jobs no longer fail
    Stops         \* bound: the ways to stop that are explored

ASSUME SchedulerAssumption ==
    /\ {MaxUsers, LagBound, MaxAdds, MaxSearches, MaxClock} \subseteq Nat
    /\ {Batch, MaxCalls} \subseteq Nat \ {0}
    /\ Leftovers \subseteq Nat
    /\ Stops \subseteq {"drain", "cancel"}

VARIABLES
    entry,      \* s.users
    measured,   \* s.measured, the users measured since the start
    queue,      \* s.queue
    retries,    \* s.retries, the next retry first
    open,       \* goroutines whose change channel is not closed
    draining,   \* s.draining
    life,       \* whether Run runs, its context has ended, or it has returned
    clock,      \* s.now()
    worker, add, search,
    pending,    \* characters in the store that no fold has read
    untold,     \* characters written that the scheduler does not know of
    spent       \* Adds and Searches so far

lists == <<queue, retries>>
stopping == <<draining, life>>
data == <<pending, untold, spent>>
vars == <<entry, measured, lists, open, stopping, clock, worker, add, search, data>>

NoEntry ==
    [known |-> FALSE, state |-> "idle", holds |-> 0, waiters |-> 0, backlog |-> 0,
     added |-> 0, dirty |-> FALSE, measured |-> FALSE, retryAt |-> 0]

Running == {u \in Users : entry[u].state = "running"}

\* activeLocked
Active == Len(queue) + Cardinality(Running) + Len(retries)

\* forgetLocked
Forget(e) ==
    IF e.state = "idle" /\ e.holds = 0 /\ e.waiters = 0 /\ e.backlog <= 0 THEN NoEntry ELSE e

Dropped(u) == entry[u].state = "idle" /\ Active >= MaxUsers

\* Mutant: what is written while the user's job runs is not remembered.
NotifyClean(u, chars) ==
    IF Dropped(u) THEN UNCHANGED <<entry, queue, open>>
    ELSE /\ entry' = [entry EXCEPT ![u] =
                [@ EXCEPT !.known = TRUE, !.backlog = @ + chars,
                          !.state = IF @ = "idle" THEN "queued" ELSE @,
                          !.added = IF entry[u].state = "running" THEN @ + chars ELSE @]]
         /\ queue' = IF entry[u].state = "idle" THEN Append(queue, u) ELSE queue
         /\ open' = {}

Notify(u, chars) ==
    IF Dropped(u) THEN UNCHANGED <<entry, queue, open>>
    ELSE /\ entry' = [entry EXCEPT ![u] =
                [@ EXCEPT !.known = TRUE, !.backlog = @ + chars,
                          !.state = IF @ = "idle" THEN "queued" ELSE @,
                          !.added = IF entry[u].state = "running" THEN @ + chars ELSE @,
                          !.dirty = @ \/ entry[u].state = "running"]]
         /\ queue' = IF entry[u].state = "idle" THEN Append(queue, u) ELSE queue
         /\ open' = {}

(***************************************************************************)
(* Workers                                                                 *)
(***************************************************************************)

IdleWorker ==
    [pc |-> "top", user |-> "none", seen |-> 0, timer |-> 0, calls |-> 0, failed |-> FALSE,
     measure |-> -1]

\* Mutant: a sleeping worker does not see its context end.
WakesOnChange(w) ==
    \/ w \notin open
    \/ worker[w].timer # 0 /\ clock >= worker[w].timer

\* sleep ends: the channel is closed, the timer fires or the context has ended.
MayWake(w) ==
    \/ w \notin open
    \/ worker[w].timer # 0 /\ clock >= worker[w].timer
    \/ life # "up"

\* next, at the top of its loop: take the channel, then read the clock.
Capture(w) ==
    /\ worker[w].pc = "top" \/ (worker[w].pc = "asleep" /\ MayWake(w))
    /\ worker' = [worker EXCEPT ![w] =
        [IdleWorker EXCEPT !.pc = IF life = "up" THEN "look" ELSE "exited", !.seen = clock]]
    /\ open' = IF life = "up" THEN open \cup {w} ELSE open
    /\ UNCHANGED <<entry, measured, lists, stopping, clock, add, search, data>>

\* retryDueLocked: how many retries, the earliest first, have come.
Due(now) == Cardinality({i \in DOMAIN retries : entry[retries[i]].retryAt <= now})

\* A timer past the last instant fires at it.
Bounded(at) == IF at > MaxClock THEN MaxClock ELSE at

\* firstUnheldLocked on a queue, 0 for none.
FirstUnheld(q) == SelectInSeq(q, LAMBDA u : entry[u].holds = 0)

\* next, second half.  The clock was read at some instant since the channel was
\* taken.
Take(w) ==
    \E now \in worker[w].seen..clock :
        LET due == Due(now)
            q == queue \o SubSeq(retries, 1, due)
            later == SubSeq(retries, due + 1, Len(retries))
            i == FirstUnheld(q)
            woken == [u \in Users |->
                IF \E k \in 1..due : retries[k] = u
                    THEN [entry[u] EXCEPT !.state = "queued", !.retryAt = 0]
                    ELSE entry[u]]
        IN /\ worker[w].pc = "look"
           /\ IF draining
              THEN /\ worker' = [worker EXCEPT ![w] = [IdleWorker EXCEPT !.pc = "exited"]]
                   /\ UNCHANGED <<entry, lists>>
              ELSE /\ retries' = later
                   /\ queue' = IF i = 0 THEN q ELSE RemoveAt(q, i)
                   /\ entry' = IF i = 0 THEN woken ELSE
                        [woken EXCEPT ![q[i]] =
                            [@ EXCEPT !.state = "running", !.added = 0, !.dirty = FALSE]]
                   /\ worker' = [worker EXCEPT ![w] =
                        IF i # 0 THEN [IdleWorker EXCEPT !.pc = "fold", !.user = q[i]]
                        ELSE [IdleWorker EXCEPT !.pc = "asleep",
                                !.timer = IF later = <<>> THEN 0
                                          ELSE Bounded(clock + entry[later[1]].retryAt - now)]]
           /\ UNCHANGED <<measured, open, stopping, clock, add, search, data>>

Job(w, pc) == worker[w].pc = pc

\* consolidate: yield, or one Consolidate call that folds a full batch if there
\* is one.
Fold(w) ==
    LET u == worker[w].user
        yield == entry[u].holds > 0 \/ draining
        full == pending[u] >= Batch
        calls == worker[w].calls + 1
    IN /\ Job(w, "fold")
       /\ pending' = IF ~yield /\ full THEN [pending EXCEPT ![u] = @ - Batch] ELSE pending
       /\ worker' = [worker EXCEPT ![w] =
            IF yield \/ (full /\ calls = MaxCalls)
            THEN [@ EXCEPT !.calls = 0, !.pc = "notify"]
            ELSE IF full THEN [@ EXCEPT !.calls = calls]
            ELSE [@ EXCEPT !.calls = 0, !.pc = "measure"]]
       /\ UNCHANGED <<entry, measured, lists, open, stopping, clock, add, search, untold, spent>>

\* The store cannot be opened, a Consolidate call fails or the backlog cannot
\* be read.
JobFails(w) ==
    /\ Job(w, "fold") \/ Job(w, "measure")
    /\ clock < MaxClock
    /\ \E pc \in {"measure", "finish"} \ {worker[w].pc} :
        worker' = [worker EXCEPT ![w] = [@ EXCEPT !.pc = pc, !.calls = 0, !.failed = TRUE]]
    /\ UNCHANGED <<entry, measured, lists, open, stopping, clock, add, search, data>>

\* consolidateUser: full batches may be left.
JobNotify(w) ==
    /\ Job(w, "notify")
    /\ Notify(worker[w].user, 0)
    /\ worker' = [worker EXCEPT ![w].pc = "measure"]
    /\ UNCHANGED <<measured, retries, stopping, clock, add, search, data>>

JobMeasure(w) ==
    /\ Job(w, "measure")
    /\ worker' = [worker EXCEPT ![w] =
        [@ EXCEPT !.pc = "finish", !.measure = pending[worker[w].user]]]
    /\ UNCHANGED <<entry, measured, lists, open, stopping, clock, add, search, data>>

\* retryHeap: by retry time, then by when they failed.
Insert(s, u, at) ==
    InsertAt(s, Cardinality({i \in DOMAIN s : entry[s[i]].retryAt <= at}) + 1, u)

\* finish: the estimate after a job.
Estimate(e, measure) ==
    IF measure < 0 THEN [e EXCEPT !.added = 0]
    ELSE [e EXCEPT !.backlog = measure + e.added, !.measured = TRUE, !.added = 0]

JobFinish(w) ==
    LET u == worker[w].user
        e == Estimate(entry[u], worker[w].measure)
        cut == life # "up"
        again == cut \/ (~worker[w].failed /\ e.dirty)
        settled == [e EXCEPT !.dirty = FALSE]
    IN /\ Job(w, "finish")
       /\ measured' = IF worker[w].measure < 0 THEN measured ELSE measured \cup {u}
       /\ \/ /\ again
             /\ entry' = [entry EXCEPT ![u] = [settled EXCEPT !.state = "queued"]]
             /\ queue' = Append(queue, u)
             /\ UNCHANGED retries
          \/ /\ ~again /\ ~worker[w].failed
             /\ entry' = [entry EXCEPT ![u] = Forget([settled EXCEPT !.state = "idle"])]
             /\ UNCHANGED lists
          \/ /\ ~again /\ worker[w].failed
             /\ \E at \in clock..MaxClock :
                /\ at > clock \/ at = MaxClock
                /\ entry' = [entry EXCEPT ![u] =
                        [settled EXCEPT !.state = "backingOff", !.retryAt = at]]
                /\ retries' = Insert(retries, u, at)
             /\ UNCHANGED queue
       /\ open' = {}
       /\ worker' = [worker EXCEPT ![w] = IdleWorker]
       /\ UNCHANGED <<stopping, clock, add, search, data>>

Work(w) ==
    \/ Capture(w)
    \/ Take(w)
    \/ Fold(w)
    \/ JobNotify(w)
    \/ JobMeasure(w)
    \/ JobFinish(w)

(***************************************************************************)
(* Adds                                                                    *)
(***************************************************************************)

IdleAdd == [pc |-> "idle", user |-> "none", measure |-> -1, fresh |-> FALSE]

\* The user's write lock, held from the write until the scheduler is told.
Writing(u) == \E a \in Adds : add[a].user = u /\ add[a].pc \in {"wrote", "notify", "record"}

\* writeParts: store the parts of a request, or find that an earlier attempt
\* stored them.
AddWrite(a, u) ==
    /\ add[a] = IdleAdd
    /\ spent.adds < MaxAdds
    /\ ~Writing(u)
    /\ \E fresh \in BOOLEAN :
        /\ fresh \/ pending[u] > 0
        /\ add' = [add EXCEPT ![a] =
            [pc |-> "wrote", user |-> u, measure |-> -1, fresh |-> fresh]]
        /\ pending' = IF fresh THEN [pending EXCEPT ![u] = @ + 1] ELSE pending
        /\ untold' = IF fresh THEN [untold EXCEPT ![u] = @ + 1] ELSE untold
    /\ spent' = [spent EXCEPT !.adds = @ + 1]
    /\ UNCHANGED <<entry, measured, lists, open, stopping, clock, worker, search>>

\* The embedder fails after the write: the client is asked to retry.
AddAborts(a) ==
    /\ add[a].pc = "wrote"
    /\ add' = [add EXCEPT ![a] = IdleAdd]
    /\ UNCHANGED <<entry, measured, lists, open, stopping, clock, worker, search, data>>

\* measureUnknown, which may fail.
AddMeasure(a) ==
    /\ add[a].pc = "wrote"
    /\ \E m \in {-1} \cup (IF add[a].user \in measured THEN {} ELSE {pending[add[a].user]}) :
        add' = [add EXCEPT ![a] = [@ EXCEPT !.pc = "notify", !.measure = m]]
    /\ UNCHANGED <<entry, measured, lists, open, stopping, clock, worker, search, data>>

AddNotify(a) ==
    LET u == add[a].user
    IN /\ add[a].pc = "notify"
       /\ Notify(u, 1)
       /\ untold' = IF Dropped(u) \/ ~add[a].fresh THEN untold ELSE [untold EXCEPT ![u] = @ - 1]
       /\ add' = [add EXCEPT ![a] = [@ EXCEPT !.pc = "record", !.fresh = FALSE]]
       /\ UNCHANGED <<measured, retries, stopping, clock, worker, search, pending, spent>>

\* Measured takes a measure only of a user that no job has measured or is about
\* to measure.
TakesMeasure(e) == e.known /\ ~e.measured /\ e.state # "running"

AddRecord(a) ==
    LET u == add[a].user
        take == add[a].measure >= 0 /\ TakesMeasure(entry[u])
    IN /\ add[a].pc = "record"
       /\ entry' = IF take THEN [entry EXCEPT ![u] =
                        [@ EXCEPT !.backlog = add[a].measure, !.measured = TRUE]]
                   ELSE entry
       /\ measured' = IF take THEN measured \cup {u} ELSE measured
       /\ open' = IF take THEN {} ELSE open
       /\ add' = [add EXCEPT ![a] = [@ EXCEPT !.pc = "await", !.measure = -1]]
       /\ UNCHANGED <<lists, stopping, clock, worker, search, data>>

\* The condition under which WaitBacklog goes on waiting.
Lags(u) ==
    /\ entry[u].backlog > LagBound
    /\ entry[u].state # "backingOff"
    /\ life # "stopped" /\ ~draining

\* WaitBacklog returns; a waiter that was counted is no longer.
AddReturns(a, counted) ==
    /\ add' = [add EXCEPT ![a] = IdleAdd]
    /\ entry' = IF counted
                THEN [entry EXCEPT ![add[a].user] = Forget([@ EXCEPT !.waiters = @ - 1])]
                ELSE entry
    /\ UNCHANGED <<measured, lists, open, stopping, clock, worker, search, data>>

\* Mutant: waiting on an idle user queues no job.
WaitIdle(a, u) ==
    /\ Lags(u)
    /\ ~Dropped(u)
    /\ entry' = [entry EXCEPT ![u].waiters = IF add[a].pc = "await" THEN @ + 1 ELSE @]
    /\ open' = open \cup {a}
    /\ add' = [add EXCEPT ![a].pc = "waiting"]
    /\ UNCHANGED <<measured, lists, stopping, clock, worker, search, data>>

\* WaitBacklog waits, and has an idle user measured by a job.
Wait(a, u) ==
    /\ Lags(u)
    /\ ~Dropped(u)
    /\ entry' = [entry EXCEPT ![u] =
        [@ EXCEPT !.waiters = IF add[a].pc = "await" THEN @ + 1 ELSE @,
                  !.state = IF @ = "idle" THEN "queued" ELSE @]]
    /\ queue' = IF entry[u].state = "idle" THEN Append(queue, u) ELSE queue
    /\ open' = IF entry[u].state = "idle" THEN {a} ELSE open \cup {a}
    /\ add' = [add EXCEPT ![a].pc = "waiting"]
    /\ UNCHANGED <<measured, retries, stopping, clock, worker, search, data>>

AddWaits(a) ==
    LET u == add[a].user
    IN /\ add[a].pc = "await" \/ (add[a].pc = "waiting" /\ a \notin open)
       /\ \/ Wait(a, u)
          \/ /\ ~Lags(u) \/ Dropped(u)
             /\ AddReturns(a, add[a].pc = "waiting")

\* The Add's window ends, or its client leaves.
AddExpires(a) ==
    /\ add[a].pc = "waiting"
    /\ AddReturns(a, TRUE)

Adding(a) ==
    \/ AddMeasure(a)
    \/ AddNotify(a)
    \/ AddRecord(a)
    \/ AddWaits(a)

(***************************************************************************)
(* Searches                                                                *)
(***************************************************************************)

IdleSearch == [pc |-> "idle", user |-> "none"]

\* flushHeld: Hold
SearchHold(s, u) ==
    /\ search[s] = IdleSearch
    /\ spent.searches < MaxSearches
    /\ search' = [search EXCEPT ![s] = [pc |-> "flush", user |-> u]]
    /\ entry' = [entry EXCEPT ![u] = [@ EXCEPT !.known = TRUE, !.holds = @ + 1]]
    /\ spent' = [spent EXCEPT !.searches = @ + 1]
    /\ UNCHANGED <<measured, lists, open, stopping, clock, worker, add, pending, untold>>

\* flush: one Consolidate call, a full batch or the rest.
SearchFlush(s) ==
    LET u == search[s].user
        full == pending[u] >= Batch
    IN /\ search[s].pc = "flush"
       /\ pending' = [pending EXCEPT ![u] = IF full THEN @ - Batch ELSE 0]
       /\ search' = [search EXCEPT ![s].pc = IF full THEN "flush" ELSE "release"]
       /\ UNCHANGED <<entry, measured, lists, open, stopping, clock, worker, add, untold, spent>>

\* The flush fails or its window ends, and a job is to take up the rest.
SearchFails(s) ==
    /\ search[s].pc = "flush"
    /\ Notify(search[s].user, 0)
    /\ untold' = IF Dropped(search[s].user)
                 THEN [untold EXCEPT ![search[s].user] = Max({@, pending[search[s].user]})]
                 ELSE untold
    /\ search' = [search EXCEPT ![s].pc = "release"]
    /\ UNCHANGED <<measured, retries, stopping, clock, worker, add, pending, spent>>

\* Mutant: a release does not wake the workers.
ReleaseSilently(s) ==
    /\ search[s].pc = "release"
    /\ entry' = [entry EXCEPT ![search[s].user] = Forget([@ EXCEPT !.holds = @ - 1])]
    /\ search' = [search EXCEPT ![s] = IdleSearch]
    /\ UNCHANGED <<measured, lists, open, stopping, clock, worker, add, data>>

SearchRelease(s) ==
    /\ search[s].pc = "release"
    /\ entry' = [entry EXCEPT ![search[s].user] = Forget([@ EXCEPT !.holds = @ - 1])]
    /\ open' = {}
    /\ search' = [search EXCEPT ![s] = IdleSearch]
    /\ UNCHANGED <<measured, lists, stopping, clock, worker, add, data>>

Searching(s) ==
    \/ SearchFlush(s)
    \/ SearchRelease(s)

(***************************************************************************)
(* Stop and clock                                                          *)
(***************************************************************************)

Drain ==
    /\ "drain" \in Stops
    /\ ~draining
    /\ draining' = TRUE
    /\ open' = {}
    /\ UNCHANGED <<entry, measured, lists, life, clock, worker, add, search, data>>

\* The context of Run ends.
Cancel ==
    /\ "cancel" \in Stops
    /\ life = "up"
    /\ life' = "ended"
    /\ UNCHANGED <<entry, measured, lists, open, draining, clock, worker, add, search, data>>

\* Run returns once every worker has.
RunReturns ==
    /\ life # "stopped"
    /\ \A w \in Workers : worker[w].pc = "exited"
    /\ life' = "stopped"
    /\ open' = {}
    /\ UNCHANGED <<entry, measured, lists, draining, clock, worker, add, search, data>>

Tick ==
    /\ clock < MaxClock
    /\ clock' = clock + 1
    /\ UNCHANGED <<entry, measured, lists, open, stopping, worker, add, search, data>>

\* queueUsers has queued the stores of the data root, as many as may have work,
\* and Run has started.
Init ==
    /\ pending \in [Users -> Leftovers]
    /\ LET found == {u \in Users : pending[u] > 0}
       IN \E queued \in SUBSET found :
          /\ queued = found \/ Cardinality(queued) = MaxUsers
          /\ Cardinality(queued) <= MaxUsers
          /\ queue \in SetToSeqs(queued)
          /\ entry = [u \in Users |->
                IF u \in queued THEN [NoEntry EXCEPT !.known = TRUE, !.state = "queued"]
                ELSE NoEntry]
          /\ untold = [u \in Users |-> IF u \in queued THEN 0 ELSE pending[u]]
    /\ measured = {}
    /\ retries = <<>>
    /\ open = {}
    /\ draining = FALSE /\ life = "up"
    /\ clock = 0
    /\ worker = [w \in Workers |-> IdleWorker]
    /\ add = [a \in Adds |-> IdleAdd]
    /\ search = [s \in Searches |-> IdleSearch]
    /\ spent = [adds |-> 0, searches |-> 0]

Next ==
    \/ \E w \in Workers : Work(w) \/ JobFails(w)
    \/ \E a \in Adds :
        \/ Adding(a) \/ AddAborts(a) \/ AddExpires(a)
        \/ \E u \in Users : AddWrite(a, u)
    \/ \E s \in Searches :
        \/ Searching(s) \/ SearchFails(s)
        \/ \E u \in Users : SearchHold(s, u)
    \/ Drain
    \/ Cancel
    \/ RunReturns
    \/ Tick

Spec == Init /\ [][Next]_vars

\* Workers, Adds and Searches are goroutines that go on, and time passes.
\* Clients, failures and stops need not happen, and no Add relies on the end of
\* its window.
Fairness ==
    /\ \A w \in Workers : WF_vars(Work(w))
    /\ \A a \in Adds : WF_vars(Adding(a))
    /\ \A s \in Searches : WF_vars(Searching(s))
    /\ WF_vars(RunReturns)
    /\ WF_vars(Tick)

FairSpec == Spec /\ Fairness
=============================================================================
