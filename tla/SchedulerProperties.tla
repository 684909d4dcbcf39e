------------------------ MODULE SchedulerProperties ------------------------
(***************************************************************************)
(* What background consolidation promises.                                 *)
(***************************************************************************)
EXTENDS Scheduler

\* No work is slept over.  The lists and the states of the users agree: every
\* user is in the list its state names, once, a running user has exactly one
\* worker, and holds are those of the Searches.  A worker that sleeps without a
\* timer, on a channel nobody has closed, leaves no user behind that could run.
\* A waiting Add sleeps only while its user lags and has a job to come.  And a
\* full batch the scheduler knows of never rests: the user has a job queued,
\* running or to be retried, or someone is about to tell of it or folds it
\* (Notify, WaitBacklog, Hold, next, finish).
Listed(u) ==
    /\ entry[u].state = "queued" <=> Contains(queue, u)
    /\ entry[u].state = "backingOff" <=> Contains(retries, u)
    /\ Cardinality({w \in Workers : worker[w].user = u})
        = IF entry[u].state = "running" THEN 1 ELSE 0
    /\ entry[u].holds = Cardinality({s \in Searches : search[s].user = u})

Rests(u) ==
    /\ pending[u] >= Batch /\ untold[u] = 0
    /\ entry[u].state = "idle"
    /\ \A a \in Adds : add[a].user = u => add[a].pc \notin {"wrote", "notify"}
    /\ \A s \in Searches : search[s].user = u => search[s].pc # "flush"

NoWorkSleptOver ==
    /\ IsInjective(queue \o retries)
    /\ \A u \in Users : Listed(u) /\ ~Rests(u)
    /\ \A w \in Workers :
        worker[w].pc = "asleep" /\ w \in open /\ worker[w].timer = 0
            => FirstUnheld(queue) = 0 /\ retries = <<>>
    /\ \A a \in Adds :
        add[a].pc = "waiting" /\ a \in open
            => Lags(add[a].user) /\ entry[add[a].user].state \in {"queued", "running"}

\* While the scheduler is not stopped and nothing was dropped, full batches are
\* folded at last, past failed jobs, holds and backoff.
BatchesAreFolded ==
    \A u \in Users :
        pending[u] >= Batch ~> pending[u] < Batch \/ untold[u] > 0 \/ draining \/ life # "up"

\* An Add that waits for consolidation returns, without the help of its window.
AddsReturn ==
    \A a \in Adds : add[a].pc = "waiting" ~> add[a].pc # "waiting"

\* A stop comes to its end: after Drain, or the end of its context, Run returns.
RunEnds == draining \/ life = "ended" ~> life = "stopped"
=============================================================================
