------------------------------ MODULE Runtime ------------------------------
(***************************************************************************)
(* The daemon process and the commands that make one reachable             *)
(* (internal/daemon/daemon.go, lifecycle.go, unix.go, exchange_session.go, *)
(* ensure.go; cmd/agency/serve.go), on a provisioned node.                 *)
(*                                                                         *)
(* A daemon is one process: the goroutine of Serve, its watcher, the       *)
(* closer that beginClose starts and the handlers.  An Ensure probes the   *)
(* socket, takes the ensure lock, probes again, opens and closes the node  *)
(* as a preflight, starts a daemon and polls it.                           *)
(***************************************************************************)
EXTENDS Integers, FiniteSets

CONSTANTS
    Daemons,                \* daemon processes that are ever started
    Callers,                \* commands that call Ensure
    MaxControlConnections,
    HasRoute                \* an active peer route: the exchange is started

ASSUME RuntimeAssumption ==
    /\ MaxControlConnections \in Nat /\ HasRoute \in BOOLEAN
    /\ Daemons \cap Callers = {} /\ "no one" \notin Daemons \cup Callers

VARIABLES
    daemon,       \* the daemons
    sock,         \* control.sock: NoOne or the daemon that bound it
    holder,       \* the authority's writer lock
    ens,          \* the Ensures
    ensLock       \* holder of .ensure.lock

rvars == <<daemon, sock, holder, ens, ensLock>>

NoOne == "no one"

\* main, watch and closer are the three goroutines' places; conns are accepted
\* connections whose handler has not begun, active those that tracker counts.
Unborn == [proc |-> "unborn", state |-> "none", main |-> "none", watch |-> "none",
           closer |-> "none", listening |-> FALSE, done |-> FALSE, exchange |-> "none",
           conns |-> 0, active |-> 0, stopping |-> FALSE]

AtEase == [at |-> "rest", child |-> NoOne]

RInit ==
    /\ daemon = [x \in Daemons |-> Unborn]
    /\ sock = NoOne /\ holder = NoOne /\ ensLock = NoOne
    /\ ens = [c \in Callers |-> AtEase]

Set(x, r) == daemon' = [daemon EXCEPT ![x] = r]

Alive(x) == daemon[x].proc = "alive"

others == <<sock, holder, ens, ensLock>>

-----------------------------------------------------------------------------
(* Runtime. *)

\* requestTracker.stop, with the state: the first caller starts the closer.
BegunClose(r) ==
    IF r.state \in {"closing", "closed"} THEN r
    ELSE [r EXCEPT !.state = "closing", !.stopping = TRUE, !.closer = "cancel"]

\* OpenProvisioned (agency serve): the writer lock decides; without it the
\* process ends.
openRuntime(x) ==
    /\ Alive(x) /\ daemon[x].state = "none"
    /\ IF holder = NoOne
       THEN holder' = x /\ Set(x, [daemon[x] EXCEPT !.state = "open"])
       ELSE UNCHANGED holder /\ Set(x, [Unborn EXCEPT !.proc = "gone"])
    /\ UNCHANGED <<sock, ens, ensLock>>

\* removeStaleOwnerSocket: one that is answered is left alone.
StaleSocket == sock # NoOne => ~daemon[sock].listening

\* Serve, up to server.Serve.  A socket in use, or an exchange that does not
\* start, ends in Close.
Serve(x) ==
    /\ Alive(x) /\ daemon[x].state = "open" /\ daemon[x].main = "none"
    /\ \/ /\ StaleSocket
          /\ sock' = x
          /\ Set(x, [daemon[x] EXCEPT !.state = "serving", !.main = "serving",
               !.watch = "watching", !.listening = TRUE,
               !.exchange = IF HasRoute THEN "running" ELSE "none"])
       \/ /\ ~StaleSocket \/ HasRoute
          /\ sock' = IF StaleSocket THEN NoOne ELSE sock
          /\ Set(x, [BegunClose(daemon[x]) EXCEPT !.main = "closing"])
    /\ UNCHANGED <<holder, ens, ensLock>>

\* ownerUnixListener.Accept: past the budget a connection is closed at once.
Accept(x) ==
    /\ Alive(x) /\ daemon[x].listening /\ daemon[x].conns + daemon[x].active < MaxControlConnections
    /\ Set(x, [daemon[x] EXCEPT !.conns = @ + 1])
    /\ UNCHANGED others

\* requestTracker.begin: refused once stopping.
begin(x) ==
    /\ Alive(x) /\ daemon[x].conns > 0
    /\ Set(x, [daemon[x] EXCEPT !.conns = @ - 1,
                                !.active = IF daemon[x].stopping THEN @ ELSE @ + 1])
    /\ UNCHANGED others

end(x) ==
    /\ Alive(x) /\ daemon[x].active > 0
    /\ Set(x, [daemon[x] EXCEPT !.active = @ - 1])
    /\ UNCHANGED others

\* exchangeSession.supervise: the worker or the listener ends, and the other
\* is joined; canceled or not.
supervise(x) ==
    /\ Alive(x) /\ daemon[x].exchange = "running"
    /\ Set(x, [daemon[x] EXCEPT !.exchange = "done"])
    /\ UNCHANGED others

\* The watcher: a signal, the exchange's end, or the server's.
Watches(x) ==
    /\ Alive(x) /\ daemon[x].watch = "watching"
    /\ \E signal \in BOOLEAN :
         /\ signal \/ daemon[x].exchange = "done" \/ daemon[x].done
         /\ Set(x, [(IF signal \/ daemon[x].exchange = "done" THEN BegunClose(daemon[x]) ELSE daemon[x])
                    EXCEPT !.watch = "over"])
    /\ UNCHANGED others

\* ownerUnixListener.Close removes the socket it bound and no other.
Unbound(x) == IF sock = x THEN NoOne ELSE sock

\* Mutant: serveDone is closed with Serve's return.
ServeReturnsLate(x) ==
    /\ Alive(x) /\ daemon[x].main = "serving"
    /\ sock' = Unbound(x)
    /\ Set(x, [daemon[x] EXCEPT !.main = "joining", !.listening = FALSE])
    /\ UNCHANGED <<holder, ens, ensLock>>

\* server.Serve returns when the listener was closed, or it failed.
ServeReturns(x) ==
    /\ Alive(x) /\ daemon[x].main = "serving"
    /\ sock' = Unbound(x)
    /\ Set(x, [daemon[x] EXCEPT !.main = "joining", !.listening = FALSE, !.done = TRUE])
    /\ UNCHANGED <<holder, ens, ensLock>>

\* <-watchDone, then beginClose and waitClosed.
Joins(x) ==
    /\ Alive(x) /\ daemon[x].main = "joining" /\ daemon[x].watch = "over"
    /\ Set(x, [BegunClose(daemon[x]) EXCEPT !.main = "closing"])
    /\ UNCHANGED others

\* The process ends with Serve's return, the closer having finished.
Returns(x) ==
    /\ Alive(x) /\ daemon[x].main = "closing" /\ daemon[x].state = "closed"
    /\ Set(x, [Unborn EXCEPT !.proc = "gone"])
    /\ UNCHANGED others

\* closeOwned: cancel, and the exchange within its budget, whether it ended
\* in it or not.
ClosesExchange(x) ==
    /\ Alive(x) /\ daemon[x].closer = "cancel"
    /\ Set(x, [daemon[x] EXCEPT !.closer = IF daemon[x].watch = "none" THEN "drain" ELSE "shutdown"])
    /\ UNCHANGED others

\* server.Shutdown within its budget, then server.Close: the listener goes,
\* handlers go on.
ShutsDown(x) ==
    /\ Alive(x) /\ daemon[x].closer = "shutdown"
    /\ sock' = Unbound(x)
    /\ Set(x, [daemon[x] EXCEPT !.closer = "join", !.listening = FALSE])
    /\ UNCHANGED <<holder, ens, ensLock>>

WaitsServe(x) ==
    /\ Alive(x) /\ daemon[x].closer = "join" /\ daemon[x].done
    /\ Set(x, [daemon[x] EXCEPT !.closer = "drain"])
    /\ UNCHANGED others

\* Mutant: the store is closed without waiting for the requests.
ClosesStoreAtOnce(x) ==
    /\ Alive(x) /\ daemon[x].closer = "drain"
    /\ holder' = NoOne
    /\ Set(x, [daemon[x] EXCEPT !.closer = "over", !.state = "closed"])
    /\ UNCHANGED <<sock, ens, ensLock>>

\* <-waitRequests, then store.Close and the closed state.
ClosesStore(x) ==
    /\ Alive(x) /\ daemon[x].closer = "drain" /\ daemon[x].active = 0
    /\ holder' = NoOne
    /\ Set(x, [daemon[x] EXCEPT !.closer = "over", !.state = "closed"])
    /\ UNCHANGED <<sock, ens, ensLock>>

\* SIGKILL: the locks are the kernel's, the socket stays.
KilledDaemon(x) ==
    /\ Alive(x)
    /\ Set(x, [Unborn EXCEPT !.proc = "gone"])
    /\ holder' = IF holder = x THEN NoOne ELSE holder
    /\ UNCHANGED <<sock, ens, ensLock>>

\* agency serve, started by hand.
Started(x) ==
    /\ daemon[x].proc = "unborn"
    /\ Set(x, [daemon[x] EXCEPT !.proc = "alive"])
    /\ UNCHANGED others

-----------------------------------------------------------------------------
(* Ensure. *)

\* probeDaemonStatus: only a listening daemon that is not stopping and has a
\* connection to spare answers "ready".
probeDaemonStatus ==
    /\ sock # NoOne /\ daemon[sock].listening /\ ~daemon[sock].stopping
    /\ daemon[sock].conns + daemon[sock].active < MaxControlConnections

EnsureAt(c, at) == ens' = [ens EXCEPT ![c].at = at]

EnsureEnds(c) ==
    /\ ens' = [ens EXCEPT ![c] = AtEase]
    /\ ensLock' = IF ensLock = c THEN NoOne ELSE ensLock

\* Not ready at first: the lock, and a second probe under it.
Ensure(c) ==
    /\ ens[c] = AtEase /\ ~probeDaemonStatus /\ ensLock = NoOne
    /\ ensLock' = c /\ EnsureAt(c, "locked")
    /\ UNCHANGED <<daemon, sock, holder>>

Reprobes(c) ==
    /\ ens[c].at = "locked"
    /\ IF probeDaemonStatus THEN EnsureEnds(c)
       ELSE EnsureAt(c, "preflight") /\ UNCHANGED ensLock
    /\ UNCHANGED <<daemon, sock, holder>>

\* The preflight holds the writer for a moment.
Preflights(c) ==
    /\ ens[c].at = "preflight"
    /\ IF holder = NoOne THEN holder' = c /\ EnsureAt(c, "opened")
       ELSE UNCHANGED holder /\ EnsureAt(c, "polling")
    /\ UNCHANGED <<daemon, sock, ensLock>>

StartsChild(c, x) ==
    /\ ens[c].at = "opened" /\ daemon[x].proc = "unborn"
    /\ holder' = NoOne
    /\ Set(x, [daemon[x] EXCEPT !.proc = "alive"])
    /\ ens' = [ens EXCEPT ![c] = [at |-> "polling", child |-> x]]
    /\ UNCHANGED <<sock, ensLock>>

\* waitForExistingDaemon and waitForStartedDaemon: ready, whoever serves.
Polls(c) ==
    /\ ens[c].at = "polling" /\ probeDaemonStatus
    /\ EnsureEnds(c)
    /\ UNCHANGED <<daemon, sock, holder>>

\* Not ready in the budget, or the child is gone: a child of its own that is
\* still there is killed (KillAndWait) before the lock is released.
GivesUp(c) ==
    /\ ens[c].at = "polling" /\ ~probeDaemonStatus
    /\ EnsureEnds(c)
    /\ LET x == ens[c].child IN
       IF x # NoOne /\ Alive(x)
       THEN /\ Set(x, [Unborn EXCEPT !.proc = "gone"])
            /\ holder' = IF holder = x THEN NoOne ELSE holder
       ELSE UNCHANGED <<daemon, holder>>
    /\ UNCHANGED sock

\* The command is killed: its child goes on.
KilledCaller(c) ==
    /\ ens[c] # AtEase
    /\ EnsureEnds(c)
    /\ holder' = IF holder = c THEN NoOne ELSE holder
    /\ UNCHANGED <<daemon, sock>>

-----------------------------------------------------------------------------
Closer(x) == ClosesExchange(x) \/ ShutsDown(x) \/ WaitsServe(x) \/ ClosesStore(x)

RNext ==
    \/ \E x \in Daemons :
         \/ Started(x) \/ openRuntime(x) \/ Serve(x) \/ Accept(x) \/ begin(x) \/ end(x)
         \/ supervise(x) \/ Watches(x) \/ ServeReturns(x) \/ Joins(x) \/ Returns(x)
         \/ ClosesExchange(x) \/ ShutsDown(x) \/ WaitsServe(x) \/ ClosesStore(x)
         \/ KilledDaemon(x)
    \/ \E c \in Callers :
         \/ Ensure(c) \/ Reprobes(c) \/ Preflights(c) \/ Polls(c) \/ GivesUp(c)
         \/ KilledCaller(c)
         \/ \E x \in Daemons : StartsChild(c, x)

-----------------------------------------------------------------------------
(* Properties. *)

\* Nothing is served without the writer: a daemon whose handlers, listener or
\* store are in use holds the authority's writer lock, so closeOwned released
\* it only after the last counted request; and the socket's name is that of
\* the daemon that listens, whoever started, stopped, killed or replaced
\* which (removeStaleOwnerSocket, ownerUnixListener.Close).
ServedByWriter ==
    \A x \in Daemons :
        /\ daemon[x].active > 0 \/ daemon[x].listening \/ daemon[x].state \in {"open", "serving", "closing"}
              => holder = x
        /\ daemon[x].listening => sock = x

\* Shutdown ends: once a close began, by a signal, a failing exchange, a
\* failing server or Close, the store is closed and Serve returns.  Serve
\* waits for the watcher and the closer, the closer for Serve and for the
\* handlers, the watcher for any of them (Serve, beginClose, closeOwned).
ShutdownEnds ==
    \A x \in Daemons : daemon[x].state = "closing" ~> daemon[x].proc = "gone"

\* Serve, the watcher and the closer run, and a handler whose context was
\* canceled returns.
Lifecycle(x) ==
    \/ Closer(x) \/ Joins(x) \/ Returns(x)
    \/ ~daemon[x].listening /\ ServeReturns(x)
    \/ daemon[x].done /\ Watches(x)

RFair == \A x \in Daemons : WF_rvars(Lifecycle(x)) /\ WF_rvars(end(x))
=============================================================================
