------------------------------ MODULE Registry ------------------------------
(***************************************************************************)
(* The open user stores of the AML adapter: internal/aml/registry.go.      *)
(*                                                                         *)
(* Every critical section of registry.mu is one step.  Opening and closing *)
(* a store happen outside the lock, and so does the look for a store on    *)
(* disk.  An entry is an object of Ids; an id is used again once its       *)
(* resources are closed.                                                   *)
(***************************************************************************)
EXTENDS Naturals, FiniteSets, Sequences, Functions

CONSTANTS
    Keys,      \* user keys
    Requests,  \* goroutines that acquire: Adds, Searches and jobs
    Ids,       \* bound: entries that exist at once
    Limit      \* registry.limit

ASSUME RegistryAssumption == Limit \in Nat /\ IsFiniteSet(Ids)

VARIABLES
    entry,    \* the userEntry of each id
    live,     \* entries whose store, agent and runtime are open
    lru,      \* registry.lru, the most recently used first; also registry.entries
    closing,  \* registry.closing
    disk,     \* keys whose records.db exists
    request,      \* where each request is
    closer    \* entries close has still to close

registryVars == <<entry, live, lru, closing, disk, request, closer>>

NoKey == "none"

IdleRequest == [pc |-> "idle", key |-> NoKey, create |-> FALSE, id |-> NoKey, victims |-> {}]

NewEntry(k) == [key |-> k, refs |-> 1, ready |-> FALSE, failed |-> FALSE,
                evicted |-> FALSE, closed |-> FALSE]

At(r, pc) == request[r].pc = pc

Goto(r, pc) == request' = [request EXCEPT ![r].pc = pc]

Return(r) == request' = [request EXCEPT ![r] = IdleRequest]

Cached(k) == {id \in Range(lru) : entry[id].key = k}

NoEntry == [NewEntry(NoKey) EXCEPT !.refs = 0]

(***************************************************************************)
(* Eviction                                                                *)
(***************************************************************************)

\* Mutant: entries in use are evicted as well.
EvictedBusy(es, l) ==
    {l[i] : i \in {j \in DOMAIN l : j > Limit}}

\* evictLocked: the idle entries that go, from the back, while there are more
\* than the limit.
Evicted(es, l) ==
    {l[i] : i \in {j \in DOMAIN l :
        /\ es[l[j]].refs = 0
        /\ Len(l) - Cardinality({k \in j + 1..Len(l) : es[l[k]].refs = 0}) > Limit}}

\* removeLocked
RemoveLocked(es, gone, shut) ==
    [id \in Ids |-> IF id \in gone
        THEN [es[id] EXCEPT !.evicted = TRUE, !.closed = @ \/ id \in shut]
        ELSE es[id]]

\* list.Remove for each of them; the others keep their order.
WithoutGone(l, gone) ==
    LET kept[i \in 0..Len(l)] == IF i = 0 THEN <<>>
                                 ELSE IF l[i] \in gone THEN kept[i - 1]
                                 ELSE Append(kept[i - 1], l[i])
    IN kept[Len(l)]

(***************************************************************************)
(* acquire                                                                 *)
(***************************************************************************)

\* An Add creates the store, a Search or a job does not.
BeginAcquire(r, k) ==
    /\ request[r] = IdleRequest
    /\ \E create \in BOOLEAN :
        request' = [request EXCEPT ![r] =
            [IdleRequest EXCEPT !.pc = IF create THEN "acquire" ELSE "cached",
                                !.key = k, !.create = create]]
    /\ UNCHANGED <<entry, live, lru, closing, disk, closer>>

IsCached(r) ==
    /\ At(r, "cached")
    /\ Goto(r, IF Cached(request[r].key) # {} THEN "acquire" ELSE "stat")
    /\ UNCHANGED <<entry, live, lru, closing, disk, closer>>

Stat(r) ==
    /\ At(r, "stat")
    /\ IF request[r].key \in disk THEN Goto(r, "acquire") ELSE Return(r)
    /\ UNCHANGED <<entry, live, lru, closing, disk, closer>>

Refused(r) ==
    /\ At(r, "acquire") /\ closing
    /\ Return(r)
    /\ UNCHANGED <<entry, live, lru, closing, disk, closer>>

Join(r) ==
    /\ At(r, "acquire") /\ ~closing
    /\ \E id \in Cached(request[r].key) :
        /\ entry' = [entry EXCEPT ![id].refs = @ + 1]
        /\ lru' = <<id>> \o WithoutGone(lru, {id})
        /\ request' = [request EXCEPT ![r] = [@ EXCEPT !.pc = "wait", !.id = id]]
    /\ UNCHANGED <<live, closing, disk, closer>>

Create(r) ==
    /\ At(r, "acquire") /\ ~closing
    /\ Cached(request[r].key) = {}
    /\ \E id \in {i \in Ids : entry[i] = NoEntry} :
        LET es == [entry EXCEPT ![id] = NewEntry(request[r].key)]
            gone == Evicted(es, <<id>> \o lru)
        IN /\ entry' = RemoveLocked(es, gone, gone)
           /\ lru' = WithoutGone(<<id>> \o lru, gone)
           /\ request' = [request EXCEPT ![r] = [@ EXCEPT !.pc = "open", !.id = id, !.victims = gone]]
    /\ UNCHANGED <<live, closing, disk, closer>>

\* closeEntries, one entry at a time, before the goroutine goes on.
CloseVictim(r) ==
    /\ \E id \in request[r].victims :
        /\ live' = live \ {id}
        /\ entry' = [entry EXCEPT ![id] = NoEntry]
        /\ request' = [request EXCEPT ![r].victims = @ \ {id}]
    /\ UNCHANGED <<lru, closing, disk, closer>>

\* openKey succeeds: the entry is ready.
Open(r) ==
    /\ At(r, "open") /\ request[r].victims = {}
    /\ entry' = [entry EXCEPT ![request[r].id].ready = TRUE]
    /\ live' = live \cup {request[r].id}
    /\ disk' = disk \cup {request[r].key}
    /\ Goto(r, "hold")
    /\ UNCHANGED <<lru, closing, closer>>

\* openKey fails or panics and closes what it opened; the entry leaves the
\* cache and its waiters are answered.
OpenFails(r) ==
    LET id == request[r].id
    IN /\ At(r, "open") /\ request[r].victims = {}
       /\ \E made \in {{}, {request[r].key}} : disk' = disk \cup made
       /\ entry' = RemoveLocked([entry EXCEPT ![id] = [@ EXCEPT !.ready = TRUE, !.failed = TRUE]], {id}, {})
       /\ lru' = WithoutGone(lru, {id})
       /\ Goto(r, "release")
       /\ UNCHANGED <<live, closing, closer>>

Ready(r) ==
    /\ At(r, "wait") /\ entry[request[r].id].ready
    /\ Goto(r, IF entry[request[r].id].failed THEN "release" ELSE "hold")
    /\ UNCHANGED <<entry, live, lru, closing, disk, closer>>

\* The context ends while the store is being opened.
Leave(r) ==
    /\ At(r, "wait")
    /\ Goto(r, "release")
    /\ UNCHANGED <<entry, live, lru, closing, disk, closer>>

(***************************************************************************)
(* release and close                                                       *)
(***************************************************************************)

\* The request has done its work.
Finish(r) ==
    /\ At(r, "hold")
    /\ Goto(r, "release")
    /\ UNCHANGED <<entry, live, lru, closing, disk, closer>>

Release(r) ==
    LET id == request[r].id
        es == [entry EXCEPT ![id].refs = @ - 1]
        gone == Evicted(es, lru)
        last == {i \in {id} \ gone : es[i].evicted /\ es[i].refs = 0 /\ ~es[i].closed}
    IN /\ At(r, "release")
       /\ entry' = RemoveLocked(es, gone \cup last, gone \cup last)
       /\ lru' = WithoutGone(lru, gone)
       /\ request' = [request EXCEPT ![r] =
            [@ EXCEPT !.pc = "dispose", !.id = NoKey, !.victims = gone \cup last]]
       /\ UNCHANGED <<live, closing, disk, closer>>

Released(r) ==
    /\ At(r, "dispose") /\ request[r].victims = {}
    /\ Return(r)
    /\ UNCHANGED <<entry, live, lru, closing, disk, closer>>

\* Mutant: close passes over the entries that nobody holds.
CloseHeld ==
    LET held == {id \in Range(lru) : entry[id].refs > 0}
    IN /\ ~closing
       /\ closing' = TRUE
       /\ entry' = RemoveLocked(entry, held, {})
       /\ lru' = WithoutGone(lru, held)
       /\ UNCHANGED <<live, disk, request, closer>>

CloseAll ==
    LET all == Range(lru)
        idle == {id \in all : entry[id].refs = 0 /\ ~entry[id].closed}
    IN /\ ~closing
       /\ closing' = TRUE
       /\ entry' = RemoveLocked(entry, all, idle)
       /\ lru' = <<>>
       /\ closer' = idle
       /\ UNCHANGED <<live, disk, request>>

CloseEntry ==
    /\ \E id \in closer :
        /\ live' = live \ {id}
        /\ entry' = [entry EXCEPT ![id] = NoEntry]
        /\ closer' = closer \ {id}
    /\ UNCHANGED <<lru, closing, disk, request>>

RegistryInit ==
    /\ entry = [id \in Ids |-> NoEntry]
    /\ live = {}
    /\ lru = <<>>
    /\ closing = FALSE
    /\ disk \in SUBSET Keys
    /\ request = [r \in Requests |-> IdleRequest]
    /\ closer = {}

Opening(r) == Open(r) \/ OpenFails(r)

Proceed(r) ==
    \/ IsCached(r)
    \/ Stat(r)
    \/ Refused(r)
    \/ Join(r)
    \/ Create(r)
    \/ CloseVictim(r)
    \/ Opening(r)
    \/ Ready(r)
    \/ Finish(r)
    \/ Release(r)
    \/ Released(r)

RegistryNext ==
    \/ \E r \in Requests : Proceed(r) \/ Leave(r) \/ \E k \in Keys : BeginAcquire(r, k)
    \/ CloseAll
    \/ CloseEntry

RegistrySpec == RegistryInit /\ [][RegistryNext]_registryVars

\* Requests are goroutines that go on, an open returns and a holder finishes
\* within its window.  Nothing is assumed of clients that leave.
RegistryFairness ==
    /\ \A r \in Requests : WF_registryVars(Proceed(r))
    /\ WF_registryVars(CloseEntry)
=============================================================================
