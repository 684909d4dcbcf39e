------------------------- MODULE RegistryProperties -------------------------
(***************************************************************************)
(* What the registry of open stores promises.                              *)
(***************************************************************************)
EXTENDS Registry

\* An open store belongs to those who use it or to the one who will close it.
\* It is never closed, nor about to be, under a request that holds it:
\* eviction, the release of others and close pass over it.  Requests that hold
\* the same user hold the same entry, whose write lock keeps their Adds apart.
\* And every open store can be reached by what will close it: the cache, a
\* holder, or exactly one goroutine (acquire, release, evictLocked, close).
StoresAreOwned ==
    /\ \A r \in Requests : At(r, "hold") =>
        /\ request[r].id \in live
        /\ request[r].id \notin closer \cup UNION {request[q].victims : q \in Requests}
        /\ \A q \in Requests : At(q, "hold") /\ request[q].key = request[r].key => request[q].id = request[r].id
    /\ \A id \in Ids :
        LET closers == {r \in Requests : id \in request[r].victims}
        IN /\ Cardinality(closers) + Cardinality(closer \cap {id}) <= 1
           /\ id \in live =>
                \/ id \in Range(lru) \cup closer
                \/ closers # {}
                \/ \E r \in Requests : request[r].id = id

\* After close every store is closed once its holders have left, and stays so.
CloseCloses == closing ~> [](live = {})

\* A user's store appears on disk only by an Add ("With create false, a user
\* who has no store yet gives nil and nothing is created").
OnlyAddsCreate ==
    [][\A k \in disk' \ disk : \E r \in Requests :
        request[r].pc = "open" /\ request[r].key = k /\ request[r].create]_registryVars
=============================================================================
