------------------------------- MODULE MCMemory -------------------------------
(***************************************************************************)
(* The stores of Memory, for TLC: graph memory (GraphMemory), its file     *)
(* (StoreFile) and the records store (Records), each alone.  The parts     *)
(* that are not chosen stay as they began.                                 *)
(***************************************************************************)
EXTENDS GraphProperties, StoreFile, RecordsProperties, TLC

CONSTANTS Q1, Q2

VARIABLE part

\* a is weak and shares an entity with b; b tells what follows from the others; c is immune.
MCAbout ==
    [a |-> [source |-> "user", entities |-> {"db"}, signal |-> FALSE, importance |-> 2],
     b |-> [source |-> "user", entities |-> {"db"}, signal |-> TRUE, importance |-> 3],
     c |-> [source |-> "user", entities |-> {}, signal |-> FALSE, importance |-> 4]]
MCContents == {"a", "b", "c"}
MCSimilar == {{"a", "c"}}
MCOverlaps == {{"a", "b"}, {"b", "c"}}

MCDrafts ==
    {[entries |-> <<[content |-> "a", at |-> 5], [content |-> "c", at |-> Now]>>,
      edges |-> {[s |-> 2, t |-> 1, type |-> "supersedes"]}]}

MCQueries == {[keyword |-> [a |-> 2, b |-> 1, c |-> 0], entities |-> {"db"}]}
MCIntentWeights == [causal |-> 500, temporal |-> 200, entity |-> 150, semantic |-> 150, supersedes |-> 0]

\* No command on the graph; none on the files; no call of the records store.
Still == [alone |-> TRUE, commands |-> 0, crashes |-> 0, ops |-> {}]
Closed == [legacy |-> FALSE, wal |-> FALSE, even |-> FALSE, crashes |-> 0, together |-> FALSE,
           opens |-> 0, names |-> 0]
Unread == [puts |-> 0, ids |-> {1}, replaces |-> 0, failures |-> 0, builds |-> {FALSE}, queries |-> {},
           indexed |-> {}, filters |-> {FALSE}, catchUp |-> FALSE, restarts |-> FALSE]

MCWorlds ==
    {[alone |-> TRUE, commands |-> 3, crashes |-> 0, ops |-> {"remember", "link", "forget", "gc"}],
     [alone |-> TRUE, commands |-> 4, crashes |-> 0, ops |-> {"remember", "gc"}],
     [alone |-> TRUE, commands |-> 3, crashes |-> 1, ops |-> {"remember", "embed", "import"}],
     [alone |-> FALSE, commands |-> 3, crashes |-> 1, ops |-> {"remember", "forget"}],
     [alone |-> FALSE, commands |-> 2, crashes |-> 0, ops |-> {"recall", "remember", "import"}],
     Still}

\* Files opened one at a time or together, from either layout, with and without deaths;
\* and the commands on names.
MCFileWorlds ==
    {[legacy |-> l, wal |-> l, even |-> e, crashes |-> 2, together |-> t, opens |-> 4, names |-> 0] :
        l, e, t \in BOOLEAN}
        \cup {[Closed EXCEPT !.names = 6], Closed}

\* Writers of both builds, and no query.
Writers == [puts |-> 3, ids |-> {1, 2}, replaces |-> 0, failures |-> 0, builds |-> BOOLEAN, queries |-> {},
            indexed |-> {}, filters |-> {FALSE}, catchUp |-> FALSE, restarts |-> FALSE]
\* Queries of the current and of earlier revisions beside the worker.
Plain == [puts |-> 2, ids |-> {1}, replaces |-> 0, failures |-> 0, builds |-> {FALSE}, queries |-> {Q1, Q2},
          indexed |-> {FALSE}, filters |-> {FALSE}, catchUp |-> FALSE, restarts |-> FALSE]
Filtered == [Plain EXCEPT !.puts = 1, !.filters = BOOLEAN]
Failing == [Plain EXCEPT !.puts = 1, !.failures = 2]
CatchingUp == [Plain EXCEPT !.queries = {Q1}, !.filters = BOOLEAN, !.catchUp = TRUE, !.restarts = TRUE]
\* Indexed queries while a derivation job replaces the overlay.
Overlaid == [Plain EXCEPT !.puts = 0, !.failures = 1, !.replaces = 2, !.indexed = {TRUE}]
OverlaidPut == [Plain EXCEPT !.puts = 1, !.replaces = 1, !.indexed = {TRUE}, !.queries = {Q1}]

MCRecWorlds == {Writers, Plain, Filtered, Failing, CatchingUp, Overlaid, OverlaidPut, Unread}

MCInit ==
    /\ Init /\ FileInit /\ RecInit
    /\ part \in {"graph", "file", "records"}
    /\ (world = Still) = (part # "graph")
    /\ (fileWorld = Closed) = (part # "file")
    /\ (recWorld = Unread) = (part # "records")

MCNext ==
    /\ \/ part = "graph" /\ Next /\ UNCHANGED <<fileVars, recVars>>
       \/ part = "file" /\ FileNext /\ UNCHANGED <<vars, recVars>>
       \/ part = "records" /\ RecNext /\ UNCHANGED <<vars, fileVars>>
    /\ UNCHANGED part

MCSpec == MCInit /\ [][MCNext]_<<vars, fileVars, recVars, part>>

Symmetries == Permutations(Procs) \cup Permutations(RecQueries)
=============================================================================
