----------------------------- MODULE GraphMemory -----------------------------
(***************************************************************************)
(* One named store of graph memory (internal/memory/store, graph, search)  *)
(* under the commands that change it (cmd/memory: remember, import, link,  *)
(* forget, gc, recall, search, show, embed).  Every command is a process   *)
(* of its own that opens the SQLite file, and several run at once: what a  *)
(* command reads outside its transaction may be stale when it writes, and  *)
(* a process may die between two of its writes.                            *)
(*                                                                         *)
(* Abstracted: a content stands for its text and for what the extractors   *)
(* find in it (its source, entities, causal words, importance); cosine and *)
(* token overlap are relations between contents; a half-life and the grace *)
(* period of auto-pruning pass together.  Importance is scaled to          *)
(* integers.                                                               *)
(***************************************************************************)
EXTENDS Integers, Sequences, FiniteSets, FiniteSetsExt

CONSTANTS
    Procs,              \* command processes
    Contents,           \* texts a user stores
    About,              \* of a content: source, entities, signal, importance
    Similar,            \* pairs of contents whose cosine is at least 0.80
    Overlaps,           \* pairs of contents that share enough tokens to be causal
    Drafts,             \* import files: entries (content, at) and explicit edges
    LinkTypes,          \* edge types the link command is asked for
    MaxInsights,        \* MNEMON_MAX_INSIGHTS
    PruneBatchSize, MaxOplogEntries, MaxEntityLinks, MaxProximityEdges, CausalLookback,
    MaxRows,            \* bound of the exploration
    Worlds              \* instances: [alone (one command at a time), commands, crashes, ops]

\* Validate: an explicit edge names two entries of its draft.
ASSUME DraftsAssumption ==
    \A d \in Drafts : /\ Len(d.entries) \in Nat
                      /\ \A e \in d.edges : {e.s, e.t} \subseteq 1 .. Len(d.entries)

VARIABLES
    world,              \* the instance, chosen once
    insights,           \* the insights table, in insertion order
    edges,              \* the edges table
    oplog,              \* the operation log: <<operation, insight>>
    proc,               \* the running commands
    started, crashes    \* how many commands began and died

vars == <<world, insights, edges, oplog, proc, started, crashes>>
db == <<insights, edges, oplog>>

Idle == [op |-> "none"]
Now == 10               \* created_at of what is stored now; a draft may name an earlier time

Edge(s, t, type) == [s |-> s, t |-> t, type |-> type]
IsDirected(type) == type = "supersedes"
Both(i, S, type) == {Edge(i, j, type) : j \in S} \cup {Edge(j, i, type) : j \in S}

Active(rows) == {i \in DOMAIN rows : rows[i].deleted = "no"}
Text(rows, i) == About[rows[i].content]

\* ORDER BY created_at DESC, rowid DESC LIMIT k
Newer(rows, i, j) ==
    \/ rows[i].at > rows[j].at
    \/ rows[i].at = rows[j].at /\ i > j
Newest(rows, S, k) == {i \in S : Cardinality({j \in S : Newer(rows, j, i)}) < k}

FindExactDuplicate(rows, c) == Newest(rows, {i \in Active(rows) : rows[i].content = c}, 1)
GetAllEmbeddings(rows) == {i \in Active(rows) : rows[i].embedded}

(***************************************************************************)
(* The edge generators of a new insight (graph.Engine.OnInsightCreated).   *)
(***************************************************************************)
SameSource(rows, i) ==
    {j \in Active(rows) \ {i} : Text(rows, j).source = Text(rows, i).source}

CreateTemporalEdge(rows, i) ==
    LET prev == Newest(rows, SameSource(rows, i), 1)
        near == {j \in Active(rows) \ {i} : rows[j].at >= Now /\ ~rows[j].aged}
    IN Both(i, prev \cup Newest(rows, near, MaxProximityEdges), "temporal")

CreateEntityEdges(rows, i) ==
    LET having(e) == {j \in Active(rows) \ {i} : e \in Text(rows, j).entities}
    IN UNION {Both(i, Newest(rows, having(e), MaxEntityLinks), "entity") : e \in Text(rows, i).entities}

CreateCausalEdges(rows, i) ==
    LET mine == Text(rows, i).signal
        recent == Newest(rows, SameSource(rows, i), CausalLookback)
        linked == {j \in recent : /\ mine \/ Text(rows, j).signal
                                  /\ {rows[i].content, rows[j].content} \in Overlaps}
    IN {IF mine THEN Edge(j, i, "causal") ELSE Edge(i, j, "causal") : j \in linked}

CreateSemanticEdges(rows, i, cache) ==
    IF ~rows[i].embedded THEN {}
    ELSE Both(i, {j \in cache \ {i} : {rows[i].content, rows[j].content} \in Similar}, "semantic")

OnInsightCreated(rows, i, cache, temporal) ==
    (IF temporal THEN CreateTemporalEdge(rows, i) ELSE {})
        \cup CreateEntityEdges(rows, i)
        \cup CreateCausalEdges(rows, i)
        \cup CreateSemanticEdges(rows, i, cache)

(***************************************************************************)
(* Retention.  effective_importance is stored when it is refreshed, and    *)
(* auto-pruning reads what is stored.                                      *)
(***************************************************************************)
baseWeight(importance) ==
    CASE importance = 5 -> 100 [] importance = 4 -> 80 [] importance = 3 -> 50
      [] importance = 2 -> 30 [] OTHER -> 15

\* 100 ln(1 + access), at least 100.
accessFactor(n) == IF n <= 1 THEN 100 ELSE IF n = 2 THEN 110 ELSE 139

ComputeEffectiveImportance(rows, es, i) ==
    LET n == Cardinality({e \in es : e.s = i}) + Cardinality({e \in es : e.t = i})
    IN (baseWeight(Text(rows, i).importance) * accessFactor(rows[i].access)
            * (10 + Min({n, 5}))) \div (IF rows[i].idle THEN 2 ELSE 1)

IsImmune(rows, i) == Text(rows, i).importance >= 4 \/ rows[i].access >= 3

RefreshEffectiveImportance(rows, es, S) ==
    [i \in DOMAIN rows |-> IF i \in S \cap Active(rows)
                           THEN [rows[i] EXCEPT !.ei = ComputeEffectiveImportance(rows, es, i)]
                           ELSE rows[i]]

\* RecordOp: append, then trim to MaxOplogEntries.
RecordOps(log, ops) ==
    LET all == log \o ops IN SubSeq(all, Max({1, Len(all) - MaxOplogEntries + 1}), Len(all))

\* ORDER BY effective_importance ASC, created_at ASC, id ASC
Weaker(rows, i, j) ==
    \/ rows[i].ei < rows[j].ei
    \/ rows[i].ei = rows[j].ei /\ rows[i].at < rows[j].at
    \/ rows[i].ei = rows[j].ei /\ rows[i].at = rows[j].at /\ i < j

PruneCandidates(rows, excluded) ==
    {i \in Active(rows) \ excluded : rows[i].aged /\ ~IsImmune(rows, i)}

AutoPrune(rows, es, log, excluded) ==
    LET excess == Min({Cardinality(Active(rows)) - MaxInsights, PruneBatchSize})
        cands == PruneCandidates(rows, excluded)
        Rank(i) == Cardinality({j \in cands : Weaker(rows, j, i)})
        gone == {i \in cands : Rank(i) < excess}
        ids == [k \in 1..Cardinality(gone) |-> CHOOSE i \in gone : Rank(i) = k - 1]
    IN [rows |-> [i \in DOMAIN rows |-> IF i \in gone THEN [rows[i] EXCEPT !.deleted = "pruned"]
                                        ELSE rows[i]],
        edges |-> {e \in es : e.s \notin gone /\ e.t \notin gone},
        log |-> RecordOps(log, [k \in DOMAIN ids |-> <<"prune", ids[k]>>])]

(***************************************************************************)
(* The running commands.                                                   *)
(***************************************************************************)
Init ==
    /\ world \in Worlds
    /\ insights = << >> /\ edges = {} /\ oplog = << >>
    /\ proc = [p \in Procs |-> Idle]
    /\ started = 0 /\ crashes = 0

May(op) == op \in world.ops

Begin(p) ==
    /\ proc[p] = Idle
    /\ started < world.commands
    /\ world.alone => \A q \in Procs : proc[q] = Idle
    /\ started' = started + 1
    /\ UNCHANGED <<world, crashes>>

Goes(p, state) == proc' = [proc EXCEPT ![p] = state]
Runs(p, op) == proc[p].op = op /\ UNCHANGED <<world, started, crashes>>

LogOp(op, i) == oplog' = RecordOps(oplog, <<<<op, i>>>>)

Row(c, at, embedded) ==
    [content |-> c, at |-> at, access |-> 0, aged |-> FALSE, idle |-> FALSE,
     embedded |-> embedded, ei |-> 0, deleted |-> "no"]

\* remember: the embedding, the embed cache and the exact-duplicate check, before its
\* transaction.
RememberReads(p) ==
    /\ Begin(p) /\ May("remember")
    /\ \E c \in Contents, embeds \in BOOLEAN :
        Goes(p, [op |-> "remember", content |-> c, embeds |-> embeds,
                 dup |-> FindExactDuplicate(insights, c),
                 cache |-> IF embeds THEN GetAllEmbeddings(insights) ELSE {}])
    /\ UNCHANGED db

RememberSkips(p) ==
    /\ Runs(p, "remember")
    /\ proc[p].dup # {}
    /\ LogOp("diff-skip", 0)
    /\ Goes(p, Idle)
    /\ UNCHANGED <<insights, edges>>

RememberStores(p) ==
    /\ Runs(p, "remember")
    /\ proc[p].dup = {}
    /\ Len(insights) < MaxRows
    /\ LET i == Len(insights) + 1
           rows == Append(insights, Row(proc[p].content, Now, proc[p].embeds))
           es == edges \cup OnInsightCreated(rows, i, proc[p].cache, TRUE)
           pruned == AutoPrune(RefreshEffectiveImportance(rows, es, {i}), es, oplog, {i})
       IN /\ insights' = pruned.rows
          /\ edges' = pruned.edges
          /\ oplog' = RecordOps(pruned.log, <<<<"remember", i>>>>)
    /\ Goes(p, Idle)

\* link: both insights are looked up, then each direction is a write of its own.
LinkChecks(p) ==
    /\ Begin(p) /\ May("link")
    /\ \E s, t \in Active(insights), type \in LinkTypes :
        /\ type = "supersedes" => s # t
        /\ Goes(p, [op |-> "link", at |-> "forth", edge |-> Edge(s, t, type)])
    /\ UNCHANGED db

LinkForth(p) ==
    /\ Runs(p, "link") /\ proc[p].at = "forth"
    /\ edges' = edges \cup {proc[p].edge}
    /\ Goes(p, [proc[p] EXCEPT !.at = "back"])
    /\ UNCHANGED <<insights, oplog>>

LinkBack(p) ==
    /\ Runs(p, "link") /\ proc[p].at = "back"
    /\ LET e == proc[p].edge
       IN /\ edges' = IF IsDirected(e.type) THEN edges ELSE edges \cup {Edge(e.t, e.s, e.type)}
          /\ LogOp("link", e.s)
    /\ Goes(p, Idle)
    /\ UNCHANGED insights

\* forget: SoftDeleteInsight marks the row, then deletes its edges.
ForgetMarks(p) ==
    /\ Begin(p) /\ May("forget")
    /\ \E i \in Active(insights) :
        /\ insights' = [insights EXCEPT ![i].deleted = "forgotten"]
        /\ Goes(p, [op |-> "forget", id |-> i])
    /\ UNCHANGED <<edges, oplog>>

\* Mutant: only the edges that leave the insight go.
ForgetUnlinksOneWay(p) ==
    /\ Runs(p, "forget")
    /\ edges' = {e \in edges : e.s # proc[p].id}
    /\ LogOp("forget", proc[p].id)
    /\ Goes(p, Idle)
    /\ UNCHANGED insights

ForgetUnlinks(p) ==
    /\ Runs(p, "forget")
    /\ edges' = {e \in edges : e.s # proc[p].id /\ e.t # proc[p].id}
    /\ LogOp("forget", proc[p].id)
    /\ Goes(p, Idle)
    /\ UNCHANGED insights

\* gc --keep: BoostRetention, then the insight's importance is refreshed.
Keep(p) ==
    /\ Begin(p) /\ May("gc")
    /\ \E i \in Active(insights) :
        /\ insights[i].access < 3
        /\ LET rows == [insights EXCEPT ![i].access = Min({@ + 3, 3}), ![i].idle = FALSE]
           IN insights' = RefreshEffectiveImportance(rows, edges, {i})
        /\ LogOp("gc_keep", i)
    /\ UNCHANGED <<edges, proc>>

\* gc: GetRetentionCandidates stores the importance of every active insight.
Suggest(p) ==
    /\ Begin(p) /\ May("gc")
    /\ insights' = RefreshEffectiveImportance(insights, edges, Active(insights))
    /\ LogOp("gc", 0)
    /\ UNCHANGED <<edges, proc>>

\* gc --compact rewrites the file; no row changes.
Compact(p) ==
    /\ Begin(p) /\ May("gc")
    /\ LogOp("gc_compact", 0)
    /\ UNCHANGED <<insights, edges, proc>>

\* A hit is counted and its idle time starts again; its importance is not refreshed.
IncrementAccessCount(hits) ==
    insights' = [i \in DOMAIN insights |->
                    IF i \in hits THEN [insights[i] EXCEPT !.access = Min({@ + 1, 3}), !.idle = FALSE]
                    ELSE insights[i]]

\* The answers of recall and search depend on the query; any set of active insights.
Recall(p) ==
    /\ Begin(p) /\ May("recall")
    /\ \E hits \in SUBSET Active(insights) : IncrementAccessCount(hits)
    /\ LogOp("recall", 0)
    /\ UNCHANGED <<edges, proc>>

SearchCommand(p) ==
    /\ Begin(p) /\ May("recall")
    /\ \E hits \in SUBSET Active(insights) : IncrementAccessCount(hits)
    /\ LogOp("search", 0)
    /\ UNCHANGED <<edges, proc>>

Show(p) ==
    /\ Begin(p) /\ May("recall")
    /\ \E i \in Active(insights) : IncrementAccessCount({i}) /\ LogOp("show", i)
    /\ UNCHANGED <<edges, proc>>

\* embed <id> writes the vector again; embed --all those that are missing, as far as the
\* provider answers.
UpdateEmbedding(S) ==
    insights' = [i \in DOMAIN insights |->
                    IF i \in S THEN [insights[i] EXCEPT !.embedded = TRUE] ELSE insights[i]]

EmbedOne(p) ==
    /\ Begin(p) /\ May("embed")
    /\ \E i \in Active(insights) : UpdateEmbedding({i}) /\ LogOp("embed", i)
    /\ UNCHANGED <<edges, proc>>

EmbedAll(p) ==
    /\ Begin(p) /\ May("embed")
    /\ LET missing == Active(insights) \ GetAllEmbeddings(insights)
       IN missing # {} /\ \E S \in SUBSET missing : UpdateEmbedding(S)
    /\ LogOp("embed:backfill", 0)
    /\ UNCHANGED <<edges, proc>>

(***************************************************************************)
(* import: one transaction per entry, then one that adds the explicit      *)
(* edges, repairs the source timelines and prunes.                         *)
(***************************************************************************)
ImportLoads(p) ==
    /\ Begin(p) /\ May("import")
    /\ \E d \in Drafts, embeds \in BOOLEAN :
            Goes(p, [op |-> "import", draft |-> d, at |-> "read", i |-> 1, dup |-> {},
                     imported |-> << >>, mine |-> {}, embeds |-> embeds,
                     cache |-> IF embeds THEN GetAllEmbeddings(insights) ELSE {}])
    /\ UNCHANGED db

ImportReads(p) ==
    /\ Runs(p, "import") /\ proc[p].at = "read"
    /\ proc[p].i <= Len(proc[p].draft.entries)
    /\ Goes(p, [proc[p] EXCEPT !.at = "write",
                    !.dup = FindExactDuplicate(insights, proc[p].draft.entries[proc[p].i].content)])
    /\ UNCHANGED db

\* Mutant: a skipped entry keeps no insight, so its explicit edges are dropped.
ImportSkipsUnmapped(p) ==
    /\ Runs(p, "import") /\ proc[p].at = "write"
    /\ proc[p].dup # {}
    /\ LogOp("import-skip", 0)
    /\ Goes(p, [proc[p] EXCEPT !.at = "read", !.i = @ + 1, !.imported = Append(@, 0)])
    /\ UNCHANGED <<insights, edges>>

ImportSkips(p) ==
    /\ Runs(p, "import") /\ proc[p].at = "write"
    /\ proc[p].dup # {}
    /\ LogOp("import-skip", 0)
    /\ Goes(p, [proc[p] EXCEPT !.at = "read", !.i = @ + 1,
                    !.imported = Append(@, CHOOSE i \in proc[p].dup : TRUE)])
    /\ UNCHANGED <<insights, edges>>

ImportStores(p) ==
    /\ Runs(p, "import") /\ proc[p].at = "write"
    /\ proc[p].dup = {}
    /\ Len(insights) < MaxRows
    /\ LET entry == proc[p].draft.entries[proc[p].i]
           i == Len(insights) + 1
           rows == Append(insights, Row(entry.content, entry.at, proc[p].embeds))
           es == edges \cup OnInsightCreated(rows, i, proc[p].cache, FALSE)
       IN /\ insights' = RefreshEffectiveImportance(rows, es, {i})
          /\ edges' = es
          /\ LogOp("import", i)
          /\ Goes(p, [proc[p] EXCEPT !.at = "read", !.i = @ + 1,
                          !.imported = Append(@, i), !.mine = @ \cup {i},
                          !.cache = IF proc[p].embeds THEN @ \cup {i} ELSE @])

\* A transaction that failed leaves the entry without an insight; the cache is dropped,
\* so the entries that follow compare with what the store holds.
ImportFails(p) ==
    /\ Runs(p, "import") /\ proc[p].at = "write"
    /\ proc[p].dup = {}
    /\ world.crashes > 0
    /\ Goes(p, [proc[p] EXCEPT !.at = "read", !.i = @ + 1, !.imported = Append(@, 0),
                    !.cache = GetAllEmbeddings(insights)])
    /\ UNCHANGED db

ExplicitEdges(draft, imported) ==
    {Edge(imported[e.s], imported[e.t], e.type) :
        e \in {e \in draft.edges : imported[e.s] # 0 /\ imported[e.t] # 0
                                   /\ ~(e.type = "supersedes" /\ imported[e.s] = imported[e.t])}}

\* The nearest insights of a timeline before and after i that satisfy nothing of mine.
Before(rows, S, i) == Newest(rows, {j \in S : Newer(rows, i, j)}, 1)
After(rows, S, i) == {j \in S : Newer(rows, j, i) /\ \A k \in S : Newer(rows, k, i) => ~Newer(rows, j, k)}

Timeline(rows, i) == {j \in Active(rows) : Text(rows, j).source = Text(rows, i).source}

\* The pair of earlier neighbours that i comes between.
Splits(rows, mine, i) ==
    LET old == Timeline(rows, i) \ mine
    IN {<<a, b>> : a \in Before(rows, old, i), b \in After(rows, old, i)}

repairImportedTemporalEdges(rows, es, mine) ==
    LET cut == UNION {Splits(rows, mine, i) : i \in mine \cap Active(rows)}
        next(i) == {<<j, i>> : j \in Before(rows, Timeline(rows, i), i)}
                     \cup {<<i, j>> : j \in After(rows, Timeline(rows, i), i)}
        tied == UNION {next(i) : i \in mine \cap Active(rows)}
    IN [edges |-> {e \in es : ~(e.type = "temporal" /\ (<<e.s, e.t>> \in cut \/ <<e.t, e.s>> \in cut))}
                    \cup UNION {Both(pair[1], {pair[2]}, "temporal") : pair \in tied},
        touched |-> UNION {{pair[1], pair[2]} : pair \in cut \cup tied}]

ImportFinishes(p) ==
    /\ Runs(p, "import") /\ proc[p].at = "read"
    /\ proc[p].i > Len(proc[p].draft.entries)
    /\ LET explicit == ExplicitEdges(proc[p].draft, proc[p].imported)
           repaired == repairImportedTemporalEdges(insights, edges \cup explicit, proc[p].mine)
           stale == proc[p].mine \cup repaired.touched \cup {e.s : e \in explicit} \cup {e.t : e \in explicit}
           pruned == AutoPrune(RefreshEffectiveImportance(insights, repaired.edges, stale),
                               repaired.edges, oplog, {})
       IN /\ insights' = pruned.rows
          /\ edges' = pruned.edges
          /\ oplog' = pruned.log
    /\ Goes(p, Idle)

\* The process dies; a transaction it was in rolls back.
Crash(p) ==
    /\ proc[p] # Idle
    /\ crashes < world.crashes
    /\ crashes' = crashes + 1
    /\ Goes(p, Idle)
    /\ UNCHANGED <<world, started, db>>

TimePasses ==
    /\ \E i \in DOMAIN insights : ~insights[i].aged
    /\ insights' = [i \in DOMAIN insights |-> [insights[i] EXCEPT !.aged = TRUE, !.idle = TRUE]]
    /\ UNCHANGED <<world, edges, oplog, proc, started, crashes>>

Step(p) ==
    \/ RememberReads(p) \/ RememberSkips(p) \/ RememberStores(p)
    \/ LinkChecks(p) \/ LinkForth(p) \/ LinkBack(p)
    \/ ForgetMarks(p) \/ ForgetUnlinks(p)
    \/ Keep(p) \/ Suggest(p) \/ Compact(p)
    \/ Recall(p) \/ SearchCommand(p) \/ Show(p) \/ EmbedOne(p) \/ EmbedAll(p)
    \/ ImportLoads(p) \/ ImportReads(p) \/ ImportSkips(p) \/ ImportStores(p)
    \/ ImportFails(p) \/ ImportFinishes(p)
    \/ Crash(p)

Next == TimePasses \/ \E p \in Procs : Step(p)

Spec == Init /\ [][Next]_vars

Quiet == \A p \in Procs : proc[p] = Idle

(***************************************************************************)
(* While commands run one at a time and none dies, an edge joins two       *)
(* active insights: whoever deletes an insight (SoftDeleteInsight in       *)
(* forget, autoPrune inside remember and import) takes every edge that     *)
(* touches it, and no generator or import links to one that is gone.       *)
(***************************************************************************)
EdgesMeetActive ==
    world.alone /\ world.crashes = 0 /\ Quiet =>
        \A e \in edges : e.s \in Active(insights) /\ e.t \in Active(insights)

=============================================================================
