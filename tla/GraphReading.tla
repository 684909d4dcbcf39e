---------------------------- MODULE GraphReading -----------------------------
(***************************************************************************)
(* How graph memory is read: the breadth-first traversal behind related    *)
(* (internal/memory/graph/bfs.go), and recall                              *)
(* (internal/memory/search/recall.go): anchors by reciprocal rank, a beam  *)
(* search from every anchor, reranking and, for a question that asks why,  *)
(* causes before effects.  Pure operators over a table of insights and a   *)
(* set of edges; scores are scaled to integers.                            *)
(***************************************************************************)
EXTENDS GraphMemory, SequencesExt, Functions

CONSTANTS
    Queries,        \* [keyword: content -> score, entities]
    IntentWeights,  \* of an edge type, in thousandths
    AnchorTopK, BeamWidth, MaxDepth, MaxVisited, RecallLimit

\* S in the strict order first.
Rank(S, first(_, _)) ==
    [k \in 1 .. Cardinality(S) |-> CHOOSE x \in S : Cardinality({y \in S : first(y, x)}) = k - 1]

\* A neighbour over an edge, whichever end it is.
Neighbor(e, i) == IF e.t = i THEN e.s ELSE e.t
Touching(es, i) == {e \in es : e.s = i \/ e.t = i}

(***************************************************************************)
(* BFS.  A node is visited when it is first seen, active or not.           *)
(***************************************************************************)
\* Mutant: an insight that was forgotten is reported, and searched from.
ReportedAny(rows, seen) == seen

Reported(rows, seen) == seen \cap Active(rows)

RECURSIVE BFSLevel(_, _, _, _, _, _)
BFSLevel(rows, es, level, hop, visited, depth) ==
    IF hop >= depth \/ level = {} THEN << >>
    ELSE LET seen == UNION {{Neighbor(e, i) : e \in Touching(es, i)} : i \in level} \ visited
             found == Reported(rows, seen)
         IN [i \in found |-> hop + 1] @@ BFSLevel(rows, es, found, hop + 1, visited \cup seen, depth)

\* The hop every node is reported at.
BFS(rows, es, start, depth) == BFSLevel(rows, es, {start}, 0, {start}, depth)

(***************************************************************************)
(* Recall.                                                                 *)
(***************************************************************************)
rrf(rank) == 61000 \div (60 + rank)

\* The reciprocal rank an insight has in one ranked signal.
Signal(ranked, i) ==
    LET top == SubSeq(ranked, 1, Min({AnchorTopK, Len(ranked)}))
    IN IF i \in Range(top) THEN rrf(CHOOSE k \in DOMAIN top : top[k] = i) ELSE 0

KeywordSearch(rows, q) ==
    LET score(i) == q.keyword[rows[i].content]
        better(i, j) == score(i) > score(j) \/ (score(i) = score(j) /\ i < j)
    IN Rank({i \in Active(rows) : score(i) > 0}, better)

ByTime(rows) == Rank(Active(rows), LAMBDA i, j : Newer(rows, i, j))

Anchors(rows, q) ==
    LET raw == [i \in Active(rows) |-> Signal(KeywordSearch(rows, q), i) + Signal(ByTime(rows), i)]
        hit == {i \in Active(rows) : raw[i] > 0}
        top == Max({raw[i] : i \in hit} \cup {1})
    IN [i \in hit |-> (1000 * raw[i]) \div top]

transitionsFor(es, i) ==
    LET ts == {[id |-> Neighbor(e, i), delta |-> IntentWeights[e.type]] : e \in Touching(es, i)}
        steeper(a, b) == \/ a.delta > b.delta
                         \/ a.delta = b.delta /\ a.id < b.id
    IN Rank(ts, steeper)

\* One neighbour of the node being expanded: its score may rise, and it joins the next
\* level when it is new and the budget of visits allows.
Expand(s, t, score) ==
    IF Cardinality(s.visited) >= MaxVisited THEN s
    ELSE LET n == score + t.delta
         IN [scores |-> [s.scores EXCEPT ![t.id] = Max({@, n})],
             visited |-> s.visited \cup {t.id},
             next |-> IF t.id \in s.visited THEN s.next ELSE Append(s.next, [id |-> t.id, score |-> n])]

BestFirst(items) ==
    SortSeq(items, LAMBDA a, b : a.score > b.score \/ (a.score = b.score /\ a.id < b.id))

ExpandNode(es, s, item) == FoldLeft(LAMBDA acc, t : Expand(acc, t, item.score), s, transitionsFor(es, item.id))

RECURSIVE BeamLevel(_, _, _, _)
BeamLevel(es, s, level, depth) ==
    IF depth = MaxDepth \/ level = << >> THEN s.scores
    ELSE LET after == FoldLeft(LAMBDA acc, item : ExpandNode(es, acc, item),
                               [s EXCEPT !.next = << >>], BestFirst(level))
         IN BeamLevel(es, after, SubSeq(BestFirst(after.next), 1, Min({BeamWidth, Len(after.next)})), depth + 1)

beamSearchFromAnchor(es, scores, i, score) ==
    BeamLevel(es, [scores |-> scores, visited |-> {i}, next |-> << >>], <<[id |-> i, score |-> score]>>, 0)

\* Scores of everything reached; -1 where nothing was.
GraphScores(rows, es, q) ==
    LET anchors == Anchors(rows, q)
        seed == [i \in DOMAIN rows |-> IF i \in DOMAIN anchors THEN anchors[i] ELSE -1]
    IN FoldSet(LAMBDA i, acc : beamSearchFromAnchor(es, acc, i, anchors[i]), seed, DOMAIN anchors)

GetSupersededIDs(es) == {e.t : e \in {e \in es : e.type = "supersedes" /\ e.s # e.t}}

\* Keyword, entity and graph score, weighed as without embeddings; a superseded insight
\* keeps a quarter.
Rerank(rows, es, q, raw, found, low, range) ==
    LET entities(i) == Cardinality(Text(rows, i).entities \cap q.entities)
        score(i) == 45 * q.keyword[rows[i].content]
                    + (25 * entities(i)) \div Max({1, Cardinality(q.entities)})
                    + (30 * (raw[i] - low)) \div range
    IN [i \in found |-> IF i \in GetSupersededIDs(es) THEN score(i) \div 4 ELSE score(i)]

Normalized(rows, es, q, raw, scores, found) ==
    Rerank(rows, es, q, raw, found, Min(scores), Max({Max(scores) - Min(scores), 1}))

Candidates(rows, es, q, raw, found) ==
    Normalized(rows, es, q, raw, {raw[i] : i \in found}, found)

FinalScores(rows, es, q, raw) ==
    Candidates(rows, es, q, raw, {i \in Active(rows) : raw[i] >= 0})

\* Mutant: an effect is released by its first cause.
KahnReleases(causes, done, i) == causes[i] = {} \/ causes[i] \cap done # {}

\* An insight is ready when every cause among the results has been placed.
KahnReady(causes, done, i) == causes[i] \subseteq done

\* Kahn's algorithm: the best-placed ready insight next; what a cycle holds back keeps
\* its order by score.
RECURSIVE Kahn(_, _, _)
Kahn(results, causes, ordered) ==
    LET left == SelectSeq(results, LAMBDA i : i \notin Range(ordered))
        ready == SelectSeq(left, LAMBDA i : KahnReady(causes, Range(ordered), i))
    IN IF ready = << >> THEN ordered \o left
       ELSE Kahn(results, causes, Append(ordered, Head(ready)))

causalTopologicalSort(es, results) ==
    LET causes == [i \in Range(results) |->
                      {e.s : e \in {e \in es : e.type = "causal" /\ e.t = i /\ e.s \in Range(results)}}]
    IN Kahn(results, causes, << >>)

BestRanked(rows, final) ==
    LET better(i, j) == \/ final[i] > final[j]
                        \/ final[i] = final[j] /\ Text(rows, i).importance > Text(rows, j).importance
                        \/ final[i] = final[j] /\ Text(rows, i).importance = Text(rows, j).importance /\ i < j
    IN SubSeq(Rank(DOMAIN final, better), 1, Min({RecallLimit, Cardinality(DOMAIN final)}))

Ranked(rows, es, q) == BestRanked(rows, FinalScores(rows, es, q, GraphScores(rows, es, q)))

\* For a question that asks why.
IntentAwareRecall(rows, es, q) == causalTopologicalSort(es, Ranked(rows, es, q))

=============================================================================
