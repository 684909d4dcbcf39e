--------------------------- MODULE GraphProperties ---------------------------
(***************************************************************************)
(* What graph memory promises, of its writes and of its reads.             *)
(***************************************************************************)
EXTENDS GraphReading

(***************************************************************************)
(* An import that ends has stored every entry whose write did not fail,    *)
(* once, and joined them by the draft's explicit edges, also when an       *)
(* earlier run of the same draft died half-way and this one found its      *)
(* entries as duplicates; only what the import then pruned is missing      *)
(* (importCmd).  While no other command runs beside it.                    *)
(***************************************************************************)
Holding(rows, c) == {i \in DOMAIN rows : rows[i].content = c /\ rows[i].deleted # "forgotten"}

ImportLands ==
    [][\A p \in Procs :
          proc[p].op = "import" /\ world.alone /\ ImportFinishes(p) =>
            LET d == proc[p].draft
                stored(k) == proc[p].imported[k]
                kept(k) == stored(k) # 0 /\ insights'[stored(k)].deleted = "no"
                content(k) == d.entries[k].content
            IN /\ \A k \in DOMAIN d.entries :
                    stored(k) # 0 => /\ insights'[stored(k)].content = content(k)
                                     /\ Cardinality(Holding(insights', content(k)) \cap Active(insights')) <= 1
               /\ \A e \in d.edges :
                    kept(e.s) /\ kept(e.t) => Edge(stored(e.s), stored(e.t), e.type) \in edges'
               /\ \A k \in DOMAIN d.entries :
                    stored(k) = 0 => \A i \in Active(insights) : insights[i].content # content(k)]_vars

\* Reference: the insights at each distance, over active insights only.
RECURSIVE Within(_, _)
Within(start, n) ==
    IF n = 0 THEN {start}
    ELSE LET near == Within(start, n - 1)
         IN near \cup {j \in Active(insights) : \E e \in edges, i \in near : {e.s, e.t} = {i, j}}

(***************************************************************************)
(* The traversal behind related reports exactly the active insights within *)
(* the depth, each at its distance, whatever deleted insights an edge      *)
(* still points at (BFS).                                                  *)
(***************************************************************************)
RelatedIsNearest ==
    Quiet => \A start \in Active(insights) :
        LET hops == BFS(insights, edges, start, 2)
        IN \A n \in 1 .. 2 :
             {i \in DOMAIN hops : hops[i] = n} = Within(start, n) \ Within(start, n - 1)

\* Insights a causal cycle among the results holds back: those and all they cause.
RECURSIVE Downstream(_, _)
Downstream(S, n) ==
    IF n = 0 THEN S
    ELSE LET D == Downstream(S, n - 1)
         IN D \cup {e.t : e \in {e \in edges : e.type = "causal" /\ e.s \in D}}

Effects(i) == {e.t : e \in {e \in edges : e.type = "causal" /\ e.s = i}}
OnCycle(R) == {i \in R : i \in Downstream(Effects(i) \cap R, Cardinality(R))}

InCausalOrder(ranked, answer) ==
    LET held == Downstream(OnCycle(Range(ranked)), Len(ranked))
        place(i) == CHOOSE k \in DOMAIN answer : answer[k] = i
    IN /\ Len(answer) = Len(ranked) /\ Range(answer) = Range(ranked)
       /\ \A e \in edges :
            /\ e.type = "causal"
            /\ {e.s, e.t} \subseteq Range(answer)
            /\ e.t \notin held
            => place(e.s) < place(e.t)

(***************************************************************************)
(* A recall that asks why returns the best-ranked insights, each once, and *)
(* puts every cause before its effect, whenever no causal cycle leads to   *)
(* the effect (causalTopologicalSort); the link command can make such      *)
(* cycles.                                                                 *)
(***************************************************************************)
CausesComeFirst ==
    Quiet /\ Active(insights) # {} =>
        \A q \in Queries :
            LET ranked == Ranked(insights, edges, q)
            IN InCausalOrder(ranked, causalTopologicalSort(edges, ranked))

=============================================================================
