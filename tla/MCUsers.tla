------------------------------- MODULE MCUsers -------------------------------
(***************************************************************************)
(* The store of a user, for TLC: jobs that fold its records (Fold), or     *)
(* requests that open, share and close stores (Registry).  The part that   *)
(* is not chosen stays as it began, where none of its fair actions is      *)
(* enabled.                                                                *)
(***************************************************************************)
EXTENDS FoldProperties, RegistryProperties

CONSTANTS k1, k2, r1, r2, e1, e2, e3

VARIABLE part

R(id, temper, units) == [id |-> id, temper |-> temper, units |-> units]

W(script, agents, layered, defer, faults, requests) ==
  [script |-> script, agent |-> agents, layered |-> layered, defer |-> defer, faults |-> faults, requests |-> requests]

Alone == [j \in {"j1"} |-> "a1"]
Two == [j \in Jobs |-> IF j = "j1" THEN "a1" ELSE "a2"]

\* A record, one replaced later, and one that the provider refuses.
WithRefused == <<R(1, "plain", 1), R(2, "refused", 1), R(1, "plain", 1)>>
\* One whose reply never parses, one nothing is read of, one too long for a
\* request and for the bound of a read, and a short rest.
Mixed == <<R(1, "garbled", 1), R(2, "plain", 0), R(3, "plain", 4), R(4, "plain", 1)>>
\* One that times out at every call, and one whose reply parses at the second attempt.
Slow == <<R(1, "slow", 1), R(2, "flaky", 2)>>
Plain == <<R(1, "plain", 1), R(2, "plain", 2), R(3, "plain", 1)>>
Pair == <<R(1, "plain", 1), R(2, "refused", 1)>>

\* No record is written and no job runs.
NoScope == W(<<>>, <<>>, FALSE, FALSE, {}, {})

MCWorlds == {
  W(WithRefused, Alone, FALSE, FALSE, {}, {"job"}),
  W(Mixed, Alone, FALSE, FALSE, {}, {"job"}),
  W(Mixed, Alone, TRUE, FALSE, {}, {"job"}),
  W(WithRefused, Alone, TRUE, TRUE, {}, {"job"}),
  W(Slow, Alone, TRUE, FALSE, {}, {"job"}),
  W(Pair, Two, FALSE, FALSE, {"outage"}, {"job"}),
  W(Pair, Two, FALSE, FALSE, {"crash"}, {"job", "reset"}),
  W(WithRefused, Alone, FALSE, FALSE, {"cancel", "outage"}, {"job", "hold"}),
  W(Slow, Alone, TRUE, FALSE, {"cancel", "outage"}, {"job"}),
  W(Plain, Alone, TRUE, TRUE, {"outage", "link", "crash"}, {"job"}),
  W(Plain, Alone, TRUE, TRUE, {"cancel", "link"}, {"job"}),
  W(Plain, Two, TRUE, FALSE, {}, {"job"}),
  NoScope
}

MCInit ==
  /\ FoldInit /\ RegistryInit
  /\ part \in {"fold", "registry"}
  /\ (world = NoScope) = (part = "registry")
  /\ part = "fold" => disk = {}

MCNext ==
  /\ \/ part = "fold" /\ FoldNext /\ UNCHANGED registryVars
     \/ part = "registry" /\ RegistryNext /\ UNCHANGED vars
  /\ UNCHANGED part

MCSpec == MCInit /\ [][MCNext]_<<vars, registryVars, part>> /\ FoldFairness /\ RegistryFairness
=============================================================================
