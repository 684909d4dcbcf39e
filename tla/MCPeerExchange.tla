--------------------------- MODULE MCPeerExchange ---------------------------
(***************************************************************************)
(* The instance of PeerExchange for TLC.                                   *)
(***************************************************************************)
EXTENDS PeerExchangeProperties, TLC

CONSTANTS n1, n2, s1, s2

Quiet == [events |-> {}, artifacts |-> {}, deliveries |-> 3, handlers |-> 1,
          misaddressed |-> {}]

\* One delivery with an Artifact, two handlers at each node and every fault; a
\* request and its reply, or two requests, under restarts, revocation and
\* expiry; chains of three deliveries.
MCWorlds ==
    {[events |-> {"loss", "abort", "restart", "revoke", "expire"}, artifacts |-> {1},
      deliveries |-> 1, handlers |-> 2, misaddressed |-> m] : m \in {{n1}, {n2}}}
    \cup {[Quiet EXCEPT !.events = e, !.deliveries = 2] :
            e \in {{"revoke", "expire"}, {"restart", "revoke"}, {"restart", "expire"}}}
    \cup {Quiet}

Symmetries == Permutations(Nodes) \cup Permutations(Slots)
=============================================================================
