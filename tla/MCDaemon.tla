------------------------------ MODULE MCDaemon ------------------------------
(***************************************************************************)
(* Progress of the daemon, for TLC: the exchange of two daemons that serve *)
(* (PeerExchangeLive), or daemons that are started, joined and stopped     *)
(* (Runtime).  The part that is not chosen stays as it began, where none   *)
(* of its fair actions is enabled.                                         *)
(***************************************************************************)
EXTENDS PeerExchangeLive, Runtime

CONSTANTS n1, n2, s1

VARIABLE part

\* A delivery with an Artifact to pull, or a request and its reply.
MCWorlds ==
    {[events |-> {"loss", "abort", "restart"}, artifacts |-> IF size = 1 THEN {1} ELSE {},
      deliveries |-> size, handlers |-> 1, misaddressed |-> {}] : size \in 1..2}

MCInit ==
    /\ LiveInit /\ RInit
    /\ part \in {"exchange", "lifecycle"}
    /\ part = "lifecycle" => world.deliveries = 1

MCNext ==
    /\ \/ part = "exchange" /\ LiveNext /\ UNCHANGED rvars
       \/ part = "lifecycle" /\ RNext /\ UNCHANGED liveVars
    /\ UNCHANGED part

MCSpec == MCInit /\ [][MCNext]_<<liveVars, rvars, part>> /\ LiveFairness /\ RFair
=============================================================================
