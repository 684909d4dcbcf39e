----------------------- MODULE PeerExchangeProperties -----------------------
(***************************************************************************)
(* What the peer exchange promises.                                        *)
(***************************************************************************)
EXTENDS PeerExchange

\* A delivery becomes at most one local Event of its receiver, exactly when
\* its inbox row is accepted, and is answered at most once, by the node that
\* accepted it: through retries, restarts and handlers that work on the same
\* delivery at once (commitPeerAdmission).
AtMostOnce ==
    /\ \A d \in Ids : imports[d] = IF inbox[d] = "accepted" THEN 1 ELSE 0
    /\ \A d \in Made : dlv[d].reply # 0 =>
        /\ inbox[dlv[d].reply] = "accepted"
        /\ dlv[dlv[d].reply].from = Peer(dlv[d].from)
        /\ \A r \in Made : dlv[r].reply = dlv[d].reply => r = d

\* The worker never meets the states that end it, and with it the whole
\* exchange: a pending row on a revoked route (parsePendingPeerDeliveryTx) or
\* a receipt that differs from the stored one (replayPeerSettlement).
WorkerSurvives ==
    \A n \in Nodes :
        /\ worker[n].phase # "failed"
        /\ n \notin route => Pending(n) = {}

\* The exchange implements the contract of a delivery.
Contract == INSTANCE DeliveryContract WITH
    sender <- outbox,
    receiver <- [d \in Ids |-> IF inbox[d] \in {"none", "staged"} THEN "open" ELSE inbox[d]]

\* Every step of workers, handlers and owners is a step of DeliveryContract:
\* nothing settled, rejected or expired is taken back at either end, after any
\* restart, and the sender learns only what the receiver decided.
Implements == Contract!Spec
=============================================================================
