-------------------------- MODULE PeerExchangeLive --------------------------
(***************************************************************************)
(* Progress of the peer exchange when connections break, handlers fail and *)
(* daemons restart only finitely often.  faults counts these steps.        *)
(***************************************************************************)
EXTENDS PeerExchange

CONSTANT MaxFaults   \* bound: number of faults

VARIABLE faults

ASSUME FaultsAssumption == MaxFaults \in Nat

liveVars == <<vars, faults>>

LiveInit == Init /\ faults = 0

LiveNext ==
    \/ /\ \E n \in Nodes :
            LocalAdmission(n) \/ Exchange(n) \/ \E s \in Slots : Handle(n, s)
       /\ UNCHANGED <<world, faults>>
    \/ /\ faults < MaxFaults
       /\ \E n \in Nodes : Fault(n)
       /\ faults' = faults + 1
       /\ UNCHANGED world

\* The worker of a running daemon is driven by a ticker, and the goroutine of a
\* connection runs until it returns.  Nothing obliges an Agent to act.
LiveFairness ==
    \A n \in Nodes :
        /\ WF_liveVars(Exchange(n) /\ UNCHANGED <<world, faults>>)
        /\ \A s \in Slots : WF_liveVars(Handle(n, s) /\ UNCHANGED <<world, faults>>)

LiveSpec == LiveInit /\ [][LiveNext]_liveVars /\ LiveFairness

\* While no route is revoked and no clock runs out, every pending delivery is
\* settled with a receipt at last: a lost response, an abandoned handler or a
\* restart at either end is made up for by the worker's next poll.
EventuallySettled ==
    \A d \in Ids : outbox[d] = "pending" ~> outbox[d] \in {"accepted", "rejected"}
=============================================================================
