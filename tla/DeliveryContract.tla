-------------------------- MODULE DeliveryContract --------------------------
(***************************************************************************)
(* What the peer exchange promises for each delivery: the receiver decides *)
(* at most once, and what the sender learns is that decision.  The sender  *)
(* may give up, before or after the decision, and then knows nothing.      *)
(***************************************************************************)
CONSTANT Ids

VARIABLES
    sender,    \* what the sender knows: none, pending, accepted, rejected, expired
    receiver   \* what the receiver decided: open, accepted, rejected, expired

Outcomes == {"accepted", "rejected"}

Init ==
    /\ sender = [d \in Ids |-> "none"]
    /\ receiver = [d \in Ids |-> "open"]

Post(d) ==
    /\ sender[d] = "none"
    /\ sender' = [sender EXCEPT ![d] = "pending"]
    /\ UNCHANGED receiver

Decide(d) ==
    /\ sender[d] # "none"
    /\ receiver[d] = "open"
    /\ \E o \in Outcomes : receiver' = [receiver EXCEPT ![d] = o]
    /\ UNCHANGED sender

Learn(d) ==
    /\ sender[d] = "pending"
    /\ receiver[d] \in Outcomes
    /\ sender' = [sender EXCEPT ![d] = receiver[d]]
    /\ UNCHANGED receiver

\* Either end may let several deliveries expire at once.
GiveUp(ids) ==
    /\ \A d \in ids : sender[d] = "pending"
    /\ sender' = [d \in Ids |-> IF d \in ids THEN "expired" ELSE sender[d]]
    /\ UNCHANGED receiver

Ignore(ids) ==
    /\ \A d \in ids : sender[d] # "none" /\ receiver[d] = "open"
    /\ receiver' = [d \in Ids |-> IF d \in ids THEN "expired" ELSE receiver[d]]
    /\ UNCHANGED sender

\* Staging a delivery may decide it and let older ones expire in one step.
DecideAndIgnore(d, ids) ==
    /\ \A e \in ids \cup {d} : sender[e] # "none" /\ receiver[e] = "open"
    /\ \E o \in Outcomes :
        receiver' = [e \in Ids |-> IF e = d THEN o
                                   ELSE IF e \in ids THEN "expired" ELSE receiver[e]]
    /\ UNCHANGED sender

Next ==
    \/ \E d \in Ids : Post(d) \/ Decide(d) \/ Learn(d)
    \/ \E ids \in SUBSET Ids : GiveUp(ids) \/ Ignore(ids)
    \/ \E d \in Ids, ids \in SUBSET Ids : DecideAndIgnore(d, ids)

Spec == Init /\ [][Next]_<<sender, receiver>>
=============================================================================
