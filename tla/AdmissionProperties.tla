------------------------- MODULE AdmissionProperties -------------------------
(***************************************************************************)
(* What admission promises.                                                *)
(***************************************************************************)
EXTENDS Admission

\* The ledger, the Events and the answers tell the same story.  An Event is
\* the effect of exactly one operation, whose Receipt names it and carries the
\* request it was made from, and a rejected operation has no Event: two calls
\* with the same key may both pass their preflight, only one may have an
\* effect.  Whatever a call answered is the durable Receipt of its key, also
\* when the answer is a replay, comes from a concurrent call or is followed by
\* retries; a conflict is answered only when the key belongs to another
\* request (operationReplayTx, commitAdmission).
OneEventPerOperation ==
    /\ \A e \in 1..Len(events) :
        ops[events[e].op] =
            [outcome |-> "accepted", req |-> events[e].req, event |-> e]
    /\ \A o \in Ops : ops[o].outcome = "accepted" =>
        ops[o].event \in 1..Len(events) /\ events[ops[o].event].op = o
    /\ \A c \in Calls : calls[c].phase = "done" =>
        LET call == calls[c]
        IN IF call.answer = Conflict
           THEN ops[call.op] # NoReceipt /\ ops[call.op].req # call.req
           ELSE ops[call.op] = call.answer /\ call.answer.req = call.req

Lineage(k) ==
    {e \in 1..Len(events) :
        events[e].req.cons \in ReferenceEvents /\ events[e].req.key = k}

\* The lineage of a Reference (table reference_lineage) is one chain: every
\* Event in it names the one before as its expected head, the first names
\* none, the head is the last, and nothing but a supersede follows a retract.
\* A Reference cited by an Event was the head of its lineage when the Event
\* was accepted: no successor of the cited head came between.  Views are
\* frozen, so several Intents may expect, or cite, the same head.
LineageIsAChain ==
    \A k \in Keys :
        /\ \A e \in Lineage(k) :
            LET before == {d \in Lineage(k) : d < e}
                prior == events[e].req.exp
            IN /\ events[e].req.cons = "publish" <=> before = {}
               /\ before # {} => prior \in before /\ \A d \in before : d <= prior
               /\ events[e].req.cons = "retract" => events[prior].req.cons # "retract"
        /\ IF Lineage(k) = {}
           THEN refs[k].state = "absent" /\ refs[k].head = 0
           ELSE /\ refs[k].head \in Lineage(k)
                /\ \A e \in Lineage(k) : e <= refs[k].head
                /\ refs[k].state =
                    IF events[refs[k].head].req.cons = "retract"
                    THEN "retracted" ELSE "active"
        /\ \A e \in 1..Len(events) :
            LET cited == events[e].req.cite
            IN cited # 0 /\ events[cited].req.key = k =>
                /\ cited < e
                /\ cited \in Lineage(k)
                /\ ~\E d \in Lineage(k) : cited < d /\ d < e

\* What ArtifactVerifier says of the Artifacts of an accepted Intent: the exact
\* object was read and "hashed to digest during this admission attempt; catalog
\* presence alone is never sufficient".  A commit that is about to accept an
\* Intent with an Artifact has had the bytes hashed.  It has not, when something
\* stood against the request during the preflight, which then returns nothing
\* to hash, and was gone at the commit.
PinnedBytesWereHashed ==
    \A c \in Calls :
        /\ calls[c].phase = "verified"
        /\ calls[c].req.art # NoArt
        /\ ops[calls[c].op] = NoReceipt
        /\ Admissible(calls[c])
        => calls[c].checks
=============================================================================
