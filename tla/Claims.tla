------------------------------- MODULE Claims -------------------------------
(***************************************************************************)
(* Attachments, Handlings and claim fences of the local authority store    *)
(* (internal/agency/authority).                                            *)
(*                                                                         *)
(* Every action is one SQLite transaction under Store.mu.  Identities are  *)
(* abstract: an attachment stands for the Host boundary it is derived from *)
(* (deriveAttachmentBegin), an Event is its origin sequence number, and a  *)
(* Handling is the sequence number of the Event that created it (one Event *)
(* creates at most one local Handling: successor targets are deduplicated  *)
(* and the only local target is the Principal itself).                     *)
(***************************************************************************)
EXTENDS Integers, FiniteSets

CONSTANTS
    Principals,        \* local Agent Principals
    Attachments,       \* attachment ids, one per Host boundary
    NoAttachment,      \* NULL in handlings.claim_attachment_id
    Owner,             \* the Principal an attachment id is derived for
    CurrentOps,        \* operation keys of Current calls
    Lifetime,          \* interactiveAttachmentLifetime
    MaxOpenHandlings,  \* MaxOpenHandlingsPerPrincipal
    MaxObservations,   \* MaxTerminalObservationsPerAnchor
    MaxTime,           \* bound: last instant of the trusted clock
    MaxEvents          \* bound: number of Events

ASSUME PrincipalsAssumption == Principals # {}
ASSUME AttachmentsAssumption == NoAttachment \notin Attachments
ASSUME OwnerAssumption == Owner \in [Attachments -> Principals]
ASSUME BoundsAssumption ==
    /\ Lifetime \in Nat \ {0}
    /\ MaxOpenHandlings \in Nat
    /\ MaxObservations \in Nat
    /\ MaxTime \in Nat
    /\ MaxEvents \in Nat

VARIABLES
    now,      \* the trusted clock
    att,      \* table attachments
    seq,      \* authority_clock.origin_sequence
    hnd,      \* table handlings
    events,   \* table events: the subject binding each Event carries
    disp,     \* table claim_dispositions
    views     \* table current_operations: the frozen Views

vars == <<now, att, seq, hnd, events, disp, views>>

Handlings == 1..MaxEvents

AttachmentRow ==
    [state : {"absent", "live", "ended"}, issued : Nat, expires : Nat]

HandlingRow ==
    [state : {"absent", "open", "terminal"}, owner : Principals, head : Nat,
     fence : Nat, holder : Attachments \cup {NoAttachment}, until : Nat,
     revision : Nat]

\* An Event without a subject has handling 0.
EventRow ==
    [seq : Nat, handling : Nat, fence : Nat, revision : Nat]

DispositionRow ==
    [handling : Handlings, fence : Nat, att : Attachments,
     kind : {"expiry", "boundary_end"}]

\* A View that claims nothing has handling 0.
ViewRow ==
    [att : Attachments, op : CurrentOps, handling : Nat, head : Nat,
     fence : Nat, revision : Nat]

Init ==
    /\ now = 0
    /\ att = [a \in Attachments |-> [state |-> "absent", issued |-> 0, expires |-> 0]]
    /\ seq = 0
    /\ hnd = [h \in Handlings |->
                [state |-> "absent", owner |-> CHOOSE p \in Principals : TRUE,
                 head |-> 0, fence |-> 0, holder |-> NoAttachment, until |-> 0,
                 revision |-> 0]]
    /\ events = {}
    /\ disp = {}
    /\ views = {}

-----------------------------------------------------------------------------
(* Attachment lifecycle. *)

\* "live" is ended_at IS NULL; the caller's clock decides about expiry.
requireLiveAttachment(a, t) == att[a].state = "live" /\ t < att[a].expires

\* The clock is read before the lock is taken: by the time a call runs, its
\* reading may be any instant since the caller got its proof.
Readings(a) == att[a].issued .. now

Unclaimed(row) == [row EXCEPT !.holder = NoAttachment, !.until = 0]

\* Mutant: the claim is freed and no disposition is recorded.
ReleaseClaimsSilently(B) ==
    /\ hnd' = [h \in Handlings |->
                 IF hnd[h].holder \in B THEN Unclaimed(hnd[h]) ELSE hnd[h]]
    /\ disp' = disp

\* settleClaimBoundaryEndTx, for every claim an attachment in B occupies.
ReleaseClaims(B) ==
    /\ hnd' = [h \in Handlings |->
                 IF hnd[h].holder \in B THEN Unclaimed(hnd[h]) ELSE hnd[h]]
    /\ disp' = disp \cup
                 {[handling |-> h, fence |-> hnd[h].fence, att |-> hnd[h].holder,
                   kind |-> "boundary_end"] : h \in {g \in Handlings : hnd[g].holder \in B}}

\* replaceLiveAttachmentTx ends these; the unique index on live attachments
\* keeps the set at one element at most (OneLiveBoundary).
Predecessors(a) ==
    {b \in Attachments : att[b].state = "live" /\ Owner[b] = Owner[a]}

IssueInteractiveAttachment(a) ==
    /\ att[a].state = "absent"
    /\ att' = [b \in Attachments |->
                 IF b = a
                 THEN [state |-> "live", issued |-> now, expires |-> now + Lifetime]
                 ELSE IF b \in Predecessors(a)
                 THEN [att[b] EXCEPT !.state = "ended"]
                 ELSE att[b]]
    /\ ReleaseClaims(Predecessors(a))
    /\ UNCHANGED <<now, seq, events, views>>

\* The replay of an ended boundary changes nothing and is not a step.
EndInteractiveAttachment(a) ==
    /\ att[a].state = "live"
    /\ att' = [att EXCEPT ![a].state = "ended"]
    /\ ReleaseClaims({a})
    /\ UNCHANGED <<now, seq, events, views>>

-----------------------------------------------------------------------------
(* Current: sweep expired claims, keep or take one claim, freeze a View. *)

Open(p) == {h \in Handlings : hnd[h].state = "open" /\ hnd[h].owner = p}

Expired(p, t) == {h \in Open(p) : hnd[h].holder # NoAttachment /\ hnd[h].until <= t}

Claimable(rows, p) == {h \in Open(p) : rows[h].holder = NoAttachment}

\* Mutant: ORDER BY created_sequence only.
OldestFirst(rows, p) ==
    {h \in Claimable(rows, p) : \A g \in Claimable(rows, p) : h <= g}

\* ORDER BY claim_fence, created_sequence LIMIT 1
LeastAttended(rows, p) ==
    {h \in Claimable(rows, p) :
        \A g \in Claimable(rows, p) :
            \/ rows[h].fence < rows[g].fence
            \/ rows[h].fence = rows[g].fence /\ h <= g}

ClaimView(a, k, h, row) ==
    [att |-> a, op |-> k, handling |-> h, head |-> row.head, fence |-> row.fence,
     revision |-> row.revision]

EmptyView(a, k) ==
    [att |-> a, op |-> k, handling |-> 0, head |-> 0, fence |-> 0, revision |-> 0]

ClaimedRow(row, a) ==
    [row EXCEPT !.holder = a, !.fence = row.fence + 1, !.until = att[a].expires]

claimNextTx(a, rows, h) == [rows EXCEPT ![h] = ClaimedRow(rows[h], a)]

\* Mutant: Current never finds the claim it already has.
NoExistingClaim(a, rows) == {h \in Open(Owner[a]) : rows[h].holder = a /\ FALSE}

existingClaimTx(a, rows) == {h \in Open(Owner[a]) : rows[h].holder = a}

\* settleExpiredClaimsTx at instant t; its limit of 16 claims per call exceeds
\* the one claim a Principal can have (OneLiveBoundary).
settleExpiredClaimsTx(p, t) ==
    [h \in Handlings |-> IF h \in Expired(p, t) THEN Unclaimed(hnd[h]) ELSE hnd[h]]

ExpiryDispositions(p, t) ==
    {[handling |-> h, fence |-> hnd[h].fence, att |-> hnd[h].holder,
      kind |-> "expiry"] : h \in Expired(p, t)}

\* loadOpenHeadsTx refuses to project more open Handlings than the bound, and
\* the whole call then rolls back.  An operation key that already froze a View
\* is a replay and changes nothing.
Current(a, k) ==
    /\ \A v \in views : ~(v.att = a /\ v.op = k)
    /\ Cardinality(Open(Owner[a])) <= MaxOpenHandlings
    /\ \E t \in Readings(a) :
         /\ requireLiveAttachment(a, t)
         /\ disp' = disp \cup ExpiryDispositions(Owner[a], t)
         /\ LET rows == settleExpiredClaimsTx(Owner[a], t)
                mine == existingClaimTx(a, rows)
            IN \/ \E h \in mine :
                    /\ hnd' = rows
                    /\ views' = views \cup {ClaimView(a, k, h, rows[h])}
               \/ /\ mine = {}
                  /\ \E h \in LeastAttended(rows, Owner[a]) :
                       /\ hnd' = claimNextTx(a, rows, h)
                       /\ views' = views \cup
                            {ClaimView(a, k, h, claimNextTx(a, rows, h)[h])}
               \/ /\ mine = {}
                  /\ Claimable(rows, Owner[a]) = {}
                  /\ hnd' = rows
                  /\ views' = views \cup {EmptyView(a, k)}
    /\ UNCHANGED <<now, att, seq, events>>

-----------------------------------------------------------------------------
(* Accepted admissions.  Each appends one Event (nextOriginSequenceTx,      *)
(* insertEventTx) and applies its domain effect (applyDomainEffectTx).      *)

NewHandling(p) ==
    [state |-> "open", owner |-> p, head |-> seq + 1, fence |-> 0,
     holder |-> NoAttachment, until |-> 0, revision |-> 0]

\* createSuccessorHandlingsTx: "self" says whether a local target is named.
createSuccessorHandlingsTx(rows, p, self) ==
    IF self THEN [rows EXCEPT ![seq + 1] = NewHandling(p)] ELSE rows

InsertEvent(h, fence, revision) ==
    /\ seq < MaxEvents
    /\ seq' = seq + 1
    /\ events' = events \cup {[seq |-> seq + 1, handling |-> h, fence |-> fence,
                               revision |-> revision]}

\* validateHandlingBoundTx
validateHandlingBoundTx(p, delta) ==
    delta > 0 => Cardinality(Open(p)) + delta <= MaxOpenHandlings

\* rejectIfClaimableTx, consulted only when the attachment has no claim.
NoPendingHandling(a) ==
    \/ \E h \in Open(Owner[a]) : hnd[h].holder = a
    \/ Claimable(hnd, Owner[a]) = {}

\* Mutant: the observation revision is not part of the read set.
SubjectWithoutRevision(v, t) ==
    \E h \in Open(Owner[v.att]) :
        /\ h = v.handling
        /\ hnd[h].holder = v.att
        /\ hnd[h].head = v.head
        /\ hnd[h].fence = v.fence
        /\ t < hnd[h].until

\* validateBoundSubject: the View's subject is still the attachment's claim.
validateBoundSubject(v, t) ==
    \E h \in Open(Owner[v.att]) :
        /\ h = v.handling
        /\ hnd[h].holder = v.att
        /\ hnd[h].head = v.head
        /\ hnd[h].fence = v.fence
        /\ hnd[h].revision = v.revision
        /\ t < hnd[h].until

SettledRow(row, state) ==
    [row EXCEPT !.head = seq + 1, !.state = state, !.holder = NoAttachment, !.until = 0]

\* settleSubjectTx
settleSubjectTx(h, state) ==
    [hnd EXCEPT ![h] = SettledRow(hnd[h], state)]

Delta(state, self) == (IF self THEN 1 ELSE 0) - (IF state = "terminal" THEN 1 ELSE 0)

\* advance_handling (state "open") and resolve_* (state "terminal").
AdmitSubject(v, state, self, t) ==
    /\ v.handling # 0
    /\ requireLiveAttachment(v.att, t)
    /\ validateBoundSubject(v, t)
    /\ validateHandlingBoundTx(Owner[v.att], Delta(state, self))
    /\ InsertEvent(v.handling, v.fence, v.revision)
    /\ hnd' = createSuccessorHandlingsTx(settleSubjectTx(v.handling, state),
                                         Owner[v.att], self)
    /\ UNCHANGED <<now, att, disp, views>>

\* create_handlings: offered by Views that claim nothing; a remote target
\* needs a local one beside it (requireLocalResponsibility).
AdmitRoot(v, t) ==
    /\ v.handling = 0
    /\ requireLiveAttachment(v.att, t)
    /\ NoPendingHandling(v.att)
    /\ validateHandlingBoundTx(Owner[v.att], 1)
    /\ InsertEvent(0, 0, 0)
    /\ hnd' = createSuccessorHandlingsTx(hnd, Owner[v.att], TRUE)
    /\ UNCHANGED <<now, att, disp, views>>

\* publish, supersede and retract touch no Handling.
AdmitReference(v, t) ==
    /\ requireLiveAttachment(v.att, t)
    /\ NoPendingHandling(v.att)
    /\ InsertEvent(0, 0, 0)
    /\ UNCHANGED <<now, att, hnd, disp, views>>

\* commitAcceptedPeerAdmissionTx for a request (decidePeerEffect: one local
\* Handling).  The Principal's open Handlings are not counted here.
AdmitPeerRequest(p) ==
    /\ InsertEvent(0, 0, 0)
    /\ hnd' = createSuccessorHandlingsTx(hnd, p, TRUE)
    /\ UNCHANGED <<now, att, disp, views>>

\* commitAcceptedPeerAdmissionTx for a terminal reply: an observe_* Event on an
\* open anchor (matchOpenTerminalReplyAnchorTx) raises its revision.
AdmitPeerReply(h) ==
    /\ hnd[h].state = "open"
    /\ hnd[h].revision < MaxObservations
    /\ InsertEvent(0, 0, 0)
    /\ hnd' = [hnd EXCEPT ![h] = [hnd[h] EXCEPT !.revision = hnd[h].revision + 1]]
    /\ UNCHANGED <<now, att, disp, views>>

Tick ==
    /\ now < MaxTime
    /\ now' = now + 1
    /\ UNCHANGED <<att, seq, hnd, events, disp, views>>

Next ==
    \/ Tick
    \/ \E a \in Attachments :
         \/ IssueInteractiveAttachment(a)
         \/ EndInteractiveAttachment(a)
         \/ \E k \in CurrentOps : Current(a, k)
    \/ \E v \in views : \E t \in Readings(v.att) :
         \/ \E state \in {"open", "terminal"}, self \in BOOLEAN :
              AdmitSubject(v, state, self, t)
         \/ AdmitRoot(v, t)
         \/ AdmitReference(v, t)
    \/ \E p \in Principals : AdmitPeerRequest(p)
    \/ \E h \in Handlings : AdmitPeerReply(h)

Spec == Init /\ [][Next]_vars
=============================================================================
