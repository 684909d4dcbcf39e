------------------------------ MODULE Admission ------------------------------
(***************************************************************************)
(* Admission of local Intents (internal/agency/authority): the operation   *)
(* ledger with its exact replay, the References with their compare-and-    *)
(* swap heads, Artifact verification outside the lock, and the capacity of *)
(* the peer outbox.                                                        *)
(*                                                                         *)
(* Store.Admit is not one transaction.  It is a preflight transaction,     *)
(* reading and hashing of Artifact bytes with no lock held, and a commit   *)
(* transaction that validates everything again; any other call may run     *)
(* between two of these steps, and the call may be cancelled after each.   *)
(*                                                                         *)
(* One attachment of one Principal is modelled.  Which Handling is claimed *)
(* and how claims end is the subject of Claims; here open Handlings are    *)
(* counted and a claim is known by its fence.                              *)
(***************************************************************************)
EXTENDS Integers, FiniteSets, Sequences

CONSTANTS
    Calls,          \* concurrent Admit calls
    Ops,            \* operation keys
    Keys,           \* Reference keys
    Arts,           \* Artifact digests
    NoKey,          \* no Reference named
    NoArt,          \* no Artifact named
    MaxReferences,  \* maxProjectedReferences
    MaxPending,     \* MaxPendingPeerDeliveries
    MaxOpen,        \* MaxOpenHandlingsPerPrincipal
    MaxFence,       \* bound: number of claims
    MaxEvents,      \* bound: number of local Events
    Worlds          \* bound: the corners of the state space that are explored

ASSUME NamesAssumption == NoKey \notin Keys /\ NoArt \notin Arts
ASSUME LimitsAssumption ==
    /\ MaxReferences \in Nat
    /\ MaxPending \in Nat
    /\ MaxOpen \in Nat
    /\ MaxFence \in Nat
    /\ MaxEvents \in Nat

Consequences ==
    {"create", "advance", "complete", "publish", "supersede", "retract"}

\* The Intent of an Agent, before any handle is resolved: cite names a
\* Reference whose head the Intent cites as provenance, remote says that a
\* peer alias is among the successors.
Shape ==
    [cons : Consequences, key : Keys \cup {NoKey}, cite : Keys \cup {NoKey},
     remote : BOOLEAN, art : Arts \cup {NoArt}]

\* A corner of the state space: the Intents the Agent writes, the operation
\* keys it uses, the steps others take, and the number of Events.
World ==
    [shapes : SUBSET Shape, ops : SUBSET Ops, events : 0..MaxEvents,
     steps : SUBSET {"end", "expire", "request", "settle", "revoke", "damage"}]

ASSUME WorldsAssumption == Worlds \subseteq World

VARIABLES
    ended,     \* attachments.ended_at is set
    expired,   \* the trusted clock has passed attachments.expires_at
    waiting,   \* open Handlings nobody has claimed
    claim,     \* fence of the claim the attachment holds, 0 for none
    fence,     \* fences granted so far
    route,     \* the peer route is active
    pending,   \* pending rows of peer_outbox
    refs,      \* table active_references
    events,    \* table events: the operation and request of each Event
    ops,       \* table operations: the Receipt of each operation key
    views,     \* table current_operations: the frozen Views
    catalog,   \* table verified_artifacts
    bytes,     \* the Artifact files
    calls,     \* the Admit calls in progress
    world      \* the corner explored, never changed

focus == <<ended, expired, waiting, claim, fence, views>>
peers == <<route, pending>>
files == <<catalog, bytes>>
ledger == <<refs, events, ops>>
vars == <<focus, peers, files, ledger, calls, world>>

Heads == 0..MaxEvents
Reference == [head : Heads, state : {"absent", "active", "retracted"}]

View == [subject : 0..MaxFence, route : BOOLEAN, refs : [Keys -> Reference]]

\* A BoundIntent.  exp is the expected Reference head, 0 when the key must be
\* absent; cite is the cited head, 0 for none; subject is 0 for none.
Request ==
    [view : View, cons : Consequences, key : Keys \cup {NoKey}, exp : Heads,
     cite : Heads, subject : 0..MaxFence, remote : BOOLEAN,
     art : Arts \cup {NoArt}]

NoReceipt == [outcome |-> "none"]
Conflict == [outcome |-> "conflict"]

ReferenceCount(r) == Cardinality({k \in Keys : r[k].state # "absent"})
OpenCount == waiting + (IF claim = 0 THEN 0 ELSE 1)

(***************************************************************************)
(* Binding an Intent to a frozen View                                      *)
(***************************************************************************)

\* projectedConsequences: what a View offers.  The count of References is the
\* count at the time of the View.
Offered(v, cons) ==
    CASE cons = "publish" -> ReferenceCount(v.refs) < MaxReferences
      [] cons = "create" -> v.subject = 0
      [] cons \in {"advance", "complete"} -> v.subject # 0
      [] cons = "supersede" -> ReferenceCount(v.refs) > 0
      [] cons = "retract" -> \E k \in Keys : v.refs[k].state = "active"

\* The Intent has the shape of its consequence (validateIntentShape).
WellShaped(s) ==
    CASE s.cons = "create" -> s.key = NoKey
      [] s.cons \in {"advance", "complete"} -> s.key = NoKey
      [] s.cons \in {"publish", "supersede"} ->
            s.key # NoKey /\ ~s.remote /\ s.art # NoArt
      [] s.cons = "retract" -> s.key # NoKey /\ ~s.remote /\ s.art = NoArt

\* bindIntent: every handle must have been offered by the View.  A remote
\* successor of a root comes with a local one; a remote successor of a
\* completion would be an exact reply, which PeerExchange models.
Binds(v, s) ==
    /\ WellShaped(s)
    /\ Offered(v, s.cons)
    /\ s.cons \in {"supersede", "retract"} => v.refs[s.key].state # "absent"
    /\ s.cite # NoKey => v.refs[s.cite].state # "absent"
    /\ s.remote => v.route /\ s.cons # "complete"

BindIntent(v, s) ==
    [view |-> v, cons |-> s.cons, key |-> s.key,
     exp |-> IF s.cons \in {"supersede", "retract"} THEN v.refs[s.key].head ELSE 0,
     cite |-> IF s.cite = NoKey THEN 0 ELSE v.refs[s.cite].head,
     subject |-> IF s.cons \in {"advance", "complete"} THEN v.subject ELSE 0,
     remote |-> s.remote, art |-> s.art]

(***************************************************************************)
(* Validation against the mutable tables                                   *)
(***************************************************************************)

ReferenceEvents == {"publish", "supersede", "retract"}

\* Mutant: supersede and retract do not compare the head.
ExpectationWithoutHead(r) ==
    CASE r.cons = "publish" -> refs[r.key].state = "absent"
      [] r.cons = "supersede" -> refs[r.key].state # "absent"
      [] r.cons = "retract" -> refs[r.key].state = "active"
      [] OTHER -> TRUE

\* validateReferenceExpectationTx
ReferenceExpectationHolds(r) ==
    CASE r.cons = "publish" -> refs[r.key].state = "absent"
      [] r.cons = "supersede" ->
            refs[r.key].state # "absent" /\ refs[r.key].head = r.exp
      [] r.cons = "retract" ->
            refs[r.key].state = "active" /\ refs[r.key].head = r.exp
      [] OTHER -> TRUE

\* validateReferenceCitationsTx: a cited Event that belongs to the lineage of
\* a Reference must still be its head.
ReferenceCitationsHold(r) ==
    r.cite # 0 => refs[events[r.cite].req.key].head = r.cite

\* validateBoundSubject and rejectIfClaimableTx.  The claim lives as long as
\* the attachment, so its expiry is the expiry of the attachment.
SubjectHolds(r) == r.subject # 0 => claim = r.subject
NothingClaimable == claim = 0 => waiting = 0

\* validateTargetsTx and validatePeerDeliveryCapacityTx
RouteHolds(r) == r.remote => route /\ pending + 1 <= MaxPending

\* validateHandlingBoundTx: a root adds one open Handling; an advance or a
\* completion without local successor adds none.
HandlingBoundHolds(r) == r.cons = "create" => OpenCount + 1 <= MaxOpen

\* validateMutableAuthorityTx
Authorized(r) ==
    /\ r.view \in views
    /\ RouteHolds(r)
    /\ SubjectHolds(r)
    /\ NothingClaimable
    /\ ReferenceExpectationHolds(r)
    /\ ReferenceCitationsHold(r)
    /\ HandlingBoundHolds(r)
    /\ r.cons = "complete" => r.art # NoArt

Catalogued(r) == r.art = NoArt \/ r.art \in catalog

(***************************************************************************)
(* Admit                                                                   *)
(***************************************************************************)

Idle == [phase |-> "idle"]

\* live is the clock reading of the step to come: taken before the lock, it
\* may be older than the transaction it is used in.
Call(phase, o, r, live, checks, failed) ==
    [phase |-> phase, op |-> o, req |-> r, live |-> live, checks |-> checks,
     failed |-> failed]

Answered(o, r, answer) ==
    [phase |-> "done", op |-> o, req |-> r, answer |-> answer]

\* The service replays the View and binds the Intent; Admit then reads the
\* clock for its preflight.
Submit(c, o) ==
    /\ calls[c].phase \in {"idle", "done"}
    /\ \E v \in views, s \in world.shapes :
        /\ Binds(v, s)
        /\ calls' = [calls EXCEPT ![c] =
                Call("begun", o, BindIntent(v, s), ~expired, FALSE, FALSE)]
    /\ UNCHANGED <<focus, peers, files, ledger>>

\* operationReplayTx
Replay(o, r) ==
    IF ops[o].req = r THEN ops[o] ELSE Conflict

\* preflightAdmission: no effect.  Only when nothing stands against the
\* request does it return the Artifact to hash.
PreflightAdmission(c) ==
    LET o == calls[c].op
        r == calls[c].req
    IN /\ calls[c].phase = "begun"
       /\ calls' = [calls EXCEPT ![c] =
            IF ops[o] # NoReceipt
            THEN Answered(o, r, Replay(o, r))
            ELSE Call("checked", o, r, FALSE,
                      /\ ~ended /\ calls[c].live
                      /\ Authorized(r)
                      /\ r.art # NoArt /\ Catalogued(r), FALSE)]
       /\ UNCHANGED <<focus, peers, files, ledger>>

\* verifyAdmissionArtifacts with no lock held, then the clock reading of the
\* commit.
VerifyAdmissionArtifacts(c) ==
    LET call == calls[c]
    IN /\ call.phase = "checked"
       /\ calls' = [calls EXCEPT ![c] =
            Call("verified", call.op, call.req, ~expired, call.checks,
                 call.checks /\ bytes[call.req.art] # "good")]
       /\ UNCHANGED <<focus, peers, files, ledger>>

\* freshAdmissionRejectionTx
Admissible(call) ==
    /\ ~ended /\ call.live
    /\ ~call.failed
    /\ Catalogued(call.req)
    /\ Authorized(call.req)

\* publishReferenceTx, supersedeReferenceTx, retractReferenceTx
ReferencesAfter(r, e) ==
    IF r.cons \in ReferenceEvents
    THEN [refs EXCEPT ![r.key] =
            [head |-> e, state |-> IF r.cons = "retract" THEN "retracted" ELSE "active"]]
    ELSE refs

\* applyDomainEffectTx on Handlings: an advance leaves the Handling open and
\* unclaimed, a completion ends it, a root opens one.
WaitingAfter(r) == IF r.cons \in {"create", "advance"} THEN waiting + 1 ELSE waiting

ClaimAfter(r) == IF r.cons \in {"advance", "complete"} THEN 0 ELSE claim

\* commitAcceptedAdmissionTx: Event, effect, outbox rows and Receipt in one
\* transaction.
Accept(c, o, r) ==
    LET e == Len(events) + 1
        receipt == [outcome |-> "accepted", req |-> r, event |-> e]
    IN /\ e <= world.events
       /\ events' = Append(events, [op |-> o, req |-> r])
       /\ refs' = ReferencesAfter(r, e)
       /\ waiting' = WaitingAfter(r)
       /\ claim' = ClaimAfter(r)
       /\ pending' = IF r.remote THEN pending + 1 ELSE pending
       /\ ops' = [ops EXCEPT ![o] = receipt]
       /\ calls' = [calls EXCEPT ![c] = Answered(o, r, receipt)]
       /\ UNCHANGED <<ended, expired, fence, views, route, files>>

\* Mutant: the Event row of a rejected operation is not rolled back.
RejectAfterEvent(c, o, r) ==
    LET receipt == [outcome |-> "rejected", req |-> r]
    IN /\ Len(events) < world.events
       /\ events' = Append(events, [op |-> o, req |-> r])
       /\ ops' = [ops EXCEPT ![o] = receipt]
       /\ calls' = [calls EXCEPT ![c] = Answered(o, r, receipt)]
       /\ UNCHANGED <<focus, peers, files, refs>>

\* persistRejectionTx: a rejection is a durable answer too.
Reject(c, o, r) ==
    LET receipt == [outcome |-> "rejected", req |-> r]
    IN /\ ops' = [ops EXCEPT ![o] = receipt]
       /\ calls' = [calls EXCEPT ![c] = Answered(o, r, receipt)]
       /\ UNCHANGED <<focus, peers, files, refs, events>>

\* commitAdmission
CommitAdmission(c) ==
    LET call == calls[c]
    IN /\ call.phase = "verified"
       /\ \/ /\ ops[call.op] # NoReceipt
             /\ calls' = [calls EXCEPT ![c] =
                    Answered(call.op, call.req, Replay(call.op, call.req))]
             /\ UNCHANGED <<focus, peers, files, ledger>>
          \/ /\ ops[call.op] = NoReceipt
             /\ Admissible(call)
             /\ Accept(c, call.op, call.req)
          \/ /\ ops[call.op] = NoReceipt
             /\ ~Admissible(call)
             /\ Reject(c, call.op, call.req)

\* The context of a call is cancelled, or the process restarts: nothing the
\* call did so far is durable.
Cancel(c) ==
    /\ calls[c].phase \in {"begun", "checked", "verified"}
    /\ calls' = [calls EXCEPT ![c] = Idle]
    /\ UNCHANGED <<focus, peers, files, ledger>>

(***************************************************************************)
(* The rest of the store, as far as admission sees it                      *)
(***************************************************************************)

\* Current: keep the claim or take a waiting Handling, then freeze the View.
\* More References or open Handlings than a View can show are an error.
Current ==
    LET taken == claim = 0 /\ waiting > 0
        granted == IF taken THEN fence + 1 ELSE claim
    IN /\ ~ended /\ ~expired
       /\ ReferenceCount(refs) <= MaxReferences
       /\ OpenCount <= MaxOpen
       /\ taken => fence < MaxFence
       /\ claim' = granted
       /\ fence' = IF taken THEN fence + 1 ELSE fence
       /\ waiting' = IF taken THEN waiting - 1 ELSE waiting
       /\ views' = views \cup {[subject |-> granted, route |-> route, refs |-> refs]}
       /\ UNCHANGED <<ended, expired, peers, files, ledger, calls>>

\* EndInteractiveAttachment, or a newer boundary replacing this one: the
\* claim is released in the same transaction.
EndAttachment ==
    /\ "end" \in world.steps
    /\ ~ended
    /\ ended' = TRUE
    /\ claim' = 0
    /\ waiting' = IF claim = 0 THEN waiting ELSE waiting + 1
    /\ UNCHANGED <<expired, fence, views, peers, files, ledger, calls>>

Expire ==
    /\ "expire" \in world.steps
    /\ ~expired
    /\ expired' = TRUE
    /\ UNCHANGED <<ended, waiting, claim, fence, views, peers, files, ledger, calls>>

\* AdmitPeerDelivery accepts a request of a peer: one more open Handling
\* (bound: at most MaxOpen of them wait).
PeerRequest ==
    /\ "request" \in world.steps
    /\ waiting < MaxOpen
    /\ waiting' = waiting + 1
    /\ UNCHANGED <<ended, expired, claim, fence, views, peers, files, ledger, calls>>

\* SettlePeerDelivery or the expiry of an outbox row.
OutboxRowEnds ==
    /\ "settle" \in world.steps
    /\ pending > 0
    /\ pending' = pending - 1
    /\ UNCHANGED <<route, focus, files, ledger, calls>>

\* RevokePeerRoute expires every pending row of the route.
RevokePeerRoute ==
    /\ "revoke" \in world.steps
    /\ route
    /\ route' = FALSE
    /\ pending' = 0
    /\ UNCHANGED <<focus, files, ledger, calls>>

\* artifact.Store.Put: an object that is there already must read back whole.
Put(a) ==
    /\ bytes[a] = "absent"
    /\ bytes' = [bytes EXCEPT ![a] = "good"]
    /\ UNCHANGED <<catalog, focus, peers, ledger, calls>>

\* localService.capture and pullAndCatalog catalogue the bytes they hold in
\* memory once Put or Read has succeeded, whatever became of the file since.
CatalogArtifact(a) ==
    /\ bytes[a] # "absent"
    /\ a \notin catalog
    /\ catalog' = catalog \cup {a}
    /\ UNCHANGED <<bytes, focus, peers, ledger, calls>>

\* The file system loses or damages an object.
Damage(a) ==
    /\ "damage" \in world.steps
    /\ bytes[a] = "good"
    /\ bytes' = [bytes EXCEPT ![a] = "bad"]
    /\ UNCHANGED <<catalog, focus, peers, ledger, calls>>

Init ==
    /\ ended = FALSE
    /\ expired = FALSE
    /\ waiting = 0
    /\ claim = 0
    /\ fence = 0
    /\ route = TRUE
    /\ pending = 0
    /\ refs = [k \in Keys |-> [head |-> 0, state |-> "absent"]]
    /\ events = <<>>
    /\ ops = [o \in Ops |-> NoReceipt]
    /\ views = {}
    /\ catalog = {}
    /\ bytes = [a \in Arts |-> "absent"]
    /\ calls = [c \in Calls |-> Idle]
    /\ world \in Worlds

Step ==
    \/ \E c \in Calls :
        \/ \E o \in world.ops : Submit(c, o)
        \/ PreflightAdmission(c)
        \/ VerifyAdmissionArtifacts(c)
        \/ CommitAdmission(c)
        \/ Cancel(c)
    \/ Current
    \/ EndAttachment
    \/ Expire
    \/ PeerRequest
    \/ OutboxRowEnds
    \/ RevokePeerRoute
    \/ \E a \in Arts : Put(a) \/ CatalogArtifact(a) \/ Damage(a)

Next == Step /\ UNCHANGED world

Spec == Init /\ [][Next]_vars
=============================================================================
