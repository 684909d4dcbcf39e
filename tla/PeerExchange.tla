---------------------------- MODULE PeerExchange ----------------------------
(***************************************************************************)
(* The exchange of signed deliveries between two nodes: the outbox, inbox  *)
(* and routes of internal/agency/authority, the exchange worker of         *)
(* internal/daemon and the connections of internal/agency/peerlink.        *)
(*                                                                         *)
(* Every node has one worker that offers pending deliveries to its peer,   *)
(* one connection at a time, and a bounded set of handlers for the         *)
(* connections of the peer.  A worker that gives up on a connection does   *)
(* not stop the handler at the other end, so two handlers may work on the  *)
(* same delivery.  Nodes restart at any point and keep only their store.   *)
(*                                                                         *)
(* A delivery is numbered in the order of creation, which stands for its   *)
(* content-derived identity; envelopes, keys and signatures are not        *)
(* modelled, because both ends are honest and enrolled.  Each node reads   *)
(* its own clock: past[n] holds the deliveries whose expiry has passed it. *)
(***************************************************************************)
EXTENDS Integers, FiniteSets

CONSTANTS
    Nodes,          \* the two peers
    Slots,          \* connection handlers of a node
    MaxPending,     \* MaxPendingPeerDeliveries
    MaxStaged,      \* MaxStagedPeerDeliveries
    MaxDepth,       \* MaxPeerCausalDepth
    MaxObservations, \* MaxTerminalObservationsPerAnchor
    BatchSize,      \* deliveries a worker takes per poll
    Worlds,         \* the circumstances that are explored
    MaxDeliveries   \* bound: number of deliveries

ASSUME NodesAssumption == IsFiniteSet(Nodes) /\ Cardinality(Nodes) = 2
ASSUME ExchangeAssumption ==
    /\ MaxPending \in Nat
    /\ MaxStaged \in Nat
    /\ MaxDepth \in Nat
    /\ MaxObservations \in Nat
    /\ BatchSize \in Nat \ {0}
    /\ MaxDeliveries \in Nat

\* What happens to the nodes besides their own steps, which deliveries carry an
\* Artifact, how many are made, how many handlers a node has (MaxHandlers), and
\* which nodes' routes expect another target alias.
World ==
    [events : SUBSET {"loss", "abort", "restart", "revoke", "expire"},
     artifacts : SUBSET (1..MaxDeliveries), deliveries : 0..MaxDeliveries,
     handlers : 1..Cardinality(Slots), misaddressed : SUBSET Nodes]

ASSUME WorldsAssumption == IsFiniteSet(Slots) /\ Worlds \subseteq World

VARIABLES
    world,    \* one of Worlds, chosen once
    made,     \* number of deliveries created so far
    dlv,      \* the signed envelopes
    outbox,   \* state and receipt of every row of peer_outbox, at its sender
    inbox,    \* state and receipt of every row of peer_inbox, at its receiver
    imports,  \* number of local Events made from a delivery by its receiver
    hnd,      \* table handlings, as far as deliveries refer to it
    route,    \* nodes whose route to the peer is active
    past,     \* deliveries that have expired by the clock of a node
    held,     \* deliveries whose Artifact is in the store of a node
    catalog,  \* deliveries whose Artifact is in verified_artifacts of a node
    worker,   \* the outbox worker of a node
    slot      \* the connection handlers of a node

store == <<made, dlv, outbox, inbox, imports, hnd>>
files == <<held, catalog>>
vars == <<world, store, route, past, files, worker, slot>>

Ids == 1..MaxDeliveries
Made == 1..made
Peer(n) == CHOOSE m \in Nodes : m # n

\* A Handling is named by the delivery it came with: the local responsibility
\* a request leaves open at its sender, or the one its receiver imports.
Handlings == {"root", "import"} \X Ids
NoHandling == <<"none", 0>>
Owner(h) == IF h[1] = "root" THEN dlv[h[2]].from ELSE Peer(dlv[h[2]].from)

\* reply is the delivery this one answers, 0 for a request; anchor is the
\* Handling at the sender that a reply will be matched with.
Delivery ==
    [from : Nodes, reply : 0..MaxDeliveries, anchor : Handlings \cup {NoHandling},
     art : BOOLEAN, depth : 1..MaxDepth]
NoDelivery == [from |-> "nobody"]

Handling == [state : {"none", "open", "closed"}, depth : 0..MaxDepth]

Pending(n) == {d \in Made : dlv[d].from = n /\ outbox[d] = "pending"}
Staged(n) == {d \in Made : dlv[d].from # n /\ inbox[d] = "staged"}

(***************************************************************************)
(* Local admission with a remote successor                                 *)
(***************************************************************************)

\* validateTargetsTx and validatePeerDeliveryCapacityTx
CanSend(n, depth) ==
    /\ made < world.deliveries
    /\ n \in route
    /\ depth < MaxDepth
    /\ Cardinality(Pending(n) \ past[n]) + 1 <= MaxPending

\* insertPeerDeliveriesTx
InsertDelivery(n, reply, anchor, depth) ==
    /\ made' = made + 1
    /\ dlv' = [dlv EXCEPT ![made + 1] =
            [from |-> n, reply |-> reply, anchor |-> anchor,
             art |-> made + 1 \in world.artifacts, depth |-> depth + 1]]
    /\ held' = [held EXCEPT ![n] = @ \cup ({made + 1} \cap world.artifacts)]
    /\ catalog' = [catalog EXCEPT ![n] = @ \cup ({made + 1} \cap world.artifacts)]
    /\ outbox' = [outbox EXCEPT ![made + 1] = "pending"]
    /\ UNCHANGED <<inbox, imports, route, past, worker, slot>>

OpenAt(n) == {h \in Handlings : hnd[h].state = "open" /\ h[2] \in Made /\ Owner(h) = n}

\* A root with a remote and a local successor: the local one is the anchor.
Request(n) ==
    /\ CanSend(n, 0)
    /\ hnd' = [hnd EXCEPT ![<<"root", made + 1>>] = [state |-> "open", depth |-> 0]]
    /\ InsertDelivery(n, 0, <<"root", made + 1>>, 0)

\* terminalObservationRevisionTx: the accepted replies of an anchor.
Observations(h) ==
    {r \in Made : /\ dlv[r].reply # 0 /\ inbox[r] = "accepted"
                  /\ dlv[dlv[r].reply].anchor = h}

\* deriveLocalEventCausalDepthTx: the head of the subject, and the observed
\* replies an Intent may cite.
CausalDepths(h) ==
    {hnd[h].depth} \cup
    {dlv[r].depth : r \in {r \in Observations(h) : dlv[r].depth > hnd[h].depth}}

\* advance_handling with a remote successor: the subject itself is the anchor.
Advance(n, h) ==
    \E depth \in CausalDepths(h) :
        /\ CanSend(n, depth)
        /\ hnd' = [hnd EXCEPT ![h].depth = depth]
        /\ InsertDelivery(n, 0, h, depth)

\* A terminal consequence with a local and a remote successor: the subject
\* ends and its local successor is the anchor.
HandOver(n, h) ==
    \E depth \in CausalDepths(h) :
        /\ CanSend(n, depth)
        /\ hnd' = [hnd EXCEPT ![h].state = "closed",
                              ![<<"root", made + 1>>] = [state |-> "open", depth |-> depth]]
        /\ InsertDelivery(n, 0, <<"root", made + 1>>, depth)

\* exactReply: the imported Handling ends, and its only successor is the peer
\* that asked.
Reply(n, h) ==
    /\ h[1] = "import"
    /\ CanSend(n, hnd[h].depth)
    /\ hnd' = [hnd EXCEPT ![h].state = "closed"]
    /\ InsertDelivery(n, h[2], NoHandling, hnd[h].depth)

\* A terminal consequence without remote successor.
Resolve(h) ==
    /\ hnd' = [hnd EXCEPT ![h].state = "closed"]
    /\ UNCHANGED <<made, dlv, outbox, inbox, imports, route, past, files, worker, slot>>

LocalAdmission(n) ==
    \/ Request(n)
    \/ \E h \in OpenAt(n) : Advance(n, h) \/ HandOver(n, h) \/ Reply(n, h) \/ Resolve(h)

(***************************************************************************)
(* The outbox worker                                                       *)
(***************************************************************************)

IdleWorker == [phase |-> "idle", todo |-> {}, at |-> 0, receipt |-> "none"]

\* The worker has dealt with one delivery of its batch and goes on.
Continue(w) ==
    [phase |-> IF w.todo = {} THEN "idle" ELSE "sending", todo |-> w.todo, at |-> 0,
     receipt |-> "none"]

Oldest(ids) == {d \in ids : Cardinality({e \in ids : e < d}) < BatchSize}
Least(ids) == CHOOSE d \in ids : \A e \in ids : d <= e

\* PendingPeerDeliveries: expire, then take the oldest.  A pending row on a
\* revoked route is an error, which ends the worker and with it the exchange.
Poll(n) ==
    LET late == Pending(n) \cap past[n]
        batch == Oldest(Pending(n) \ late)
    IN /\ worker[n].phase = "idle"
       /\ outbox' = [d \in Ids |-> IF d \in late THEN "expired" ELSE outbox[d]]
       /\ worker' = [worker EXCEPT ![n] =
            IF batch # {} /\ n \notin route
            THEN [IdleWorker EXCEPT !.phase = "failed"]
            ELSE Continue([IdleWorker EXCEPT !.todo = batch])]
       /\ UNCHANGED <<made, dlv, inbox, imports, hnd, route, past, files, slot>>

Free == [phase |-> "free", id |-> 0, client |-> FALSE, result |-> "none"]

Busy(n) == Cardinality({s \in Slots : slot[n][s] # Free}) >= world.handlers

\* SendDelivery, up to the frame that reaches a handler of the peer.
Send(n) ==
    LET d == Least(worker[n].todo)
    IN /\ worker[n].phase = "sending"
       /\ ~Busy(Peer(n))
       /\ \E s \in Slots :
            /\ slot[Peer(n)][s] = Free
            /\ slot' = [slot EXCEPT ![Peer(n)][s] =
                    [phase |-> "offered", id |-> d, client |-> TRUE, result |-> "none"]]
       /\ worker' = [worker EXCEPT ![n] =
            [phase |-> "waiting", todo |-> @.todo \ {d}, at |-> d, receipt |-> "none"]]
       /\ UNCHANGED <<store, route, past, files>>

\* No connection: the worker goes on with the next delivery.
Skip(n) == LET todo == worker[n].todo IN
    /\ worker[n].phase = "sending"
    /\ worker' = [worker EXCEPT ![n] = Continue([@ EXCEPT !.todo = todo \ {Least(todo)}])]
    /\ UNCHANGED <<store, route, past, files, slot>>

\* The handlers of the peer are all busy.
SendRefused(n) == Skip(n) /\ Busy(Peer(n))

\* The peer is down or cannot be reached.
SendFails(n) == "loss" \in world.events /\ Skip(n)

\* The connection breaks or times out; the handler does not notice.
Abandoned(slots) == [s \in Slots |-> [slots[s] EXCEPT !.client = FALSE]]

Timeout(n) ==
    /\ "loss" \in world.events
    /\ worker[n].phase = "waiting"
    /\ worker' = [worker EXCEPT ![n] = Continue(@)]
    /\ slot' = [slot EXCEPT ![Peer(n)] = Abandoned(@)]
    /\ UNCHANGED <<store, route, past, files>>

\* Mutant: a late receipt settles a row that has expired.
SettleLate(n) ==
    LET d == worker[n].at
    IN /\ worker[n].phase = "answered"
       /\ outbox' = [outbox EXCEPT ![d] = worker[n].receipt]
       /\ worker' = [worker EXCEPT ![n] = Continue(@)]
       /\ UNCHANGED <<made, dlv, inbox, imports, hnd, route, past, files, slot>>

\* SettlePeerDelivery.  A row that is no longer pending, a revoked route and a
\* passed expiry are ErrPeerDeliveryExpired, which the worker skips; a second
\* and different receipt would be a conflict, which ends it.
Settle(n) ==
    LET d == worker[n].at
        receipt == worker[n].receipt
        settled == outbox[d] \in {"accepted", "rejected"}
        fresh == outbox[d] = "pending" /\ n \in route /\ d \notin past[n]
    IN /\ worker[n].phase = "answered"
       /\ outbox' = IF fresh THEN [outbox EXCEPT ![d] = receipt] ELSE outbox
       /\ worker' = [worker EXCEPT ![n] =
            IF settled /\ outbox[d] # receipt
            THEN [IdleWorker EXCEPT !.phase = "failed"]
            ELSE Continue(@)]
       /\ UNCHANGED <<made, dlv, inbox, imports, hnd, route, past, files, slot>>

(***************************************************************************)
(* A connection handler                                                    *)
(***************************************************************************)

\* The inbox result as a response: a receipt, or a transport ACK.
Response(state) == IF state \in {"accepted", "rejected"} THEN state ELSE "ack"

Answering(sl, state) == [sl EXCEPT !.phase = "reply", !.result = Response(state)]

\* A staged delivery goes on to its Artifact, or straight to admission.
Admitting(sl) ==
    [sl EXCEPT !.phase = IF dlv[sl.id].art THEN "staged" ELSE "catalogued"]

\* The handler fails and closes its connection.
Close(n, s) ==
    /\ slot' = [slot EXCEPT ![n][s] = Free]
    /\ worker' =
        IF slot[n][s].client
        THEN [worker EXCEPT ![Peer(n)] = Continue(@)]
        ELSE worker

\* expirePeerInboxRowsTx on the rows of node n
ExpireStaged(n) ==
    [d \in Ids |-> IF d \in Staged(n) \cap past[n] THEN "expired" ELSE inbox[d]]

\* The outcome of stageFreshPeerDeliveryTx for a delivery with room.
FreshRow(n, d) ==
    IF n \in world.misaddressed THEN "rejected" ELSE IF d \in past[n] THEN "expired" ELSE "staged"

\* StagePeerDelivery of a delivery the inbox does not have yet.
StageFresh(n, s) ==
    LET d == slot[n][s].id
        rows == ExpireStaged(n)
        row == FreshRow(n, d)
    IN /\ slot[n][s].phase = "offered" /\ inbox[d] = "none"
       /\ n \in route
       /\ Cardinality(Staged(n) \ past[n]) < MaxStaged
       /\ inbox' = [rows EXCEPT ![d] = row]
       /\ slot' = [slot EXCEPT ![n][s] =
            IF row = "staged" THEN Admitting(@) ELSE Answering(@, row)]
       /\ UNCHANGED <<made, dlv, outbox, imports, hnd, route, past, files, worker>>

\* StagePeerDelivery fails: the route is revoked or the inbox is full.  The
\* transaction is rolled back, and with it the expiry of other rows.
StageRefused(n, s) ==
    /\ slot[n][s].phase = "offered" /\ inbox[slot[n][s].id] = "none"
    /\ n \notin route \/ Cardinality(Staged(n) \ past[n]) >= MaxStaged
    /\ Close(n, s)
    /\ UNCHANGED <<store, route, past, files>>

\* Mutant: a staged row is answered instead of being admitted.
StageReplayAnswers(n, s) ==
    LET d == slot[n][s].id
    IN /\ slot[n][s].phase = "offered" /\ inbox[d] # "none"
       /\ slot' = [slot EXCEPT ![n][s] = Answering(@, inbox[d])]
       /\ UNCHANGED <<store, route, past, files, worker>>

\* replayPeerInboxTx
StageReplay(n, s) ==
    LET d == slot[n][s].id
        row == IF inbox[d] = "staged" /\ d \in past[n] THEN "expired" ELSE inbox[d]
    IN /\ slot[n][s].phase = "offered" /\ inbox[d] # "none"
       /\ inbox' = [inbox EXCEPT ![d] = row]
       /\ slot' = [slot EXCEPT ![n][s] =
            IF row = "staged" THEN Admitting(@) ELSE Answering(@, row)]
       /\ UNCHANGED <<made, dlv, outbox, imports, hnd, route, past, files, worker>>

\* AuthorizePeerArtifact at the sender
MayPull(d) ==
    LET n == dlv[d].from IN outbox[d] = "pending" /\ d \notin past[n] /\ n \in route

\* pullAndCatalog, first half: the object is here already, or is pulled over a
\* connection of its own.
Pull(n, s) ==
    LET d == slot[n][s].id
    IN /\ slot[n][s].phase = "staged"
       /\ d \in held[n] \/ MayPull(d)
       /\ held' = [held EXCEPT ![n] = @ \cup {d}]
       /\ slot' = [slot EXCEPT ![n][s].phase = "pulled"]
       /\ UNCHANGED <<store, route, past, catalog, worker>>

\* errRemoteArtifactUnavailable: the delivery stays staged.
PullUnavailable(n, s) ==
    /\ slot[n][s].phase = "staged"
    /\ slot[n][s].id \notin held[n]
    /\ slot' = [slot EXCEPT ![n][s] = Answering(@, "staged")]
    /\ UNCHANGED <<store, route, past, files, worker>>

PullRefused(n, s) == PullUnavailable(n, s) /\ ~MayPull(slot[n][s].id)

PullLost(n, s) == "loss" \in world.events /\ PullUnavailable(n, s)

\* pullAndCatalog, second half
CatalogArtifact(n, s) ==
    LET d == slot[n][s].id
    IN /\ slot[n][s].phase = "pulled"
       /\ catalog' = [catalog EXCEPT ![n] = @ \cup {d}]
       /\ slot' = [slot EXCEPT ![n][s].phase = "catalogued"]
       /\ UNCHANGED <<store, route, past, held, worker>>

\* preflightPeerAdmission
PreflightPeerAdmission(n, s) ==
    LET d == slot[n][s].id
        row == IF inbox[d] = "staged" /\ d \in past[n] THEN "expired" ELSE inbox[d]
        ready == row = "staged" /\ (dlv[d].art => d \in catalog[n])
    IN /\ slot[n][s].phase = "catalogued"
       /\ inbox' = [inbox EXCEPT ![d] = row]
       /\ slot' = [slot EXCEPT ![n][s] =
            IF ready THEN [@ EXCEPT !.phase = "checked"] ELSE Answering(@, row)]
       /\ UNCHANGED <<made, dlv, outbox, imports, hnd, route, past, files, worker>>

\* matchOpenTerminalReplyAnchorTx: the delivery answers an outbound delivery
\* of this node whose anchor is open, which has no accepted reply yet and whose
\* anchor has room for one more.  The roots agree because a reply copies the
\* root it was imported with.
MatchesOpenAnchor(n, d) ==
    LET asked == dlv[d].reply
    IN /\ dlv[asked].from = n
       /\ dlv[asked].anchor # NoHandling
       /\ hnd[dlv[asked].anchor].state = "open"
       /\ ~\E r \in Made : dlv[r].reply = asked /\ inbox[r] = "accepted"
       /\ Cardinality(Observations(dlv[asked].anchor)) < MaxObservations

\* Mutant: the commit does not see that another handler accepted the delivery.
DecisionUnchecked(n, d) ==
    IF inbox[d] \notin {"staged", "accepted"} THEN "replay"
    ELSE IF n \notin route /\ inbox[d] = "staged" THEN "rejected"
    ELSE IF d \in past[n] /\ inbox[d] = "staged" THEN "expired"
    ELSE IF dlv[d].reply # 0 /\ ~MatchesOpenAnchor(n, d) THEN "rejected"
    ELSE "accepted"

\* preparePeerAdmissionTx: what the commit makes of the row it finds.
Decision(n, d) ==
    IF inbox[d] # "staged" THEN "replay"
    ELSE IF n \notin route THEN "rejected"
    ELSE IF d \in past[n] THEN "expired"
    ELSE IF dlv[d].art /\ d \notin catalog[n] THEN "staged"
    ELSE IF dlv[d].reply # 0 /\ ~MatchesOpenAnchor(n, d) THEN "rejected"
    ELSE "accepted"

\* commitPeerAdmission: Event, imported Handling and inbox row together.
CommitPeerAdmission(n, s) ==
    LET d == slot[n][s].id
        decision == Decision(n, d)
        row == IF decision = "replay" THEN inbox[d] ELSE decision
    IN /\ slot[n][s].phase = "checked"
       /\ inbox' = [inbox EXCEPT ![d] = row]
       /\ imports' = IF decision = "accepted" THEN [imports EXCEPT ![d] = @ + 1] ELSE imports
       /\ hnd' = IF decision = "accepted" /\ dlv[d].reply = 0
                 THEN [hnd EXCEPT ![<<"import", d>>] =
                        [state |-> "open", depth |-> dlv[d].depth]]
                 ELSE hnd
       /\ slot' = [slot EXCEPT ![n][s] = Answering(@, row)]
       /\ UNCHANGED <<made, dlv, outbox, route, past, files, worker>>

\* The response reaches the worker, if it still waits.
Respond(n, s) ==
    LET sl == slot[n][s]
    IN /\ sl.phase = "reply"
       /\ slot' = [slot EXCEPT ![n][s] = Free]
       /\ worker' =
            IF ~sl.client THEN worker
            ELSE [worker EXCEPT ![Peer(n)] =
                    IF sl.result = "ack" THEN Continue(@)
                    ELSE [@ EXCEPT !.phase = "answered", !.receipt = sl.result]]
       /\ UNCHANGED <<store, route, past, files>>

\* The request context of a handler ends, or an Artifact does not verify.
HandlerFails(n, s) ==
    /\ "abort" \in world.events
    /\ slot[n][s].phase \notin {"free", "reply"}
    /\ Close(n, s)
    /\ UNCHANGED <<store, route, past, files>>

Handle(n, s) ==
    \/ StageFresh(n, s)
    \/ StageRefused(n, s)
    \/ StageReplay(n, s)
    \/ Pull(n, s)
    \/ PullRefused(n, s)
    \/ CatalogArtifact(n, s)
    \/ PreflightPeerAdmission(n, s)
    \/ CommitPeerAdmission(n, s)
    \/ Respond(n, s)

(***************************************************************************)
(* Owner, clock and crashes                                                *)
(***************************************************************************)

\* Mutant: revocation leaves the pending rows to the worker.
RevokeKeepsRows(n) ==
    /\ "revoke" \in world.events
    /\ n \in route
    /\ route' = route \ {n}
    /\ UNCHANGED <<store, past, files, worker, slot>>

RevokePeerRoute(n) ==
    /\ "revoke" \in world.events
    /\ n \in route
    /\ route' = route \ {n}
    /\ outbox' = [d \in Ids |-> IF d \in Pending(n) THEN "expired" ELSE outbox[d]]
    /\ UNCHANGED <<made, dlv, inbox, imports, hnd, past, files, worker, slot>>

\* Deliveries have the same lifetime, so they expire in order of creation.
ClockPasses(n, d) ==
    /\ "expire" \in world.events
    /\ d \notin past[n]
    /\ \A e \in Made : dlv[e].from = dlv[d].from /\ e < d => e \in past[n]
    /\ past' = [past EXCEPT ![n] = @ \cup {d}]
    /\ UNCHANGED <<store, route, files, worker, slot>>

\* The daemon of node n stops and starts again.
Restart(n) ==
    /\ "restart" \in world.events
    /\ worker' = [worker EXCEPT
        ![n] = IdleWorker,
        ![Peer(n)] = IF @.phase = "waiting" THEN Continue(@) ELSE @]
    /\ slot' = [slot EXCEPT ![n] = [s \in Slots |-> Free], ![Peer(n)] = Abandoned(@)]
    /\ UNCHANGED <<store, route, past, files>>

Init ==
    /\ world \in Worlds
    /\ made = 0
    /\ dlv = [d \in Ids |-> NoDelivery]
    /\ outbox = [d \in Ids |-> "none"]
    /\ inbox = [d \in Ids |-> "none"]
    /\ imports = [d \in Ids |-> 0]
    /\ hnd = [h \in Handlings |-> [state |-> "none", depth |-> 0]]
    /\ route = Nodes
    /\ past = [n \in Nodes |-> {}]
    /\ held = [n \in Nodes |-> {}]
    /\ catalog = [n \in Nodes |-> {}]
    /\ worker = [n \in Nodes |-> IdleWorker]
    /\ slot = [n \in Nodes |-> [s \in Slots |-> Free]]

Exchange(n) ==
    \/ Poll(n)
    \/ Send(n)
    \/ SendRefused(n)
    \/ Settle(n)

Fault(n) ==
    \/ SendFails(n)
    \/ Timeout(n)
    \/ Restart(n)
    \/ \E s \in Slots : HandlerFails(n, s) \/ PullLost(n, s)

Step ==
    \E n \in Nodes :
        \/ LocalAdmission(n)
        \/ Exchange(n)
        \/ \E s \in Slots : Handle(n, s)
        \/ Fault(n)
        \/ RevokePeerRoute(n)
        \/ \E d \in Made : ClockPasses(n, d)

Next == Step /\ UNCHANGED world

Spec == Init /\ [][Next]_vars
=============================================================================
