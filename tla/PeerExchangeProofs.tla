------------------------- MODULE PeerExchangeProofs -------------------------
(***************************************************************************)
(* That a delivery is imported at most once, that no worker meets a state  *)
(* that ends it, and that the exchange implements DeliveryContract, for    *)
(* any bounds, any number of handlers and every circumstance of World.     *)
(*                                                                         *)
(* The invariant has two halves.  Store is about the rows of the two       *)
(* authorities; Link ties what a handler is about to answer, and what a    *)
(* worker is about to settle, to the row the receiver has committed: that  *)
(* is why a late or repeated answer is never a different one.              *)
(***************************************************************************)
EXTENDS PeerExchangeProperties, FiniteSetTheorems, WellFoundedInduction, TLAPS

Receipts == {"accepted", "rejected"}

WorkerRow ==
    [phase : {"idle", "sending", "waiting", "answered", "failed"}, todo : SUBSET Ids,
     at : 0..MaxDeliveries, receipt : {"none"} \cup Receipts]

SlotRow ==
    [phase : {"free", "offered", "staged", "pulled", "catalogued", "checked", "reply"},
     id : 0..MaxDeliveries, client : BOOLEAN, result : {"none", "ack"} \cup Receipts]

StoreTypes ==
    /\ world \in World
    /\ made \in 0..MaxDeliveries
    /\ dlv \in [Ids -> Delivery \cup {NoDelivery}] /\ \A d \in Made : dlv[d] \in Delivery
    /\ outbox \in [Ids -> {"none", "pending", "expired"} \cup Receipts]
    /\ inbox \in [Ids -> {"none", "staged", "expired"} \cup Receipts]
    /\ imports \in [Ids -> Nat]
    /\ hnd \in [Handlings -> Handling]

\* The rows of the outbox and the inbox.
Rows ==
    /\ \A d \in Ids : outbox[d] # "none" <=> d \in Made
    /\ \A d \in Ids : inbox[d] # "none" => d \in Made
    /\ \A d \in Ids : outbox[d] \in Receipts => inbox[d] = outbox[d]
    /\ \A d \in Ids : imports[d] = IF inbox[d] = "accepted" THEN 1 ELSE 0
    /\ \A d \in Made : outbox[d] = "pending" => dlv[d].from \in route

\* Replies, and the imported Handlings that are still to be answered.
Answered ==
    /\ \A d \in Made : dlv[d].reply # 0 =>
        /\ dlv[d].reply \in Made /\ inbox[dlv[d].reply] = "accepted"
        /\ dlv[dlv[d].reply].from = Peer(dlv[d].from)
        /\ \A r \in Made : dlv[r].reply = dlv[d].reply => r = d
    /\ \A e \in Ids : hnd[<<"import", e>>].state # "none" => inbox[e] = "accepted"
    /\ \A e \in Ids : hnd[<<"import", e>>].state = "open" => \A r \in Made : dlv[r].reply # e

Store == StoreTypes /\ Rows /\ Answered

SlotHolds(n, s) ==
    /\ slot[n][s].phase # "free" => slot[n][s].id \in Made
    /\ slot[n][s].phase = "reply" => slot[n][s].result # "none"
    /\ slot[n][s].phase = "reply" /\ slot[n][s].result \in Receipts
         => inbox[slot[n][s].id] = slot[n][s].result
    /\ slot[n][s].client =>
         /\ slot[n][s].phase # "free"
         /\ worker[Peer(n)].phase = "waiting" /\ worker[Peer(n)].at = slot[n][s].id
         /\ \A t \in Slots : slot[n][t].client => t = s

WorkerHolds(n) ==
    /\ worker[n].phase # "failed"
    /\ worker[n].todo \subseteq Made
    /\ worker[n].phase = "sending" => worker[n].todo # {}
    /\ worker[n].phase \in {"waiting", "answered"} => worker[n].at \in Made
    /\ worker[n].phase = "answered" =>
         worker[n].receipt \in Receipts /\ inbox[worker[n].at] = worker[n].receipt

Link ==
    /\ worker \in [Nodes -> WorkerRow]
    /\ slot \in [Nodes -> [Slots -> SlotRow]]
    /\ \A n \in Nodes : WorkerHolds(n)
    /\ \A n \in Nodes, s \in Slots : SlotHolds(n, s)

EInv == Store /\ Link

(***************************************************************************)
(* The operators                                                           *)
(***************************************************************************)

LEMMA PeerIs ==
    ASSUME NEW n \in Nodes
    PROVE  /\ Peer(n) \in Nodes /\ Peer(n) # n /\ Peer(Peer(n)) = n
           /\ \A m \in Nodes : m = n \/ m = Peer(n)
  <1>1. IsFiniteSet(Nodes \ {n}) /\ Cardinality(Nodes \ {n}) = 1
    BY NodesAssumption, FS_RemoveElement
  <1>2. PICK m : Nodes \ {n} = {m}
    BY <1>1, FS_Singleton, Zenon
  <1>3. m \in Nodes /\ m # n /\ \A x \in Nodes : x = n \/ x = m
    BY <1>2, Zenon
  <1>4. Peer(n) = m
    BY <1>3, Zenon DEF Peer
  <1>5. Peer(m) = n
    BY <1>3, Zenon DEF Peer
  <1> QED
    BY <1>3, <1>4, <1>5, Zenon

LEMMA LeastIs == ASSUME NEW T, T \subseteq Nat, T # {} PROVE Least(T) \in T
  <1> DEFINE R == {ss \in Nat \X Nat : ss[1] < ss[2]}
  <1>1. R = OpToRel(<, Nat)
    BY Zenon DEF OpToRel
  <1>2. IsWellFoundedOn(R, Nat)
    BY <1>1, NatLessThanWellFounded, Zenon
  <1>3. PICK x \in T : \A y \in T : ~(<<y, x>> \in R)
    <2> HIDE DEF R
    <2> QED
      BY <1>2, WFMin, Zenon
  <1>4. ASSUME NEW y \in T PROVE x <= y
    <2>1. <<y, x>> \in Nat \X Nat /\ <<y, x>> \notin R
      BY <1>3, Zenon
    <2>2. ~(y < x)
      BY <2>1, Zenon
    <2> QED
      BY <2>2
  <1> QED
    BY <1>4, Zenon DEF Least

LEMMA MadeIds == ASSUME Store PROVE Made \subseteq Ids /\ Made \subseteq Nat /\ Ids \subseteq Nat
  BY ExchangeAssumption DEF Store, StoreTypes, Made, Ids

LEMMA FreeRow == Free \in SlotRow /\ Free.phase = "free" /\ Free.client = FALSE
  BY ExchangeAssumption DEF Free, SlotRow

LEMMA IdleRow ==
    /\ IdleWorker \in WorkerRow /\ IdleWorker.phase = "idle" /\ IdleWorker.todo = {}
  BY ExchangeAssumption DEF IdleWorker, WorkerRow

\* The worker goes on with the rest of its batch.
LEMMA ContinueRow ==
    ASSUME NEW w, w.todo \subseteq Ids
    PROVE  /\ Continue(w) \in WorkerRow /\ Continue(w).todo = w.todo
           /\ Continue(w).phase \in {"idle", "sending"}
           /\ Continue(w).phase = "sending" => w.todo # {}
  BY ExchangeAssumption DEF Continue, WorkerRow

LEMMA EInitInv == Init => EInv
  <1> SUFFICES ASSUME Init PROVE EInv
    BY Zenon
  <1>1. Made = {}
    BY DEF Init, Made
  <1>2. StoreTypes
    <2>1. [state |-> "none", depth |-> 0] \in Handling
      BY ExchangeAssumption DEF Handling
    <2> QED
      BY <1>1, <2>1, ExchangeAssumption, WorldsAssumption DEF Init, StoreTypes, Receipts
  <1>3. Rows
    BY <1>1, Zenon DEF Init, Rows, Receipts
  <1>4. \A e \in Ids : hnd[<<"import", e>>].state = "none"
    BY Zenon DEF Init, Handlings
  <1>5. Answered
    BY <1>1, <1>4, Zenon DEF Answered
  <1>6. \A n \in Nodes : worker[n] = IdleWorker /\ \A s \in Slots : slot[n][s] = Free
    BY Zenon DEF Init
  <1>7. Link
    <2>1. worker \in [Nodes -> WorkerRow] /\ slot \in [Nodes -> [Slots -> SlotRow]]
      BY FreeRow, IdleRow, Zenon DEF Init
    <2> QED
      BY <1>6, <2>1, FreeRow, IdleRow, Zenon DEF Link, WorkerHolds, SlotHolds
  <1> QED
    BY <1>2, <1>3, <1>5, <1>7, Zenon DEF EInv, Store

(***************************************************************************)
(* Local admission                                                         *)
(***************************************************************************)

\* Handlers and workers rely on deliveries staying made and decisions staying.
LEMMA LinkKept ==
    ASSUME Link, UNCHANGED <<worker, slot>>, Made \subseteq Made', Made \subseteq Ids,
           \A d \in Ids : inbox[d] \in Receipts => inbox'[d] = inbox[d]
    PROVE  Link'
  <1>1. \A n \in Nodes : WorkerHolds(n)'
    BY Zenon DEF Link, WorkerHolds
  <1>2. ASSUME NEW n \in Nodes, NEW s \in Slots PROVE SlotHolds(n, s)'
    <2>1. SlotHolds(n, s)
      BY Zenon DEF Link
    <2> QED
      BY <2>1, Zenon DEF SlotHolds
  <1> QED
    BY <1>1, <1>2, Zenon DEF Link

\* What InsertDelivery does, whichever Intent it belongs to.
LEMMA InsertInv ==
    ASSUME EInv, UNCHANGED world, NEW n \in Nodes,
           NEW reply \in 0..MaxDeliveries, NEW anchor \in Handlings \cup {NoHandling}, NEW depth \in Nat,
           CanSend(n, depth), InsertDelivery(n, reply, anchor, depth),
           hnd' \in [Handlings -> Handling],
           \A e \in Ids : hnd'[<<"import", e>>].state # "none" => hnd[<<"import", e>>].state # "none",
           \A e \in Ids : hnd'[<<"import", e>>].state = "open" => hnd[<<"import", e>>].state = "open" /\ e # reply,
           reply # 0 => /\ hnd[<<"import", reply>>].state = "open"
                        /\ reply \in Made /\ dlv[reply].from = Peer(n)
    PROVE  EInv'
  <1> DEFINE new == made + 1
             row == [from |-> n, reply |-> reply, anchor |-> anchor,
                     art |-> new \in world.artifacts, depth |-> depth + 1]
  <1>0. Store /\ Link /\ StoreTypes /\ Rows /\ Answered
    BY Zenon DEF EInv, Store
  <1>1. new \in Ids /\ new \notin Made /\ Made \subseteq Ids /\ Made' = Made \cup {new} /\ made' \in 0..MaxDeliveries
    <2>1. made \in Nat /\ made < MaxDeliveries
      BY <1>0, ExchangeAssumption DEF StoreTypes, CanSend, World
    <2> QED
      BY <2>1, ExchangeAssumption DEF InsertDelivery, Made, Ids
  <1>2. row \in Delivery
    BY ExchangeAssumption DEF CanSend, Delivery
  <1>3. /\ dlv' = [dlv EXCEPT ![new] = row] /\ outbox' = [outbox EXCEPT ![new] = "pending"]
        /\ UNCHANGED <<inbox, imports, route, worker, slot>>
    BY Zenon DEF InsertDelivery
  <1> HIDE DEF row, new
  <1>4. /\ dlv'[new] = row /\ \A d \in Made : dlv'[d] = dlv[d]
        /\ outbox'[new] = "pending" /\ \A d \in Ids \ {new} : outbox'[d] = outbox[d]
    BY <1>0, <1>1, <1>3, Zenon DEF StoreTypes
  <1>5. row.from = n /\ row.reply = reply /\ n \in route
    BY Zenon DEF row, CanSend
  <1>6. StoreTypes'
    <2>1. dlv' \in [Ids -> Delivery \cup {NoDelivery}]
      BY <1>0, <1>1, <1>2, <1>3, Zenon DEF StoreTypes
    <2>2. \A d \in Made' : dlv'[d] \in Delivery
      BY <1>0, <1>1, <1>2, <1>4, Zenon DEF StoreTypes
    <2>3. outbox' \in [Ids -> {"none", "pending", "expired"} \cup Receipts]
      BY <1>0, <1>1, <1>3, Zenon DEF StoreTypes
    <2>4. Ids' = Ids
      BY Zenon DEF Ids
    <2> QED
      BY <1>0, <1>1, <1>3, <2>1, <2>2, <2>3, <2>4, Zenon DEF StoreTypes
  <1>7. Rows'
    <2>1. \A d \in Ids : outbox'[d] # "none" <=> d \in Made'
      BY <1>0, <1>1, <1>4 DEF Rows
    <2>2. \A d \in Ids : inbox'[d] # "none" => d \in Made'
      BY <1>0, <1>1, <1>3, Zenon DEF Rows
    <2>3. \A d \in Ids : outbox'[d] \in Receipts => inbox'[d] = outbox'[d]
      BY <1>0, <1>3, <1>4, Zenon DEF Rows, Receipts
    <2>4. \A d \in Ids : imports'[d] = IF inbox'[d] = "accepted" THEN 1 ELSE 0
      BY <1>0, <1>3, Zenon DEF Rows
    <2>5. \A d \in Made' : outbox'[d] = "pending" => dlv'[d].from \in route'
      BY <1>0, <1>1, <1>3, <1>4, <1>5 DEF Rows
    <2> QED
      BY <2>1, <2>2, <2>3, <2>4, <2>5, Zenon DEF Rows
  <1>8. Answered'
    <2>1. reply # 0 => /\ inbox[reply] = "accepted" /\ reply \in Made
                       /\ \A r \in Made : dlv[r].reply # reply
      BY <1>0, <1>1, Zenon DEF Answered
    <2>2. ASSUME NEW d \in Made', dlv'[d].reply # 0
          PROVE  /\ dlv'[d].reply \in Made' /\ inbox'[dlv'[d].reply] = "accepted"
                 /\ dlv'[dlv'[d].reply].from = Peer(dlv'[d].from)
                 /\ \A r \in Made' : dlv'[r].reply = dlv'[d].reply => r = d
      <3>1. CASE d = new
        BY <1>1, <1>3, <1>4, <1>5, <2>1, <2>2, <3>1
      <3>2. CASE d # new
        <4>1. d \in Made /\ dlv'[d] = dlv[d] /\ dlv[d].reply # 0
          BY <1>1, <1>4, <2>2, <3>2, Zenon
        <4>2. /\ dlv[d].reply \in Made /\ inbox[dlv[d].reply] = "accepted"
              /\ dlv[dlv[d].reply].from = Peer(dlv[d].from)
              /\ \A r \in Made : dlv[r].reply = dlv[d].reply => r = d
          BY <1>0, <4>1, Zenon DEF Answered
        <4>3. reply # dlv[d].reply
          BY <2>1, <4>1, <4>2, Zenon
        <4> QED
          BY <1>1, <1>3, <1>4, <1>5, <4>1, <4>2, <4>3
      <3> QED
        BY <3>1, <3>2, Zenon
    <2>3. \A e \in Ids : hnd'[<<"import", e>>].state # "none" => inbox'[e] = "accepted"
      BY <1>0, <1>3, Zenon DEF Answered
    <2>4. \A e \in Ids : hnd'[<<"import", e>>].state = "open" => \A r \in Made' : dlv'[r].reply # e
      BY <1>0, <1>1, <1>4, <1>5 DEF Answered
    <2>5. Ids' = Ids
      BY Zenon DEF Ids
    <2> QED
      BY <2>2, <2>3, <2>4, <2>5, Zenon DEF Answered
  <1>9. Link'
    BY <1>0, <1>1, <1>3, LinkKept, Zenon
  <1> QED
    BY <1>6, <1>7, <1>8, <1>9, Zenon DEF EInv, Store

\* An open Handling of a node, and the depths its consequences may have.
LEMMA OpenHandling ==
    ASSUME EInv, NEW n \in Nodes, NEW h \in OpenAt(n)
    PROVE  /\ h \in Handlings /\ h = <<h[1], h[2]>> /\ h[2] \in Made /\ h[2] \in Ids
           /\ hnd[h].state = "open" /\ hnd[h] \in Handling /\ hnd[h].depth \in Nat
           /\ CausalDepths(h) \subseteq 0..MaxDepth
           /\ h[1] = "import" => Peer(dlv[h[2]].from) = n /\ dlv[h[2]].from \in Nodes
  <1>0. StoreTypes
    BY Zenon DEF EInv, Store
  <1>1. /\ h \in Handlings /\ h = <<h[1], h[2]>> /\ h[2] \in Made /\ h[2] \in Ids
        /\ hnd[h].state = "open" /\ hnd[h] \in Handling /\ Owner(h) = n
    BY <1>0 DEF OpenAt, Handlings, StoreTypes
  <1>2. hnd[h].depth \in 0..MaxDepth
    BY <1>1, Zenon DEF Handling
  <1>3. \A r \in Made : dlv[r].depth \in 0..MaxDepth /\ dlv[r].from \in Nodes
    BY <1>0, ExchangeAssumption DEF StoreTypes, Delivery
  <1>4. CausalDepths(h) \subseteq 0..MaxDepth
    BY <1>2, <1>3, Zenon DEF CausalDepths, Observations
  <1> QED
    BY <1>1, <1>2, <1>3, <1>4, ExchangeAssumption DEF Owner

LEMMA LocalInv == ASSUME EInv, UNCHANGED world, NEW n \in Nodes, LocalAdmission(n) PROVE EInv'
  <1> DEFINE root == <<"root", made + 1>>
  <1>0. Store /\ StoreTypes /\ Rows /\ Answered /\ Link /\ hnd \in [Handlings -> Handling]
    BY Zenon DEF EInv, Store, StoreTypes
  <1>1. ASSUME NEW k, CanSend(n, k) PROVE root \in Handlings /\ \A e \in Ids : root # <<"import", e>>
    BY <1>0, <1>1, ExchangeAssumption DEF StoreTypes, CanSend, World, Handlings, Ids
  <1>2. ASSUME NEW k \in 0..MaxDepth PROVE [state |-> "open", depth |-> k] \in Handling
    BY Zenon DEF Handling
  <1>3. 0 \in Nat /\ 0 \in 0..MaxDeliveries /\ 0 \in 0..MaxDepth /\ 0 \notin Ids
    BY ExchangeAssumption DEF Ids
  <1> HIDE DEF root
  <1>4. CASE Request(n)
    <2>1. /\ CanSend(n, 0) /\ InsertDelivery(n, 0, root, 0)
          /\ hnd' = [hnd EXCEPT ![root] = [state |-> "open", depth |-> 0]]
      BY <1>4, Zenon DEF Request, root
    <2>2. root \in Handlings /\ \A e \in Ids : root # <<"import", e>>
      BY <1>1, <2>1, Zenon
    <2>3. hnd' \in [Handlings -> Handling]
      BY <1>0, <1>2, <1>3, <2>1, <2>2, Zenon
    <2>4. \A e \in Ids : hnd'[<<"import", e>>] = hnd[<<"import", e>>] /\ e # 0
      BY <1>0, <1>3, <2>1, <2>2, Zenon DEF Handlings
    <2> QED
      BY <1>3, <2>1, <2>2, <2>3, <2>4, InsertInv, Zenon
  <1>5. ASSUME NEW h \in OpenAt(n), Advance(n, h) PROVE EInv'
    <2>1. PICK k \in CausalDepths(h) : /\ CanSend(n, k) /\ InsertDelivery(n, 0, h, k)
                                       /\ hnd' = [hnd EXCEPT ![h].depth = k]
      BY <1>5, Zenon DEF Advance
    <2>2. k \in 0..MaxDepth /\ k \in Nat /\ h \in Handlings /\ hnd[h] \in Handling
      BY <2>1, OpenHandling, ExchangeAssumption
    <2>3. [hnd[h] EXCEPT !.depth = k] \in Handling /\ [hnd[h] EXCEPT !.depth = k].state = hnd[h].state
      BY <2>2, Zenon DEF Handling
    <2>4. hnd' \in [Handlings -> Handling] /\ \A g \in Handlings : hnd'[g].state = hnd[g].state
      BY <1>0, <2>1, <2>2, <2>3, Zenon
    <2>5. \A e \in Ids : <<"import", e>> \in Handlings /\ e # 0
      BY <1>3, Zenon DEF Handlings
    <2> QED
      BY <1>3, <2>1, <2>2, <2>4, <2>5, InsertInv, Zenon
  <1>6. ASSUME NEW h \in OpenAt(n), HandOver(n, h) PROVE EInv'
    <2>1. PICK k \in CausalDepths(h) :
            /\ CanSend(n, k) /\ InsertDelivery(n, 0, root, k)
            /\ hnd' = [hnd EXCEPT ![h].state = "closed", ![root] = [state |-> "open", depth |-> k]]
      BY <1>6, Zenon DEF HandOver, root
    <2>2. k \in 0..MaxDepth /\ k \in Nat /\ h \in Handlings /\ hnd[h] \in Handling /\ hnd[h].state = "open"
      BY <2>1, OpenHandling, ExchangeAssumption
    <2>3. root \in Handlings /\ \A e \in Ids : root # <<"import", e>>
      BY <1>1, <2>1, Zenon
    <2>4. [hnd[h] EXCEPT !.state = "closed"] \in Handling /\ [hnd[h] EXCEPT !.state = "closed"].state = "closed"
      BY <2>2, Zenon DEF Handling
    <2> DEFINE shut == [hnd EXCEPT ![h].state = "closed"]
    <2>5. /\ shut \in [Handlings -> Handling]
          /\ \A g \in Handlings : shut[g] = hnd[g] \/ (g = h /\ shut[g].state = "closed")
      BY <1>0, <2>2, <2>4, Zenon
    <2>6. hnd' = [shut EXCEPT ![root] = [state |-> "open", depth |-> k]]
      BY <2>1, Zenon
    <2> HIDE DEF shut
    <2>7. hnd' \in [Handlings -> Handling]
      BY <1>2, <2>2, <2>3, <2>5, <2>6, Zenon
    <2>8. \A e \in Ids : <<"import", e>> \in Handlings /\ e # 0 /\ hnd'[<<"import", e>>] = shut[<<"import", e>>]
      BY <1>3, <2>3, <2>5, <2>6, Zenon DEF Handlings
    <2>9. \A e \in Ids : /\ hnd'[<<"import", e>>].state # "none" => hnd[<<"import", e>>].state # "none"
                         /\ hnd'[<<"import", e>>].state = "open" => hnd[<<"import", e>>].state = "open"
      BY <2>2, <2>5, <2>8, Zenon
    <2> QED
      BY <1>3, <2>1, <2>2, <2>3, <2>7, <2>8, <2>9, InsertInv, Zenon
  <1>7. ASSUME NEW h \in OpenAt(n), Reply(n, h) \/ Resolve(h) PROVE EInv'
    <2>1. hnd' = [hnd EXCEPT ![h].state = "closed"]
      BY <1>7, Zenon DEF Reply, Resolve
    <2>2. /\ h \in Handlings /\ hnd[h] \in Handling /\ hnd[h].state = "open" /\ h[2] \in Made /\ h[2] \in Ids
          /\ hnd[h].depth \in Nat /\ h = <<h[1], h[2]>>
      BY OpenHandling, Zenon
    <2>3. [hnd[h] EXCEPT !.state = "closed"] \in Handling /\ [hnd[h] EXCEPT !.state = "closed"].state = "closed"
      BY <2>2, Zenon DEF Handling
    <2>4. /\ hnd' \in [Handlings -> Handling] /\ hnd'[h].state = "closed"
          /\ \A g \in Handlings \ {h} : hnd'[g] = hnd[g]
      BY <1>0, <2>1, <2>2, <2>3, Zenon
    <2>5. \A e \in Ids :
            /\ hnd'[<<"import", e>>].state # "none" => hnd[<<"import", e>>].state # "none"
            /\ hnd'[<<"import", e>>].state = "open" => hnd[<<"import", e>>].state = "open" /\ <<"import", e>> # h
      BY <2>2, <2>4, Zenon DEF Handlings
    <2>6. CASE Reply(n, h)
      <3>1. /\ h[1] = "import" /\ CanSend(n, hnd[h].depth)
            /\ InsertDelivery(n, h[2], NoHandling, hnd[h].depth)
        BY <2>6, Zenon DEF Reply
      <3>2. /\ h = <<"import", h[2]>> /\ h[2] \in 0..MaxDeliveries /\ h[2] # 0
            /\ \A e \in Ids : <<"import", e>> # h => e # h[2]
        BY <2>2, <3>1, ExchangeAssumption DEF Ids
      <3>3. dlv[h[2]].from = Peer(n)
        BY <3>1, OpenHandling, PeerIs
      <3> QED
        BY <2>2, <2>4, <2>5, <3>1, <3>2, <3>3, InsertInv, Zenon
    <2>7. CASE Resolve(h)
      <3>1. UNCHANGED <<made, dlv, outbox, inbox, imports, route, worker, slot>>
        BY <2>7, Zenon DEF Resolve
      <3>2. StoreTypes'
        BY <1>0, <2>4, <3>1, Zenon DEF StoreTypes, Made
      <3>3. Rows'
        BY <1>0, <3>1, Zenon DEF Rows, Made
      <3>4. Answered'
        BY <1>0, <2>5, <3>1, Zenon DEF Answered, Made
      <3>5. Link'
        BY <1>0, <3>1, MadeIds, LinkKept, Zenon DEF Made
      <3> QED
        BY <3>2, <3>3, <3>4, <3>5, Zenon DEF EInv, Store
    <2> QED
      BY <1>7, <2>6, <2>7, Zenon
  <1> QED
    BY <1>4, <1>5, <1>6, <1>7, Zenon DEF LocalAdmission

(***************************************************************************)
(* Connections                                                             *)
(***************************************************************************)

LEMMA StoreKept == ASSUME Store, UNCHANGED <<world, store, route>> PROVE Store'
  <1>1. UNCHANGED <<world, made, dlv, outbox, inbox, imports, hnd, route>>
    BY Zenon DEF store
  <1>2. Made' = Made
    BY <1>1, Zenon DEF Made
  <1>3. StoreTypes'
    BY <1>1, <1>2, Zenon DEF Store, StoreTypes
  <1>4. Rows' /\ Answered'
    BY <1>1, <1>2 DEF Store, Rows, Answered
  <1> QED
    BY <1>3, <1>4, Zenon DEF Store

\* One handler changes, and no other.
LEMMA SlotAfter ==
    ASSUME slot \in [Nodes -> [Slots -> SlotRow]], NEW n \in Nodes, NEW s \in Slots, NEW r \in SlotRow,
           slot' = [slot EXCEPT ![n][s] = r]
    PROVE  /\ slot' \in [Nodes -> [Slots -> SlotRow]] /\ slot'[n][s] = r
           /\ \A m \in Nodes, t \in Slots : m # n \/ t # s => slot'[m][t] = slot[m][t]
  BY Zenon

\* A handler goes on without its worker noticing.
LEMMA SlotMoves ==
    ASSUME EInv, NEW n \in Nodes, NEW s \in Slots, NEW r \in SlotRow,
           slot' = [slot EXCEPT ![n][s] = r], UNCHANGED <<made, worker>>,
           \A d \in Ids : inbox[d] \in Receipts => inbox'[d] = inbox[d],
           r.phase # "free", r.id = slot[n][s].id, r.client = slot[n][s].client,
           r.id \in Made,
           r.phase = "reply" => r.result # "none" /\ (r.result \in Receipts => inbox'[r.id] = r.result)
    PROVE  Link'
  <1>1. /\ slot' \in [Nodes -> [Slots -> SlotRow]] /\ slot'[n][s] = r
        /\ \A m \in Nodes, t \in Slots : m # n \/ t # s => slot'[m][t] = slot[m][t]
    BY SlotAfter DEF EInv, Link
  <1>2. Made' = Made /\ Made \subseteq Ids
    BY MadeIds, Zenon DEF Made, EInv
  <1>3. \A m \in Nodes : WorkerHolds(m)'
    BY <1>2, Zenon DEF EInv, Link, WorkerHolds
  <1>4. \A m \in Nodes, t \in Slots : slot'[m][t].client = slot[m][t].client
    BY <1>1, Zenon
  <1>5. ASSUME NEW m \in Nodes, NEW t \in Slots PROVE SlotHolds(m, t)'
    <2>0. SlotHolds(m, t)
      BY Zenon DEF EInv, Link
    <2>1. CASE m = n /\ t = s
      BY <1>1, <1>2, <1>4, <2>0, <2>1 DEF SlotHolds
    <2>2. CASE m # n \/ t # s
      <3>1. slot'[m][t] = slot[m][t]
        BY <1>1, <2>2, Zenon
      <3>2. slot[m][t].phase = "reply" /\ slot[m][t].result \in Receipts => inbox'[slot[m][t].id] = slot[m][t].result
        BY <1>2, <2>0, Zenon DEF SlotHolds
      <3> QED
        BY <1>2, <1>4, <2>0, <3>1, <3>2 DEF SlotHolds
    <2> QED
      BY <2>1, <2>2, Zenon
  <1> QED
    BY <1>1, <1>3, <1>5, Zenon DEF EInv, Link

\* A handler ends, and a worker that still waits for it goes on to w.
LEMMA SlotEnds ==
    ASSUME EInv, NEW n \in Nodes, NEW s \in Slots, NEW w \in WorkerRow,
           slot' = [slot EXCEPT ![n][s] = Free], UNCHANGED <<world, store, route>>,
           worker' = IF slot[n][s].client THEN [worker EXCEPT ![Peer(n)] = w] ELSE worker,
           slot[n][s].client =>
             /\ w.phase \in {"idle", "sending", "answered"} /\ w.todo \subseteq Made
             /\ w.phase = "sending" => w.todo # {}
             /\ w.phase = "answered" => w.at \in Made /\ w.receipt \in Receipts /\ inbox[w.at] = w.receipt
    PROVE  EInv'
  <1>1. /\ slot' \in [Nodes -> [Slots -> SlotRow]] /\ slot'[n][s] = Free
        /\ \A m \in Nodes, t \in Slots : m # n \/ t # s => slot'[m][t] = slot[m][t]
    BY SlotAfter, FreeRow DEF EInv, Link
  <1>2. Made' = Made /\ UNCHANGED inbox
    BY Zenon DEF Made, store
  <1>3. worker \in [Nodes -> WorkerRow] /\ Peer(n) \in Nodes
    BY PeerIs, Zenon DEF EInv, Link
  <1>4. worker' \in [Nodes -> WorkerRow]
    BY <1>3, Zenon
  <1>5. /\ \A m \in Nodes : m # Peer(n) => worker'[m] = worker[m]
        /\ ~slot[n][s].client => worker' = worker
        /\ slot[n][s].client => worker'[Peer(n)] = w
    BY <1>3, Zenon
  <1>6. ASSUME NEW m \in Nodes PROVE WorkerHolds(m)'
    <2>1. WorkerHolds(m)
      BY Zenon DEF EInv, Link
    <2>2. CASE m = Peer(n) /\ slot[n][s].client
      BY <1>2, <1>5, <2>2 DEF WorkerHolds
    <2>3. CASE ~(m = Peer(n) /\ slot[n][s].client)
      <3>1. worker'[m] = worker[m]
        BY <1>5, <2>3, Zenon
      <3> QED
        BY <1>2, <2>1, <3>1 DEF WorkerHolds
    <2> QED
      BY <2>2, <2>3, Zenon
  <1>7. ASSUME NEW m \in Nodes, NEW t \in Slots PROVE SlotHolds(m, t)'
    <2>0. SlotHolds(m, t) /\ SlotHolds(n, s)
      BY Zenon DEF EInv, Link
    <2>1. CASE m = n /\ t = s
      BY <1>1, <2>1, FreeRow, Zenon DEF SlotHolds
    <2>2. CASE m # n \/ t # s
      <3>1. slot'[m][t] = slot[m][t]
        BY <1>1, <2>2, Zenon
      <3>2. \A u \in Slots : slot'[m][u].client => slot[m][u].client
        BY <1>1, FreeRow, Zenon
      <3>3. slot[m][t].client => worker'[Peer(m)] = worker[Peer(m)]
        <4>1. CASE m = n
          BY <1>5, <2>0, <2>2, <4>1, Zenon DEF SlotHolds
        <4>2. CASE m # n
          BY <1>5, <4>2, PeerIs
        <4> QED
          BY <4>1, <4>2, Zenon
      <3> QED
        BY <1>2, <2>0, <3>1, <3>2, <3>3 DEF SlotHolds
    <2> QED
      BY <2>1, <2>2, Zenon
  <1>8. Link'
    BY <1>1, <1>4, <1>6, <1>7, Zenon DEF Link
  <1> QED
    BY <1>8, StoreKept, Zenon DEF EInv

\* A handler of node n works on a delivery that was made.
LEMMA SlotIs ==
    ASSUME EInv, NEW n \in Nodes, NEW s \in Slots
    PROVE  /\ slot[n][s] \in SlotRow /\ SlotHolds(n, s)
           /\ slot[n][s].phase # "free" => slot[n][s].id \in Made /\ slot[n][s].id \in Ids
           /\ slot[n][s].id \in 0..MaxDeliveries /\ slot[n][s].client \in BOOLEAN
           /\ worker[Peer(n)] \in WorkerRow /\ worker[Peer(n)].todo \subseteq Made /\ Made \subseteq Ids
  <1>1. slot[n][s] \in SlotRow /\ SlotHolds(n, s) /\ Made \subseteq Ids
    BY MadeIds, Zenon DEF EInv, Link
  <1>2. worker[Peer(n)] \in WorkerRow /\ WorkerHolds(Peer(n))
    BY PeerIs, Zenon DEF EInv, Link
  <1> QED
    BY <1>1, <1>2, Zenon DEF SlotHolds, SlotRow, WorkerHolds

LEMMA CloseInv ==
    ASSUME EInv, NEW n \in Nodes, NEW s \in Slots, Close(n, s), UNCHANGED <<world, store, route>>
    PROVE  EInv'
  <1> DEFINE w == Continue(worker[Peer(n)])
  <1>1. worker[Peer(n)].todo \subseteq Made /\ Made \subseteq Ids
    BY SlotIs, Zenon
  <1>2. /\ w \in WorkerRow /\ w.todo \subseteq Made /\ w.phase \in {"idle", "sending"}
        /\ w.phase = "sending" => w.todo # {}
    BY <1>1, ContinueRow, Zenon
  <1>3. /\ slot' = [slot EXCEPT ![n][s] = Free]
        /\ worker' = IF slot[n][s].client THEN [worker EXCEPT ![Peer(n)] = w] ELSE worker
    BY Zenon DEF Close
  <1> HIDE DEF w
  <1> QED
    BY <1>2, <1>3, SlotEnds, Zenon

LEMMA RespondInv ==
    ASSUME EInv, UNCHANGED world, NEW n \in Nodes, NEW s \in Slots, Respond(n, s) PROVE EInv'
  <1> DEFINE sl == slot[n][s]
             old == worker[Peer(n)]
             told == [old EXCEPT !.phase = "answered", !.receipt = sl.result]
             w == IF sl.result = "ack" THEN Continue(old) ELSE told
  <1>1. /\ sl.phase = "reply" /\ slot' = [slot EXCEPT ![n][s] = Free]
        /\ UNCHANGED <<store, route>>
        /\ worker' = IF sl.client THEN [worker EXCEPT ![Peer(n)] = w] ELSE worker
    <2>1. Peer(n) \in Nodes /\ worker \in [Nodes -> WorkerRow]
      BY PeerIs, Zenon DEF EInv, Link
    <2> QED
      BY <2>1, Zenon DEF Respond
  <1>2. /\ sl \in SlotRow /\ SlotHolds(n, s) /\ sl.id \in Made
        /\ old \in WorkerRow /\ old.todo \subseteq Made /\ Made \subseteq Ids
    BY <1>1, SlotIs, Zenon
  <1>3. CASE sl.result = "ack"
    <2>1. /\ w \in WorkerRow /\ w.todo \subseteq Made /\ w.phase \in {"idle", "sending"}
          /\ w.phase = "sending" => w.todo # {}
      BY <1>2, <1>3, ContinueRow, Zenon
    <2> HIDE DEF w
    <2> QED
      BY <1>1, <2>1, SlotEnds, Zenon
  <1>4. CASE sl.result \in Receipts
    <2>1. told \in WorkerRow /\ told.phase = "answered" /\ told.receipt = sl.result
          /\ told.todo = old.todo /\ told.at = old.at
      BY <1>2, <1>4, Zenon DEF WorkerRow, Receipts
    <2>2. w = told
      BY <1>4, Zenon DEF Receipts
    <2>3. sl.client => old.at = sl.id
      BY <1>2, Zenon DEF SlotHolds
    <2>4. inbox[sl.id] = sl.result
      BY <1>1, <1>2, <1>4, Zenon DEF SlotHolds
    <2> HIDE DEF w, told
    <2> QED
      BY <1>1, <1>2, <1>4, <2>1, <2>2, <2>3, <2>4, SlotEnds, Zenon
  <1>5. sl.result # "none"
    BY <1>1, <1>2, Zenon DEF SlotHolds
  <1> QED
    BY <1>2, <1>3, <1>4, <1>5, Zenon DEF SlotRow

(***************************************************************************)
(* The outbox worker                                                       *)
(***************************************************************************)

\* A worker that no handler answers any more goes on to w.
LEMMA WorkerMoves ==
    ASSUME EInv, NEW n \in Nodes, NEW w \in WorkerRow,
           worker' = [worker EXCEPT ![n] = w], UNCHANGED <<made, inbox>>,
           slot' \in [Nodes -> [Slots -> SlotRow]],
           \A m \in Nodes, s \in Slots :
             slot'[m][s] = slot[m][s] \/ (m = Peer(n) /\ slot'[m][s] = [slot[m][s] EXCEPT !.client = FALSE]),
           \A s \in Slots : ~slot'[Peer(n)][s].client,
           w.phase \in {"idle", "sending"}, w.todo \subseteq Made, w.phase = "sending" => w.todo # {}
    PROVE  Link'
  <1>1. worker \in [Nodes -> WorkerRow] /\ slot \in [Nodes -> [Slots -> SlotRow]]
    BY Zenon DEF EInv, Link
  <1>2. worker' \in [Nodes -> WorkerRow] /\ worker'[n] = w /\ \A m \in Nodes \ {n} : worker'[m] = worker[m]
    BY <1>1, Zenon
  <1>3. Made' = Made
    BY Zenon DEF Made
  <1>4. ASSUME NEW m \in Nodes PROVE WorkerHolds(m)'
    <2>1. WorkerHolds(m)
      BY Zenon DEF EInv, Link
    <2> QED
      BY <1>2, <1>3, <2>1, Zenon DEF WorkerHolds
  <1>5. ASSUME NEW m \in Nodes, NEW s \in Slots PROVE SlotHolds(m, s)'
    <2>0. SlotHolds(m, s) /\ slot[m][s] \in SlotRow
      BY <1>1 DEF EInv, Link
    <2>1. CASE m = Peer(n)
      <3>1. /\ slot'[m][s].phase = slot[m][s].phase /\ slot'[m][s].id = slot[m][s].id
            /\ slot'[m][s].result = slot[m][s].result /\ ~slot'[m][s].client
        <4>1. CASE slot'[m][s] = slot[m][s]
          BY <2>1, <4>1, Zenon
        <4>2. CASE slot'[m][s] = [slot[m][s] EXCEPT !.client = FALSE]
          BY <2>0, <2>1, <4>2, Zenon DEF SlotRow
        <4> QED
          BY <2>1, <4>1, <4>2, Zenon
      <3> QED
        BY <1>3, <2>0, <3>1, Zenon DEF SlotHolds
    <2>2. CASE m # Peer(n)
      <3>1. m = n /\ Peer(m) # n /\ Peer(m) \in Nodes
        BY <2>2, PeerIs, Zenon
      <3>2. worker'[Peer(m)] = worker[Peer(m)] /\ \A t \in Slots : slot'[m][t] = slot[m][t]
        BY <1>2, <2>2, <3>1, Zenon
      <3> QED
        BY <1>3, <2>0, <3>2, Zenon DEF SlotHolds
    <2> QED
      BY <2>1, <2>2, Zenon
  <1> QED
    BY <1>2, <1>4, <1>5, Zenon DEF Link

\* The slots of the peer when the worker does not wait for one of them.
LEMMA NoClient ==
    ASSUME EInv, NEW n \in Nodes, worker[n].phase # "waiting"
    PROVE  \A s \in Slots : ~slot[Peer(n)][s].client
  <1>1. Peer(n) \in Nodes /\ Peer(Peer(n)) = n
    BY PeerIs, Zenon
  <1> QED
    BY <1>1, Zenon DEF EInv, Link, SlotHolds

LEMMA WorkerIs ==
    ASSUME EInv, NEW n \in Nodes
    PROVE  /\ worker[n] \in WorkerRow /\ WorkerHolds(n) /\ worker[n].todo \subseteq Made
           /\ Made \subseteq Ids /\ Ids \subseteq Nat
           /\ worker \in [Nodes -> WorkerRow] /\ slot \in [Nodes -> [Slots -> SlotRow]]
  BY MadeIds, Zenon DEF EInv, Link, WorkerHolds

\* Deliveries that expire or are settled in the outbox.
LEMMA OutboxMoves ==
    ASSUME Store, outbox' \in [Ids -> {"none", "pending", "expired"} \cup Receipts],
           UNCHANGED <<world, made, dlv, inbox, imports, hnd>>,
           \A d \in Ids : outbox'[d] # outbox[d] =>
             outbox[d] = "pending" /\ (outbox'[d] = "expired" \/ (outbox'[d] \in Receipts /\ inbox[d] = outbox'[d])),
           \A d \in Made : outbox'[d] = "pending" => dlv[d].from \in route'
    PROVE  Store'
  <1>1. Made' = Made /\ Made \subseteq Ids
    BY MadeIds, Zenon DEF Made
  <1>2. StoreTypes' /\ Answered'
    BY <1>1 DEF Store, StoreTypes, Answered
  <1>3. \A d \in Ids : outbox'[d] # "none" <=> d \in Made
    BY Zenon DEF Store, Rows, Receipts
  <1>4. \A d \in Ids : outbox'[d] \in Receipts => inbox[d] = outbox'[d]
    BY Zenon DEF Store, Rows, Receipts
  <1>5. Rows'
    BY <1>1, <1>3, <1>4, Zenon DEF Store, Rows
  <1> QED
    BY <1>2, <1>5, Zenon DEF Store

LEMMA PollInv == ASSUME EInv, UNCHANGED world, NEW n \in Nodes, Poll(n) PROVE EInv'
  <1> DEFINE late == Pending(n) \cap past[n]
             batch == Oldest(Pending(n) \ late)
             w == Continue([IdleWorker EXCEPT !.todo = batch])
  <1>0. Store /\ Rows /\ StoreTypes /\ Made \subseteq Ids
    BY MadeIds, Zenon DEF EInv, Store
  <1>1. batch \subseteq Pending(n) /\ Pending(n) \subseteq Made
    BY Zenon DEF Oldest, Pending
  <1>2. n \notin route => Pending(n) = {}
    BY <1>0, Zenon DEF Rows, Pending
  <1>3. /\ worker[n].phase = "idle" /\ outbox' = [d \in Ids |-> IF d \in late THEN "expired" ELSE outbox[d]]
        /\ UNCHANGED <<made, dlv, inbox, imports, hnd, route, slot>>
        /\ worker' = [worker EXCEPT ![n] = w]
    BY <1>1, <1>2, Zenon DEF Poll
  <1>4. [IdleWorker EXCEPT !.todo = batch].todo = batch
    BY Zenon DEF IdleWorker
  <1>5. /\ w \in WorkerRow /\ w.todo \subseteq Made /\ w.phase \in {"idle", "sending"}
        /\ w.phase = "sending" => w.todo # {}
    BY <1>0, <1>1, <1>4, ContinueRow, Zenon
  <1> HIDE DEF w
  <1>6. Link'
    BY <1>3, <1>5, NoClient, WorkerIs, WorkerMoves, Zenon
  <1>7. \A d \in Ids : outbox'[d] # outbox[d] => outbox[d] = "pending" /\ outbox'[d] = "expired"
    BY <1>3, Zenon DEF Pending
  <1>8. outbox' \in [Ids -> {"none", "pending", "expired"} \cup Receipts]
    BY <1>0, <1>3, Zenon DEF StoreTypes
  <1>9. \A d \in Made : outbox'[d] = "pending" => dlv[d].from \in route
    BY <1>0, <1>3, Zenon DEF Rows
  <1> QED
    BY <1>0, <1>3, <1>6, <1>7, <1>8, <1>9, OutboxMoves, Zenon DEF EInv

LEMMA SettleInv == ASSUME EInv, UNCHANGED world, NEW n \in Nodes, Settle(n) PROVE EInv'
  <1> DEFINE d == worker[n].at
             w == Continue(worker[n])
  <1>0. Store /\ Rows /\ StoreTypes /\ Made \subseteq Ids /\ WorkerHolds(n) /\ worker[n].todo \subseteq Made
    BY WorkerIs, Zenon DEF EInv, Store
  <1>1. worker[n].phase = "answered" /\ UNCHANGED <<made, dlv, inbox, imports, hnd, route, slot>>
    BY Zenon DEF Settle
  <1>2. d \in Made /\ d \in Ids /\ worker[n].receipt \in Receipts /\ inbox[d] = worker[n].receipt
    BY <1>0, <1>1, Zenon DEF WorkerHolds
  <1>3. outbox[d] \in {"accepted", "rejected"} => outbox[d] = worker[n].receipt
    BY <1>0, <1>2, Zenon DEF Rows, Receipts
  <1>4. worker' = [worker EXCEPT ![n] = w]
    BY <1>3, WorkerIs, Zenon DEF Settle
  <1>5. /\ w \in WorkerRow /\ w.todo \subseteq Made /\ w.phase \in {"idle", "sending"}
        /\ w.phase = "sending" => w.todo # {}
    BY <1>0, ContinueRow, Zenon
  <1> HIDE DEF w
  <1>6. Link'
    BY <1>1, <1>4, <1>5, NoClient, WorkerIs, WorkerMoves, Zenon
  <1>7. outbox' = outbox \/ (outbox[d] = "pending" /\ outbox' = [outbox EXCEPT ![d] = worker[n].receipt])
    BY Zenon DEF Settle
  <1> HIDE DEF d
  <1>8. outbox' \in [Ids -> {"none", "pending", "expired"} \cup Receipts]
    BY <1>0, <1>2, <1>7, Zenon DEF StoreTypes
  <1>9. \A e \in Ids : outbox'[e] # outbox[e] => outbox[e] = "pending" /\ outbox'[e] \in Receipts /\ inbox[e] = outbox'[e]
    BY <1>0, <1>2, <1>7, Zenon DEF StoreTypes
  <1>10. \A e \in Made : outbox'[e] = "pending" => dlv[e].from \in route
    BY <1>0, <1>9, Zenon DEF Rows, Receipts
  <1> QED
    BY <1>0, <1>1, <1>6, <1>8, <1>9, <1>10, OutboxMoves, Zenon DEF EInv

LEMMA SkipInv == ASSUME EInv, UNCHANGED world, NEW n \in Nodes, Skip(n) PROVE EInv'
  <1> DEFINE rest == worker[n].todo \ {Least(worker[n].todo)}
             w == Continue([worker[n] EXCEPT !.todo = rest])
  <1>1. /\ worker[n].phase = "sending" /\ worker' = [worker EXCEPT ![n] = w]
        /\ UNCHANGED <<store, route, slot>>
    BY WorkerIs, Zenon DEF Skip
  <1>2. [worker[n] EXCEPT !.todo = rest].todo = rest /\ rest \subseteq Made /\ Made \subseteq Ids
    BY WorkerIs, Zenon DEF WorkerRow
  <1>3. /\ w \in WorkerRow /\ w.todo \subseteq Made /\ w.phase \in {"idle", "sending"}
        /\ w.phase = "sending" => w.todo # {}
    BY <1>2, ContinueRow, Zenon
  <1> HIDE DEF w
  <1>4. Link'
    BY <1>1, <1>3, NoClient, WorkerIs, WorkerMoves, Zenon DEF store
  <1> QED
    BY <1>1, <1>4, StoreKept, Zenon DEF EInv

\* Abandoned handlers keep all but their client.
LEMMA AbandonedRows ==
    ASSUME NEW f \in [Slots -> SlotRow]
    PROVE  /\ Abandoned(f) \in [Slots -> SlotRow]
           /\ \A s \in Slots : Abandoned(f)[s] = [f[s] EXCEPT !.client = FALSE] /\ ~Abandoned(f)[s].client
  BY Zenon DEF Abandoned, SlotRow

LEMMA TimeoutInv == ASSUME EInv, UNCHANGED world, NEW n \in Nodes, Timeout(n) PROVE EInv'
  <1> DEFINE w == Continue(worker[n])
  <1>1. /\ worker' = [worker EXCEPT ![n] = w] /\ UNCHANGED <<store, route>>
        /\ slot' = [slot EXCEPT ![Peer(n)] = Abandoned(slot[Peer(n)])]
    BY WorkerIs, PeerIs, Zenon DEF Timeout
  <1>2. /\ w \in WorkerRow /\ w.todo \subseteq Made /\ w.phase \in {"idle", "sending"}
        /\ w.phase = "sending" => w.todo # {}
    BY WorkerIs, ContinueRow, Zenon
  <1> HIDE DEF w
  <1>3. Peer(n) \in Nodes /\ slot \in [Nodes -> [Slots -> SlotRow]] /\ slot[Peer(n)] \in [Slots -> SlotRow]
    BY WorkerIs, PeerIs, Zenon
  <1>4. slot' \in [Nodes -> [Slots -> SlotRow]] /\ slot'[Peer(n)] = Abandoned(slot[Peer(n)])
        /\ \A m \in Nodes \ {Peer(n)} : slot'[m] = slot[m]
    BY <1>1, <1>3, AbandonedRows, Zenon
  <1>5. Link'
    <2>1. \A m \in Nodes, s \in Slots :
            slot'[m][s] = slot[m][s] \/ (m = Peer(n) /\ slot'[m][s] = [slot[m][s] EXCEPT !.client = FALSE])
      BY <1>3, <1>4, AbandonedRows
    <2>2. \A s \in Slots : ~slot'[Peer(n)][s].client
      BY <1>3, <1>4, AbandonedRows, Zenon
    <2>3. UNCHANGED <<made, inbox>>
      BY <1>1, Zenon DEF store
    <2> QED
      BY <1>1, <1>2, <1>4, <2>1, <2>2, <2>3, WorkerMoves, Zenon
  <1> QED
    BY <1>1, <1>5, StoreKept, Zenon DEF EInv

LEMMA SendInv == ASSUME EInv, UNCHANGED world, NEW n \in Nodes, Send(n) PROVE EInv'
  <1> DEFINE d == Least(worker[n].todo)
             r == [phase |-> "offered", id |-> d, client |-> TRUE, result |-> "none"]
             w == [phase |-> "waiting", todo |-> worker[n].todo \ {d}, at |-> d, receipt |-> "none"]
  <1>0. /\ worker \in [Nodes -> WorkerRow] /\ slot \in [Nodes -> [Slots -> SlotRow]] /\ Peer(n) \in Nodes
        /\ Peer(n) # n /\ Peer(Peer(n)) = n /\ Made \subseteq Ids /\ Ids \subseteq Nat /\ worker[n].todo \subseteq Made
    BY WorkerIs, PeerIs, Zenon
  <1>1. worker[n].phase = "sending" /\ worker' = [worker EXCEPT ![n] = w] /\ UNCHANGED <<store, route>>
    BY <1>0, Zenon DEF Send
  <1>2. PICK s \in Slots : slot[Peer(n)][s] = Free /\ slot' = [slot EXCEPT ![Peer(n)][s] = r]
    BY Zenon DEF Send
  <1>3. d \in Made /\ d \in Ids
    <2>1. worker[n].todo # {} /\ worker[n].todo \subseteq Nat
      BY <1>0, <1>1, WorkerIs, Zenon DEF WorkerHolds
    <2> QED
      BY <1>0, <2>1, LeastIs, Zenon
  <1> HIDE DEF d
  <1>4. r \in SlotRow /\ w \in WorkerRow
    BY <1>0, <1>3, ExchangeAssumption DEF SlotRow, WorkerRow, Ids
  <1>5. /\ r.phase = "offered" /\ r.client /\ r.id = d
        /\ w.phase = "waiting" /\ w.at = d /\ w.todo \subseteq Made
    BY <1>0, Zenon
  <1> HIDE DEF r, w
  <1>6. /\ slot' \in [Nodes -> [Slots -> SlotRow]] /\ slot'[Peer(n)][s] = r
        /\ \A m \in Nodes, t \in Slots : m # Peer(n) \/ t # s => slot'[m][t] = slot[m][t]
    BY <1>0, <1>2, <1>4, SlotAfter
  <1>7. worker' \in [Nodes -> WorkerRow] /\ worker'[n] = w /\ \A m \in Nodes \ {n} : worker'[m] = worker[m]
    BY <1>0, <1>1, <1>4, Zenon
  <1>8. Made' = Made /\ UNCHANGED inbox
    BY <1>1, Zenon DEF Made, store
  <1>9. ASSUME NEW m \in Nodes PROVE WorkerHolds(m)'
    <2>1. WorkerHolds(m)
      BY Zenon DEF EInv, Link
    <2> QED
      BY <1>3, <1>5, <1>7, <1>8, <2>1, Zenon DEF WorkerHolds
  <1>10. \A t \in Slots : slot'[Peer(n)][t].client => t = s
    BY <1>0, <1>1, <1>6, NoClient, Zenon
  <1>11. ASSUME NEW m \in Nodes, NEW t \in Slots PROVE SlotHolds(m, t)'
    <2>0. SlotHolds(m, t)
      BY Zenon DEF EInv, Link
    <2>1. CASE m = Peer(n) /\ t = s
      BY <1>0, <1>3, <1>5, <1>6, <1>7, <1>8, <1>10, <2>1, Zenon DEF SlotHolds
    <2>2. CASE m = Peer(n) /\ t # s
      BY <1>6, <1>8, <1>10, <2>0, <2>2, Zenon DEF SlotHolds
    <2>3. CASE m # Peer(n)
      <3>1. m = n /\ worker'[Peer(m)] = worker[Peer(m)] /\ \A u \in Slots : slot'[m][u] = slot[m][u]
        BY <1>0, <1>6, <1>7, <2>3, PeerIs
      <3> QED
        BY <1>8, <2>0, <3>1, Zenon DEF SlotHolds
    <2> QED
      BY <2>1, <2>2, <2>3, Zenon
  <1>12. Link'
    BY <1>6, <1>7, <1>9, <1>11, Zenon DEF Link
  <1> QED
    BY <1>1, <1>12, StoreKept, Zenon DEF EInv

(***************************************************************************)
(* Owner, clock and crashes                                                *)
(***************************************************************************)

LEMMA RestartInv == ASSUME EInv, UNCHANGED world, NEW n \in Nodes, Restart(n) PROVE EInv'
  <1> DEFINE p == Peer(n)
             next == IF worker[p].phase = "waiting" THEN Continue(worker[p]) ELSE worker[p]
  <1>0. /\ worker \in [Nodes -> WorkerRow] /\ slot \in [Nodes -> [Slots -> SlotRow]] /\ p \in Nodes
        /\ p # n /\ Peer(p) = n /\ Made \subseteq Ids /\ \A m \in Nodes : m = n \/ m = p
    BY WorkerIs, PeerIs, Zenon
  <1>1. UNCHANGED <<store, route>>
    BY Zenon DEF Restart
  <1>2. worker' \in [Nodes -> WorkerRow] /\ worker'[n] = IdleWorker /\ worker'[p] = next
    <2>1. next \in WorkerRow
      BY <1>0, WorkerIs, ContinueRow, Zenon
    <2> HIDE DEF next
    <2>2. worker' = [[worker EXCEPT ![n] = IdleWorker] EXCEPT ![p] = next]
      BY <1>0, Zenon DEF Restart, next
    <2> QED
      BY <1>0, <2>1, <2>2, IdleRow, Zenon
  <1>3. /\ slot' \in [Nodes -> [Slots -> SlotRow]] /\ slot'[n] = [s \in Slots |-> Free]
        /\ slot'[p] = Abandoned(slot[p])
    <2>1. slot[p] \in [Slots -> SlotRow]
      BY <1>0, Zenon
    <2>2. slot' = [[slot EXCEPT ![n] = [s \in Slots |-> Free]] EXCEPT ![p] = Abandoned(slot[p])]
      BY <1>0, Zenon DEF Restart
    <2> QED
      BY <1>0, <2>1, <2>2, FreeRow, AbandonedRows, Zenon
  <1>4. Made' = Made /\ UNCHANGED inbox
    BY <1>1, Zenon DEF Made, store
  <1>5. WorkerHolds(n)'
    BY <1>2, IdleRow, Zenon DEF WorkerHolds
  <1>6. WorkerHolds(p)'
    <2>1. WorkerHolds(p) /\ worker[p].todo \subseteq Ids /\ worker[p].todo \subseteq Made
      BY <1>0, WorkerIs, Zenon
    <2>2. CASE worker[p].phase = "waiting"
      <3>1. worker'[p] = Continue(worker[p])
        BY <1>2, <2>2, Zenon
      <3> QED
        BY <1>4, <2>1, <3>1, ContinueRow, Zenon DEF WorkerHolds
    <2>3. CASE worker[p].phase # "waiting"
      BY <1>2, <1>4, <2>1, <2>3, Zenon DEF WorkerHolds
    <2> QED
      BY <2>2, <2>3, Zenon
  <1>7. ASSUME NEW s \in Slots PROVE SlotHolds(n, s)'
    BY <1>3, FreeRow, Zenon DEF SlotHolds
  <1>8. ASSUME NEW s \in Slots PROVE SlotHolds(p, s)'
    <2>1. SlotHolds(p, s) /\ slot[p][s] \in SlotRow /\ slot[p] \in [Slots -> SlotRow]
      BY <1>0, Zenon DEF EInv, Link
    <2>2. slot'[p][s] = [slot[p][s] EXCEPT !.client = FALSE]
      BY <1>3, <2>1, AbandonedRows
    <2>3. /\ slot'[p][s].phase = slot[p][s].phase /\ slot'[p][s].id = slot[p][s].id
          /\ slot'[p][s].result = slot[p][s].result /\ ~slot'[p][s].client
      BY <2>1, <2>2, Zenon DEF SlotRow
    <2> QED
      BY <1>4, <2>1, <2>3, Zenon DEF SlotHolds
  <1>9. Link'
    <2>1. \A m \in Nodes : WorkerHolds(m)'
      BY <1>0, <1>5, <1>6, Zenon
    <2>2. \A m \in Nodes, s \in Slots : SlotHolds(m, s)'
      BY <1>0, <1>7, <1>8, Zenon
    <2> QED
      BY <1>2, <1>3, <2>1, <2>2, Zenon DEF Link
  <1> QED
    BY <1>1, <1>9, StoreKept, Zenon DEF EInv

LEMMA RevokeInv == ASSUME EInv, UNCHANGED world, NEW n \in Nodes, RevokePeerRoute(n) PROVE EInv'
  <1>0. Store /\ Rows /\ StoreTypes /\ Made \subseteq Ids /\ Link
    BY MadeIds, Zenon DEF EInv, Store
  <1>1. /\ outbox' = [d \in Ids |-> IF d \in Pending(n) THEN "expired" ELSE outbox[d]]
        /\ route' = route \ {n} /\ UNCHANGED <<made, dlv, inbox, imports, hnd, worker, slot>>
    BY Zenon DEF RevokePeerRoute
  <1>2. outbox' \in [Ids -> {"none", "pending", "expired"} \cup Receipts]
    BY <1>0, <1>1, Zenon DEF StoreTypes
  <1>3. \A d \in Ids : outbox'[d] # outbox[d] => outbox[d] = "pending" /\ outbox'[d] = "expired"
    BY <1>1, Zenon DEF Pending
  <1>4. \A d \in Made : outbox'[d] = "pending" => dlv[d].from \in route'
    BY <1>0, <1>1, Zenon DEF Rows, Pending
  <1>5. Store'
    BY <1>0, <1>1, <1>2, <1>3, <1>4, OutboxMoves, Zenon
  <1>6. Link'
    BY <1>0, <1>1, LinkKept, Zenon DEF Made
  <1> QED
    BY <1>5, <1>6, Zenon DEF EInv

LEMMA ClockInv == ASSUME EInv, UNCHANGED world, NEW n \in Nodes, NEW d \in Made, ClockPasses(n, d) PROVE EInv'
  <1>1. UNCHANGED <<store, route, worker, slot>>
    BY Zenon DEF ClockPasses
  <1>2. Link'
    BY <1>1, MadeIds, LinkKept, Zenon DEF EInv, Made, store
  <1> QED
    BY <1>1, <1>2, StoreKept, Zenon DEF EInv

(***************************************************************************)
(* A connection handler                                                    *)
(***************************************************************************)

\* Rows of the inbox that are staged, rejected or expire.
LEMMA InboxMoves ==
    ASSUME Store, inbox' \in [Ids -> {"none", "staged", "expired"} \cup Receipts],
           UNCHANGED <<world, made, dlv, outbox, imports, hnd, route>>,
           \A d \in Ids : inbox'[d] # inbox[d] =>
             d \in Made /\ inbox[d] \in {"none", "staged"} /\ inbox'[d] # "accepted"
    PROVE  Store' /\ \A d \in Ids : inbox[d] \in Receipts => inbox'[d] = inbox[d]
  <1>1. Made' = Made /\ Made \subseteq Ids
    BY MadeIds, Zenon DEF Made
  <1>2. \A d \in Ids : inbox[d] \in Receipts => inbox'[d] = inbox[d]
    BY Zenon DEF Receipts
  <1>3. \A d \in Ids : inbox'[d] = "accepted" <=> inbox[d] = "accepted"
    BY <1>2, Zenon DEF Receipts
  <1>4. StoreTypes'
    BY <1>1, Zenon DEF Store, StoreTypes
  <1>5. Rows'
    <2>1. \A d \in Ids : outbox[d] \in Receipts => inbox'[d] = outbox[d]
      BY <1>2, Zenon DEF Store, Rows
    <2>2. \A d \in Ids : imports[d] = IF inbox'[d] = "accepted" THEN 1 ELSE 0
      BY <1>3, Zenon DEF Store, Rows
    <2>3. \A d \in Ids : inbox'[d] # "none" => d \in Made
      BY Zenon DEF Store, Rows
    <2> QED
      BY <1>1, <2>1, <2>2, <2>3, Zenon DEF Store, Rows
  <1>6. Answered'
    BY <1>1, <1>3 DEF Store, Answered
  <1> QED
    BY <1>2, <1>4, <1>5, <1>6, Zenon DEF Store

LEMMA AnsweringRow ==
    ASSUME NEW sl \in SlotRow, NEW state
    PROVE  LET r == Answering(sl, state)
           IN /\ r \in SlotRow /\ r.phase = "reply" /\ r.id = sl.id /\ r.client = sl.client
              /\ r.result # "none" /\ (r.result \in Receipts => state = r.result)
  <1> DEFINE r1 == [sl EXCEPT !.phase = "reply"]
             r == [r1 EXCEPT !.result = Response(state)]
  <1>1. Response(state) \in {"ack"} \cup Receipts /\ (Response(state) \in Receipts => state = Response(state))
    BY Zenon DEF Response, Receipts
  <1>2. r1 \in SlotRow /\ r1.phase = "reply" /\ r1.id = sl.id /\ r1.client = sl.client
    BY Zenon DEF SlotRow
  <1>3. /\ r \in SlotRow /\ r.phase = "reply" /\ r.id = sl.id /\ r.client = sl.client
        /\ r.result = Response(state)
    <2> HIDE DEF r1
    <2> QED
      BY <1>1, <1>2, Zenon DEF SlotRow
  <1>4. Answering(sl, state) = r
    BY Zenon DEF Answering
  <1> HIDE DEF r
  <1> QED
    BY <1>1, <1>3, <1>4, Zenon DEF Receipts

\* The handler is at another phase of the same delivery.
LEMMA PhaseRow ==
    ASSUME NEW sl \in SlotRow, NEW p \in {"staged", "pulled", "catalogued", "checked"}
    PROVE  LET r == [sl EXCEPT !.phase = p]
           IN r \in SlotRow /\ r.phase = p /\ r.id = sl.id /\ r.client = sl.client
  BY Zenon DEF SlotRow

\* StageFresh, StageReplay and the preflight: some rows of the inbox change,
\* and the handler goes on or answers with its own.
LEMMA StagingInv ==
    ASSUME EInv, UNCHANGED world, NEW n \in Nodes, NEW s \in Slots,
           slot[n][s].phase # "free",
           UNCHANGED <<made, dlv, outbox, imports, hnd, route, worker>>,
           inbox' \in [Ids -> {"none", "staged", "expired"} \cup Receipts],
           \A d \in Ids : inbox'[d] # inbox[d] =>
             d \in Made /\ inbox[d] \in {"none", "staged"} /\ inbox'[d] # "accepted",
           \/ \E p \in {"staged", "pulled", "catalogued", "checked"} :
                slot' = [slot EXCEPT ![n][s] = [slot[n][s] EXCEPT !.phase = p]]
           \/ \E st : /\ st \in Receipts => inbox'[slot[n][s].id] = st
                      /\ slot' = [slot EXCEPT ![n][s] = Answering(slot[n][s], st)]
    PROVE  EInv'
  <1>0. slot[n][s] \in SlotRow /\ slot[n][s].id \in Made
    BY SlotIs, Zenon
  <1>1. Store' /\ \A d \in Ids : inbox[d] \in Receipts => inbox'[d] = inbox[d]
    BY InboxMoves, Zenon DEF EInv
  <1>2. PICK r \in SlotRow :
          /\ slot' = [slot EXCEPT ![n][s] = r] /\ r.phase # "free" /\ r.id = slot[n][s].id
          /\ r.client = slot[n][s].client
          /\ r.phase = "reply" => r.result # "none" /\ (r.result \in Receipts => inbox'[r.id] = r.result)
    <2>1. ASSUME NEW p \in {"staged", "pulled", "catalogued", "checked"},
                 slot' = [slot EXCEPT ![n][s] = [slot[n][s] EXCEPT !.phase = p]]
          PROVE  \E r \in SlotRow :
                   /\ slot' = [slot EXCEPT ![n][s] = r] /\ r.phase # "free" /\ r.id = slot[n][s].id
                   /\ r.client = slot[n][s].client
                   /\ r.phase = "reply" => r.result # "none" /\ (r.result \in Receipts => inbox'[r.id] = r.result)
      <3> DEFINE r == [slot[n][s] EXCEPT !.phase = p]
      <3>1. r \in SlotRow /\ r.phase = p /\ r.id = slot[n][s].id /\ r.client = slot[n][s].client
        BY <1>0, PhaseRow, Zenon
      <3>2. slot' = [slot EXCEPT ![n][s] = r]
        BY <2>1, Zenon
      <3> HIDE DEF r
      <3> QED
        BY <3>1, <3>2, Zenon
    <2>2. ASSUME NEW st, st \in Receipts => inbox'[slot[n][s].id] = st,
                 slot' = [slot EXCEPT ![n][s] = Answering(slot[n][s], st)]
          PROVE  \E r \in SlotRow :
                   /\ slot' = [slot EXCEPT ![n][s] = r] /\ r.phase # "free" /\ r.id = slot[n][s].id
                   /\ r.client = slot[n][s].client
                   /\ r.phase = "reply" => r.result # "none" /\ (r.result \in Receipts => inbox'[r.id] = r.result)
      <3> DEFINE r == Answering(slot[n][s], st)
      <3>1. /\ r \in SlotRow /\ r.phase = "reply" /\ r.id = slot[n][s].id /\ r.client = slot[n][s].client
            /\ r.result # "none" /\ (r.result \in Receipts => st = r.result)
        BY <1>0, AnsweringRow, Zenon
      <3>2. slot' = [slot EXCEPT ![n][s] = r]
        BY <2>2, Zenon
      <3> HIDE DEF r
      <3> QED
        BY <2>2, <3>1, <3>2, Zenon
    <2> QED
      BY <2>1, <2>2, Zenon
  <1>3. Link'
    BY <1>0, <1>1, <1>2, SlotMoves, Zenon
  <1> QED
    BY <1>1, <1>3, Zenon DEF EInv

LEMMA StageInv ==
    ASSUME EInv, UNCHANGED world, NEW n \in Nodes, NEW s \in Slots,
           StageFresh(n, s) \/ StageReplay(n, s) \/ PreflightPeerAdmission(n, s)
    PROVE  EInv'
  <1> DEFINE d == slot[n][s].id
  <1>0. inbox \in [Ids -> {"none", "staged", "expired"} \cup Receipts]
    BY Zenon DEF EInv, Store, StoreTypes
  <1>1. slot[n][s].phase # "free" /\ UNCHANGED <<made, dlv, outbox, imports, hnd, route, worker>>
    BY Zenon DEF StageFresh, StageReplay, PreflightPeerAdmission
  <1>2. d \in Made /\ d \in Ids /\ Made \subseteq Ids
    BY <1>1, SlotIs, Zenon
  <1>3. /\ inbox' \in [Ids -> {"none", "staged", "expired"} \cup Receipts]
        /\ \A e \in Ids : inbox'[e] # inbox[e] =>
             e \in Made /\ inbox[e] \in {"none", "staged"} /\ inbox'[e] # "accepted"
    <2>1. CASE StageFresh(n, s)
      <3>1. inbox' = [ExpireStaged(n) EXCEPT ![d] = FreshRow(n, d)] /\ inbox[d] = "none"
        BY <2>1, Zenon DEF StageFresh
      <3>2. FreshRow(n, d) \in {"rejected", "expired", "staged"}
        BY Zenon DEF FreshRow
      <3>3. /\ ExpireStaged(n) \in [Ids -> {"none", "staged", "expired"} \cup Receipts]
            /\ \A e \in Ids : ExpireStaged(n)[e] # inbox[e] =>
                 e \in Made /\ inbox[e] = "staged" /\ ExpireStaged(n)[e] = "expired"
        BY <1>0, Zenon DEF ExpireStaged, Staged
      <3> QED
        BY <1>2, <3>1, <3>2, <3>3, Zenon DEF Receipts
    <2>2. CASE StageReplay(n, s) \/ PreflightPeerAdmission(n, s)
      <3>1. inbox' = [inbox EXCEPT ![d] = IF inbox[d] = "staged" /\ d \in past[n] THEN "expired" ELSE inbox[d]]
        BY <2>2, Zenon DEF StageReplay, PreflightPeerAdmission
      <3> QED
        BY <1>0, <1>2, <3>1, Zenon
    <2> QED
      BY <2>1, <2>2, Zenon
  <1>4. \/ \E p \in {"staged", "pulled", "catalogued", "checked"} :
             slot' = [slot EXCEPT ![n][s] = [slot[n][s] EXCEPT !.phase = p]]
        \/ slot' = [slot EXCEPT ![n][s] = Answering(slot[n][s], inbox'[d])]
    <2>1. CASE StageFresh(n, s)
      <3>1. ExpireStaged(n) \in [Ids -> {"none", "staged", "expired"} \cup Receipts]
        BY <1>0, Zenon DEF ExpireStaged
      <3>2. inbox'[d] = FreshRow(n, d)
        BY <1>2, <2>1, <3>1, Zenon DEF StageFresh
      <3> QED
        BY <2>1, <3>2, Zenon DEF StageFresh, Admitting
    <2>2. CASE StageReplay(n, s)
      <3>1. inbox'[d] = IF inbox[d] = "staged" /\ d \in past[n] THEN "expired" ELSE inbox[d]
        BY <1>0, <1>2, <2>2, Zenon DEF StageReplay
      <3> QED
        BY <2>2, <3>1, Zenon DEF StageReplay, Admitting
    <2>3. CASE PreflightPeerAdmission(n, s)
      <3>1. inbox'[d] = IF inbox[d] = "staged" /\ d \in past[n] THEN "expired" ELSE inbox[d]
        BY <1>0, <1>2, <2>3, Zenon DEF PreflightPeerAdmission
      <3> QED
        BY <2>3, <3>1, Zenon DEF PreflightPeerAdmission
    <2> QED
      BY <2>1, <2>2, <2>3, Zenon
  <1> QED
    BY <1>1, <1>3, <1>4, StagingInv, Zenon

\* The Artifact of a staged delivery is pulled and catalogued, or is not there.
LEMMA PullInv ==
    ASSUME EInv, UNCHANGED world, NEW n \in Nodes, NEW s \in Slots,
           Pull(n, s) \/ PullUnavailable(n, s) \/ CatalogArtifact(n, s)
    PROVE  EInv'
  <1>0. inbox \in [Ids -> {"none", "staged", "expired"} \cup Receipts]
    BY Zenon DEF EInv, Store, StoreTypes
  <1>1. slot[n][s].phase # "free" /\ UNCHANGED <<made, dlv, outbox, inbox, imports, hnd, route, worker>>
    BY Zenon DEF Pull, PullUnavailable, CatalogArtifact, store
  <1>2. \/ \E p \in {"staged", "pulled", "catalogued", "checked"} :
             slot' = [slot EXCEPT ![n][s] = [slot[n][s] EXCEPT !.phase = p]]
        \/ slot' = [slot EXCEPT ![n][s] = Answering(slot[n][s], "staged")]
    <2>1. slot \in [Nodes -> [Slots -> SlotRow]]
      BY WorkerIs, Zenon
    <2>2. CASE Pull(n, s)
      BY <2>1, <2>2, Zenon DEF Pull
    <2>3. CASE PullUnavailable(n, s)
      BY <2>3, Zenon DEF PullUnavailable
    <2>4. CASE CatalogArtifact(n, s)
      BY <2>1, <2>4, Zenon DEF CatalogArtifact
    <2> QED
      BY <2>2, <2>3, <2>4, Zenon
  <1>3. "staged" \notin Receipts
    BY Zenon DEF Receipts
  <1> QED
    BY <1>0, <1>1, <1>2, <1>3, StagingInv, Zenon

LEMMA CommitInv ==
    ASSUME EInv, UNCHANGED world, NEW n \in Nodes, NEW s \in Slots, CommitPeerAdmission(n, s)
    PROVE  EInv'
  <1> DEFINE d == slot[n][s].id
             row == IF Decision(n, d) = "replay" THEN inbox[d] ELSE Decision(n, d)
  <1>0. Store /\ StoreTypes /\ Rows /\ Answered
    BY Zenon DEF EInv, Store
  <1>1. /\ slot[n][s].phase # "free" /\ UNCHANGED <<made, dlv, outbox, route, worker>>
        /\ inbox' = [inbox EXCEPT ![d] = row]
        /\ slot' = [slot EXCEPT ![n][s] = Answering(slot[n][s], row)]
    BY Zenon DEF CommitPeerAdmission
  <1>2. d \in Made /\ d \in Ids /\ Made \subseteq Ids /\ slot[n][s] \in SlotRow
    BY <1>1, SlotIs, Zenon
  <1>3. /\ Decision(n, d) \in {"replay", "rejected", "expired", "staged", "accepted"}
        /\ Decision(n, d) # "replay" => inbox[d] = "staged"
    BY Zenon DEF Decision
  <1>4. inbox \in [Ids -> {"none", "staged", "expired"} \cup Receipts]
    BY <1>0, Zenon DEF StoreTypes
  <1>5. row \in {"none", "staged", "expired"} \cup Receipts
    BY <1>2, <1>3, <1>4, Zenon DEF Receipts
  <1>6. row # inbox[d] => inbox[d] = "staged"
    BY <1>3, Zenon
  <1>7. Decision(n, d) # "accepted" => row = inbox[d] \/ row # "accepted"
    BY <1>3, Zenon
  <1>8. Decision(n, d) = "accepted" => row = "accepted" /\ inbox[d] = "staged"
    BY <1>3, Zenon
  <1>9. CASE Decision(n, d) # "accepted"
    <2>1. UNCHANGED <<imports, hnd>>
      BY <1>9, Zenon DEF CommitPeerAdmission
    <2> HIDE DEF row, d
    <2>2. /\ inbox' \in [Ids -> {"none", "staged", "expired"} \cup Receipts] /\ inbox'[d] = row
          /\ \A e \in Ids : inbox'[e] # inbox[e] =>
               e \in Made /\ inbox[e] \in {"none", "staged"} /\ inbox'[e] # "accepted"
      BY <1>1, <1>2, <1>4, <1>5, <1>6, <1>7, <1>9, Zenon
    <2> QED
      BY <1>1, <2>1, <2>2, StagingInv, Zenon DEF d
  <1>10. CASE Decision(n, d) = "accepted"
    <2>1. row = "accepted" /\ inbox[d] = "staged"
      BY <1>8, <1>10, Zenon
    <2> DEFINE fresh == <<"import", d>>
    <2>2. /\ imports' = [imports EXCEPT ![d] = @ + 1]
          /\ \/ hnd' = hnd
             \/ hnd' = [hnd EXCEPT ![fresh] = [state |-> "open", depth |-> dlv[d].depth]]
      BY <1>10, Zenon DEF CommitPeerAdmission
    <2>3. [state |-> "open", depth |-> dlv[d].depth] \in Handling
      BY <1>0, <1>2, ExchangeAssumption DEF StoreTypes, Delivery, Handling
    <2> HIDE DEF row, d
    <2>4. fresh \in Handlings /\ \A e \in Ids : e # d => <<"import", e>> # fresh /\ <<"import", e>> \in Handlings
      BY <1>2, Zenon DEF Handlings
    <2>5. /\ hnd' \in [Handlings -> Handling]
          /\ \A e \in Ids : e # d => hnd'[<<"import", e>>] = hnd[<<"import", e>>]
      BY <1>0, <2>2, <2>3, <2>4, Zenon DEF StoreTypes
    <2>6. /\ inbox' \in [Ids -> {"none", "staged", "expired"} \cup Receipts]
          /\ inbox'[d] = "accepted" /\ \A e \in Ids : e # d => inbox'[e] = inbox[e]
      BY <1>1, <1>2, <1>4, <2>1, Zenon DEF Receipts
    <2>7. /\ imports' \in [Ids -> Nat] /\ imports'[d] = imports[d] + 1
          /\ \A e \in Ids : e # d => imports'[e] = imports[e]
      BY <1>0, <1>2, <2>2 DEF StoreTypes
    <2>8. Made' = Made
      BY <1>1, Zenon DEF Made
    <2>9. StoreTypes'
      BY <1>0, <1>1, <2>5, <2>6, <2>7, <2>8, Zenon DEF StoreTypes
    <2>10. Rows'
      <3>1. imports[d] = 0 /\ outbox[d] \notin Receipts
        BY <1>0, <1>2, <2>1, Zenon DEF Rows, Receipts
      <3>2. \A e \in Ids : imports'[e] = IF inbox'[e] = "accepted" THEN 1 ELSE 0
        BY <1>0, <2>6, <2>7, <3>1 DEF Rows
      <3>3. \A e \in Ids : outbox[e] \in Receipts => inbox'[e] = outbox[e]
        BY <1>0, <2>6, <3>1, Zenon DEF Rows
      <3>4. \A e \in Ids : inbox'[e] # "none" => e \in Made
        BY <1>0, <1>2, <2>6, Zenon DEF Rows
      <3> QED
        BY <1>0, <1>1, <2>8, <3>2, <3>3, <3>4, Zenon DEF Rows
    <2>11. Answered'
      <3>1. \A r \in Made : dlv[r].reply # d
        <4>1. ASSUME NEW r \in Made, dlv[r].reply = d PROVE FALSE
          <5>1. dlv[r].reply # 0
            BY <1>2, <4>1 DEF Ids
          <5> QED
            BY <1>0, <2>1, <4>1, <5>1, Zenon DEF Answered
        <4> QED
          BY <4>1, Zenon
      <3>2. \A e \in Ids : inbox[e] = "accepted" => inbox'[e] = "accepted"
        BY <2>6, Zenon
      <3>3. \A e \in Ids : hnd'[<<"import", e>>].state # "none" => inbox'[e] = "accepted"
        BY <1>0, <2>5, <2>6, Zenon DEF Answered
      <3>4. \A e \in Ids : hnd'[<<"import", e>>].state = "open" => \A r \in Made : dlv[r].reply # e
        BY <1>0, <2>5, <3>1, Zenon DEF Answered
      <3>5. ASSUME NEW e \in Made, dlv[e].reply # 0
            PROVE  /\ dlv[e].reply \in Made /\ inbox'[dlv[e].reply] = "accepted"
                   /\ dlv[dlv[e].reply].from = Peer(dlv[e].from)
                   /\ \A r \in Made : dlv[r].reply = dlv[e].reply => r = e
        BY <1>0, <1>2, <3>2, <3>5, Zenon DEF Answered
      <3> QED
        BY <1>1, <2>8, <3>3, <3>4, <3>5 DEF Answered
    <2>12. Link'
      <3> DEFINE r == Answering(slot[n][s], row)
      <3>1. /\ r \in SlotRow /\ r.phase = "reply" /\ r.id = d /\ r.client = slot[n][s].client
            /\ r.result # "none" /\ (r.result \in Receipts => row = r.result)
        BY <1>2, AnsweringRow, Zenon DEF d
      <3>2. slot' = [slot EXCEPT ![n][s] = r]
        BY <1>1, Zenon
      <3> HIDE DEF r
      <3>3. \A e \in Ids : inbox[e] \in Receipts => inbox'[e] = inbox[e]
        BY <2>1, <2>6, Zenon DEF Receipts
      <3>4. r.id = slot[n][s].id
        BY <3>1, Zenon DEF d
      <3>5. /\ r.phase # "free" /\ r.id \in Made
            /\ r.result \in Receipts => inbox'[r.id] = r.result
        BY <1>2, <2>1, <2>6, <3>1, Zenon
      <3> QED
        BY <1>1, <3>1, <3>2, <3>3, <3>4, <3>5, SlotMoves, Zenon
    <2> QED
      BY <2>9, <2>10, <2>11, <2>12, Zenon DEF EInv, Store
  <1> QED
    BY <1>9, <1>10, Zenon

LEMMA HandleInv ==
    ASSUME EInv, UNCHANGED world, NEW n \in Nodes, NEW s \in Slots,
           Handle(n, s) \/ HandlerFails(n, s) \/ PullLost(n, s)
    PROVE  EInv'
  <1>1. CASE StageFresh(n, s) \/ StageReplay(n, s) \/ PreflightPeerAdmission(n, s)
    BY <1>1, StageInv, Zenon
  <1>2. CASE StageRefused(n, s) \/ HandlerFails(n, s)
    BY <1>2, CloseInv, Zenon DEF StageRefused, HandlerFails
  <1>3. CASE Pull(n, s) \/ PullRefused(n, s) \/ PullLost(n, s) \/ CatalogArtifact(n, s)
    BY <1>3, PullInv, Zenon DEF PullRefused, PullLost
  <1>4. CASE CommitPeerAdmission(n, s)
    BY <1>4, CommitInv, Zenon
  <1>5. CASE Respond(n, s)
    BY <1>5, RespondInv, Zenon
  <1> QED
    BY <1>1, <1>2, <1>3, <1>4, <1>5, Zenon DEF Handle

LEMMA ENextInv == EInv /\ [Next]_vars => EInv'
  <1> SUFFICES ASSUME EInv, [Next]_vars PROVE EInv'
    BY Zenon
  <1>1. CASE UNCHANGED vars
    <2>1. UNCHANGED <<world, store, route, worker, slot>> /\ UNCHANGED <<made, inbox>>
      BY <1>1, Zenon DEF vars, store
    <2>2. Link'
      BY <2>1, MadeIds, LinkKept, Zenon DEF EInv, Made
    <2> QED
      BY <2>1, <2>2, StoreKept, Zenon DEF EInv
  <1>2. CASE Next
    <2>1. UNCHANGED world /\ Step
      BY <1>2, Zenon DEF Next
    <2>2. PICK n \in Nodes :
            \/ LocalAdmission(n) \/ Exchange(n) \/ (\E s \in Slots : Handle(n, s)) \/ Fault(n)
            \/ RevokePeerRoute(n) \/ (\E d \in Made : ClockPasses(n, d))
      BY <2>1, Zenon DEF Step
    <2>3. CASE LocalAdmission(n)
      BY <2>1, <2>3, LocalInv, Zenon
    <2>4. CASE Exchange(n)
      BY <2>1, <2>4, PollInv, SendInv, SkipInv, SettleInv, Zenon DEF Exchange, SendRefused
    <2>5. CASE \E s \in Slots : Handle(n, s)
      BY <2>1, <2>5, HandleInv, Zenon
    <2>6. CASE Fault(n)
      BY <2>1, <2>6, SkipInv, TimeoutInv, RestartInv, HandleInv, Zenon DEF Fault, SendFails
    <2>7. CASE RevokePeerRoute(n)
      BY <2>1, <2>7, RevokeInv, Zenon
    <2>8. CASE \E d \in Made : ClockPasses(n, d)
      BY <2>1, <2>8, ClockInv, Zenon
    <2> QED
      BY <2>2, <2>3, <2>4, <2>5, <2>6, <2>7, <2>8, Zenon
  <1> QED
    BY <1>1, <1>2, Zenon

(***************************************************************************)
(* A delivery is imported at most once and answered at most once, by the   *)
(* node that accepted it (commitPeerAdmission), for any bounds, any number *)
(* of handlers at work on it, and every loss, abort, restart and           *)
(* revocation.                                                             *)
(***************************************************************************)
THEOREM ImportedAtMostOnce == Spec => []AtMostOnce
  <1>1. EInv => AtMostOnce
    BY Zenon DEF EInv, Store, Rows, Answered, AtMostOnce
  <1> QED
    BY <1>1, EInitInv, ENextInv, PTL DEF Spec

(***************************************************************************)
(* No worker meets a pending row on a revoked route or a receipt that      *)
(* differs from the one it stored (parsePendingPeerDeliveryTx,             *)
(* replayPeerSettlement), either of which would end the exchange.          *)
(***************************************************************************)
THEOREM NoWorkerEnds == Spec => []WorkerSurvives
  <1>1. EInv => WorkerSurvives
    BY Zenon DEF EInv, Store, Rows, Link, WorkerHolds, Pending, WorkerSurvives
  <1> QED
    BY <1>1, EInitInv, ENextInv, PTL DEF Spec

(***************************************************************************)
(* The exchange implements DeliveryContract                                *)
(***************************************************************************)

\* What the receiver has decided, as DeliveryContract sees it.
Decided == [d \in Ids |-> IF inbox[d] \in {"none", "staged"} THEN "open" ELSE inbox[d]]

ContractStep == [Contract!Next]_<<outbox, Decided>>

LEMMA Stutters == ASSUME UNCHANGED <<outbox, inbox>> PROVE ContractStep
  BY Zenon DEF ContractStep, Decided

LEMMA Posts ==
    ASSUME NEW d \in Ids, outbox[d] = "none", outbox' = [outbox EXCEPT ![d] = "pending"], UNCHANGED inbox
    PROVE  ContractStep
  <1>1. Contract!Post(d)
    BY Zenon DEF Contract!Post
  <1> QED
    BY <1>1, Zenon DEF ContractStep, Contract!Next

LEMMA GivesUp ==
    ASSUME NEW ids \in SUBSET Ids, \A d \in ids : outbox[d] = "pending",
           outbox' = [d \in Ids |-> IF d \in ids THEN "expired" ELSE outbox[d]], UNCHANGED inbox
    PROVE  ContractStep
  <1>1. Contract!GiveUp(ids)
    BY Zenon DEF Contract!GiveUp
  <1> QED
    BY <1>1, Zenon DEF ContractStep, Contract!Next

LEMMA Learns ==
    ASSUME NEW d \in Ids, outbox[d] = "pending", inbox[d] \in Receipts,
           outbox' = [outbox EXCEPT ![d] = inbox[d]], UNCHANGED inbox
    PROVE  ContractStep
  <1>1. Contract!Learn(d)
    BY Zenon DEF Contract!Learn, Contract!Outcomes, Receipts
  <1> QED
    BY <1>1, Zenon DEF ContractStep, Contract!Next

LEMMA Ignores ==
    ASSUME NEW ids \in SUBSET Ids, \A d \in ids : outbox[d] # "none" /\ inbox[d] \in {"none", "staged"},
           \A d \in ids : inbox'[d] = "expired",
           \A d \in Ids \ ids : inbox'[d] = inbox[d] \/ (inbox[d] = "none" /\ inbox'[d] = "staged"),
           UNCHANGED outbox
    PROVE  ContractStep
  <1>1. Contract!Ignore(ids)
    BY Zenon DEF Contract!Ignore
  <1> QED
    BY <1>1, Zenon DEF ContractStep, Contract!Next

LEMMA Decides ==
    ASSUME NEW d \in Ids, NEW ids \in SUBSET Ids, d \notin ids,
           \A e \in ids \cup {d} : outbox[e] # "none" /\ inbox[e] \in {"none", "staged"},
           inbox'[d] \in Receipts, \A e \in ids : inbox'[e] = "expired",
           \A e \in Ids \ (ids \cup {d}) : inbox'[e] = inbox[e],
           UNCHANGED outbox
    PROVE  ContractStep
  <1>1. Contract!DecideAndIgnore(d, ids)
    BY Zenon DEF Contract!DecideAndIgnore, Contract!Outcomes, Receipts
  <1> QED
    BY <1>1, Zenon DEF ContractStep, Contract!Next

LEMMA LocalPosts == ASSUME EInv, UNCHANGED world, NEW n \in Nodes, LocalAdmission(n) PROVE ContractStep
  <1>1. CASE \E h \in OpenAt(n) : Resolve(h)
    BY <1>1, Stutters, Zenon DEF Resolve
  <1>2. CASE \E reply, anchor, depth : CanSend(n, depth) /\ InsertDelivery(n, reply, anchor, depth)
    <2>1. /\ outbox' = [outbox EXCEPT ![made + 1] = "pending"] /\ UNCHANGED inbox
          /\ made < world.deliveries
      BY <1>2, Zenon DEF InsertDelivery, CanSend
    <2>2. made + 1 \in Ids /\ made + 1 \notin Made
      BY <2>1, ExchangeAssumption DEF EInv, Store, StoreTypes, World, Ids, Made
    <2>3. outbox[made + 1] = "none"
      BY <2>2, Zenon DEF EInv, Store, Rows
    <2> QED
      BY <2>1, <2>2, <2>3, Posts, Zenon
  <1> QED
    BY <1>1, <1>2, Zenon DEF LocalAdmission, Request, Advance, HandOver, Reply

LEMMA OutboxLearns ==
    ASSUME EInv, NEW n \in Nodes, Poll(n) \/ Settle(n) \/ RevokePeerRoute(n) PROVE ContractStep
  <1>0. Made \subseteq Ids /\ WorkerHolds(n)
    BY WorkerIs, Zenon
  <1>1. CASE Poll(n)
    <2> DEFINE late == Pending(n) \cap past[n]
    <2>1. outbox' = [d \in Ids |-> IF d \in late THEN "expired" ELSE outbox[d]] /\ UNCHANGED inbox
      BY <1>1, Zenon DEF Poll
    <2>2. late \in SUBSET Ids /\ \A d \in late : outbox[d] = "pending"
      BY <1>0, Zenon DEF Pending
    <2> QED
      BY <2>1, <2>2, GivesUp, Zenon
  <1>2. CASE RevokePeerRoute(n)
    <2>1. outbox' = [d \in Ids |-> IF d \in Pending(n) THEN "expired" ELSE outbox[d]] /\ UNCHANGED inbox
      BY <1>2, Zenon DEF RevokePeerRoute
    <2>2. Pending(n) \in SUBSET Ids /\ \A d \in Pending(n) : outbox[d] = "pending"
      BY <1>0, Zenon DEF Pending
    <2> QED
      BY <2>1, <2>2, GivesUp, Zenon
  <1>3. CASE Settle(n)
    <2> DEFINE d == worker[n].at
    <2>1. d \in Ids /\ worker[n].receipt \in Receipts /\ inbox[d] = worker[n].receipt
      BY <1>0, <1>3, Zenon DEF Settle, WorkerHolds
    <2>2. /\ UNCHANGED inbox
          /\ outbox' = outbox \/ (outbox[d] = "pending" /\ outbox' = [outbox EXCEPT ![d] = inbox[d]])
      BY <1>3, <2>1, Zenon DEF Settle
    <2> HIDE DEF d
    <2> QED
      BY <2>1, <2>2, Learns, Stutters, Zenon
  <1> QED
    BY <1>1, <1>2, <1>3, Zenon

LEMMA HandlerDecides ==
    ASSUME EInv, NEW n \in Nodes, NEW s \in Slots, Handle(n, s) PROVE ContractStep
  <1> DEFINE d == slot[n][s].id
  <1>0. /\ inbox \in [Ids -> {"none", "staged", "expired"} \cup Receipts] /\ Made \subseteq Ids
        /\ slot[n][s].phase # "free" => d \in Ids /\ outbox[d] # "none"
        /\ \A e \in Made : outbox[e] # "none"
    BY MadeIds, SlotIs, Zenon DEF EInv, Store, StoreTypes, Rows
  <1>1. CASE StageFresh(n, s)
    <2> DEFINE gone == Staged(n) \cap past[n]
    <2>1. /\ inbox[d] = "none" /\ inbox' = [ExpireStaged(n) EXCEPT ![d] = FreshRow(n, d)]
          /\ UNCHANGED outbox /\ d \in Ids /\ outbox[d] # "none"
      BY <1>0, <1>1, Zenon DEF StageFresh
    <2>2. gone \subseteq Ids /\ \A e \in gone : outbox[e] # "none" /\ inbox[e] = "staged"
      BY <1>0, Zenon DEF Staged
    <2>3. FreshRow(n, d) \in {"rejected", "expired", "staged"}
      BY Zenon DEF FreshRow
    <2>4. ExpireStaged(n) = [e \in Ids |-> IF e \in gone THEN "expired" ELSE inbox[e]]
      BY Zenon DEF ExpireStaged
    <2> HIDE DEF d, gone
    <2>5. d \notin gone /\ inbox'[d] = FreshRow(n, d)
          /\ \A e \in Ids \ {d} : inbox'[e] = IF e \in gone THEN "expired" ELSE inbox[e]
      BY <2>1, <2>2, <2>4, Zenon
    <2>6. CASE FreshRow(n, d) = "rejected"
      BY <2>1, <2>2, <2>5, <2>6, Decides, Zenon DEF Receipts
    <2>7. CASE FreshRow(n, d) = "staged"
      BY <2>1, <2>2, <2>5, <2>7, Ignores, Zenon
    <2>8. CASE FreshRow(n, d) = "expired"
      <3> DEFINE all == gone \cup {d}
      <3>1. /\ all \in SUBSET Ids
            /\ \A e \in all : outbox[e] # "none" /\ inbox[e] \in {"none", "staged"} /\ inbox'[e] = "expired"
            /\ \A e \in Ids \ all : inbox'[e] = inbox[e]
        BY <2>1, <2>2, <2>5, <2>8, Zenon
      <3> HIDE DEF all
      <3> QED
        BY <2>1, <3>1, Ignores, Zenon
    <2> QED
      BY <2>3, <2>6, <2>7, <2>8, Zenon
  <1>2. CASE StageReplay(n, s) \/ PreflightPeerAdmission(n, s)
    <2>1. /\ UNCHANGED outbox /\ d \in Ids /\ outbox[d] # "none"
          /\ inbox' = [inbox EXCEPT ![d] = IF inbox[d] = "staged" /\ d \in past[n] THEN "expired" ELSE inbox[d]]
      BY <1>0, <1>2, Zenon DEF StageReplay, PreflightPeerAdmission
    <2> HIDE DEF d
    <2>2. CASE inbox[d] = "staged" /\ d \in past[n]
      <3>1. inbox'[d] = "expired" /\ \A e \in Ids \ {d} : inbox'[e] = inbox[e]
        BY <1>0, <2>1, <2>2, Zenon
      <3> QED
        BY <2>1, <2>2, <3>1, Ignores
    <2>3. CASE ~(inbox[d] = "staged" /\ d \in past[n])
      <3>1. inbox' = inbox
        BY <1>0, <2>1, <2>3, Zenon
      <3> QED
        BY <2>1, <3>1, Stutters, Zenon
    <2> QED
      BY <2>2, <2>3, Zenon
  <1>3. CASE CommitPeerAdmission(n, s)
    <2> DEFINE row == IF Decision(n, d) = "replay" THEN inbox[d] ELSE Decision(n, d)
    <2>1. UNCHANGED outbox /\ d \in Ids /\ outbox[d] # "none" /\ inbox' = [inbox EXCEPT ![d] = row]
      BY <1>0, <1>3, Zenon DEF CommitPeerAdmission
    <2>2. row = inbox[d] \/ (inbox[d] = "staged" /\ row \in {"accepted", "rejected", "expired"})
      BY Zenon DEF Decision
    <2> HIDE DEF d, row
    <2>3. inbox'[d] = row /\ \A e \in Ids \ {d} : inbox'[e] = inbox[e]
      BY <1>0, <2>1, Zenon
    <2>4. CASE row = inbox[d]
      <3>1. inbox' = inbox
        BY <1>0, <2>1, <2>4, Zenon
      <3> QED
        BY <2>1, <3>1, Stutters, Zenon
    <2>5. CASE inbox[d] = "staged" /\ row = "expired"
      BY <2>1, <2>3, <2>5, Ignores, Zenon
    <2>6. CASE inbox[d] = "staged" /\ row \in Receipts
      <3>1. {} \in SUBSET Ids /\ d \notin {}
        BY Zenon
      <3> QED
        BY <2>1, <2>3, <2>6, <3>1, Decides, Zenon
    <2> QED
      BY <2>2, <2>4, <2>5, <2>6, Zenon DEF Receipts
  <1>4. CASE StageRefused(n, s) \/ Pull(n, s) \/ PullRefused(n, s) \/ CatalogArtifact(n, s) \/ Respond(n, s)
    BY <1>4, Stutters, Zenon DEF StageRefused, Pull, PullRefused, PullUnavailable, CatalogArtifact, Respond, store
  <1> QED
    BY <1>1, <1>2, <1>3, <1>4, Zenon DEF Handle

LEMMA StepImplements == EInv /\ [Next]_vars => ContractStep
  <1> SUFFICES ASSUME EInv, [Next]_vars PROVE ContractStep
    BY Zenon
  <1>1. CASE UNCHANGED vars
    BY <1>1, Stutters, Zenon DEF vars, store
  <1>2. CASE Next
    <2>1. UNCHANGED world /\ Step
      BY <1>2, Zenon DEF Next
    <2>2. PICK n \in Nodes :
            \/ LocalAdmission(n) \/ Exchange(n) \/ (\E s \in Slots : Handle(n, s)) \/ Fault(n)
            \/ RevokePeerRoute(n) \/ (\E d \in Made : ClockPasses(n, d))
      BY <2>1, Zenon DEF Step
    <2>3. CASE LocalAdmission(n)
      BY <2>1, <2>3, LocalPosts, Zenon
    <2>4. CASE Poll(n) \/ Settle(n) \/ RevokePeerRoute(n)
      BY <2>4, OutboxLearns, Zenon
    <2>5. CASE \E s \in Slots : Handle(n, s)
      BY <2>5, HandlerDecides, Zenon
    <2>6. CASE Send(n) \/ SendRefused(n) \/ Fault(n) \/ \E d \in Made : ClockPasses(n, d)
      BY <2>6, Stutters, Zenon DEF Send, SendRefused, Skip, Fault, SendFails, Timeout, Restart, HandlerFails,
         PullLost, PullUnavailable, ClockPasses, store
    <2> QED
      BY <2>2, <2>3, <2>4, <2>5, <2>6, Zenon DEF Exchange
  <1> QED
    BY <1>1, <1>2, Zenon

(***************************************************************************)
(* Every behaviour of the exchange is one of DeliveryContract: the         *)
(* receiver decides each delivery once and for good, and what the sender   *)
(* learns is that decision (SettlePeerDelivery, preparePeerAdmissionTx).   *)
(***************************************************************************)
THEOREM ExchangeImplements == Spec => Implements
  <1>1. Init => Contract!Init
    BY Zenon DEF Init, Contract!Init
  <1>2. ContractStep <=> [Contract!Next]_<<outbox, Decided>>
    BY Zenon DEF ContractStep
  <1> QED
    BY <1>1, <1>2, EInitInv, ENextInv, StepImplements, PTL
       DEF Spec, Implements, Contract!Spec, Decided
=============================================================================
