--------------------------- MODULE AdmissionProofs ---------------------------
(***************************************************************************)
(* Admission for any number of calls, operation keys, References and       *)
(* Artifacts: one Event per operation and one chain per Reference.         *)
(*                                                                         *)
(* After it come the two components that keep files beside the authority:  *)
(* the artifact store whose objects an admission pins, and the installer   *)
(* that projects the agent's files.                                        *)
(***************************************************************************)
EXTENDS AdmissionProperties, ObjectStore, PiInstall, TLAPS

Entry == [op : Ops, req : Request]

Receipts ==
    {NoReceipt} \cup [outcome : {"rejected"}, req : Request]
        \cup [outcome : {"accepted"}, req : Request, event : Heads]

\* The phases in which a call holds a request it has not answered.
Open == {"begun", "checked", "verified"}

Types ==
    /\ world \in World
    /\ waiting \in Nat
    /\ claim \in 0..MaxFence
    /\ fence \in 0..MaxFence
    /\ route \in BOOLEAN
    /\ refs \in [Keys -> Reference]
    /\ events \in Seq(Entry)
    /\ ops \in [Ops -> Receipts]
    /\ views \subseteq View
    /\ DOMAIN calls = Calls
    /\ \A c \in Calls :
        /\ calls[c].phase \in Open \cup {"idle", "done"}
        /\ calls[c].phase # "idle" => calls[c].op \in Ops /\ calls[c].req \in Request

\* What binding to a View leaves in a request: a Reference Event names a key,
\* and a citation names an Event in the lineage of some Reference.
Rooted(r) ==
    /\ r.cons \in ReferenceEvents => r.key \in Keys
    /\ r.cite # 0 => \E k \in Keys : r.cite \in Lineage(k)

\* Requests in flight, requests in the ledger and frozen Views speak only of
\* heads that are in a lineage.
Grounded ==
    /\ \A v \in views, k \in Keys :
        v.refs[k].state # "absent" => v.refs[k].head \in Lineage(k)
    /\ \A c \in Calls : calls[c].phase \in Open => Rooted(calls[c].req)
    /\ \A e \in 1..Len(events) : Rooted(events[e].req)

\* An answered call has a durable Receipt: the ledger never forgets a key.
AnsweredIsDurable ==
    \A c \in Calls : calls[c].phase = "done" => ops[calls[c].op] # NoReceipt

AInv ==
    /\ Types
    /\ Grounded
    /\ AnsweredIsDurable
    /\ OneEventPerOperation
    /\ LineageIsAChain

\* What the answer of a call has to do with the ledger.
Tells(row) ==
    IF row.answer = Conflict
    THEN ops[row.op] # NoReceipt /\ ops[row.op].req # row.req
    ELSE ops[row.op] = row.answer /\ row.answer.req = row.req

\* An empty authority satisfies the invariant.
LEMMA InitInv == Init => AInv
  <1> SUFFICES ASSUME Init PROVE AInv
    BY Zenon
  <1> USE NamesAssumption, LimitsAssumption, WorldsAssumption
  <1>1. Len(events) = 0 /\ events \in Seq(Entry)
    BY DEF Init
  <1>2. \A c \in Calls : calls[c].phase = "idle"
    BY Zenon DEF Init, Idle
  <1>3. \A o \in Ops : ops[o] = NoReceipt /\ ops[o].outcome = "none"
    BY Zenon DEF Init, NoReceipt
  <1>4. \A k \in Keys : refs[k].head = 0 /\ refs[k].state = "absent" /\ Lineage(k) = {}
    BY <1>1 DEF Init, Lineage
  <1>5. refs \in [Keys -> Reference]
    BY DEF Init, Reference, Heads
  <1>6. Types
    BY <1>1, <1>2, <1>3, <1>5 DEF Init, Types, Receipts, Open
  <1>7. Grounded /\ AnsweredIsDurable
    BY <1>1, <1>2 DEF Init, Grounded, AnsweredIsDurable, Open
  <1>8. OneEventPerOperation
    BY <1>1, <1>2, <1>3 DEF OneEventPerOperation
  <1>9. LineageIsAChain
    BY <1>1, <1>4 DEF LineageIsAChain
  <1> QED
    BY <1>6, <1>7, <1>8, <1>9, Zenon DEF AInv

\* Steps that touch neither ledger nor calls nor Views, and take nothing out
\* of the catalogue.
LEMMA QuietStep ==
    ASSUME AInv, UNCHANGED <<refs, events, ops, views, calls, world>>,
           catalog \subseteq catalog',
           waiting' \in Nat, claim' \in 0..MaxFence, fence' \in 0..MaxFence,
           route' \in BOOLEAN
    PROVE  AInv'
  <1>1. Types'
    BY Zenon DEF AInv, Types
  <1>2. \A k : Lineage(k)' = Lineage(k)
    BY Zenon DEF Lineage
  <1>3. Grounded'
    BY <1>2, Zenon DEF AInv, Grounded, Rooted
  <1>4. AnsweredIsDurable'
    BY Zenon DEF AInv, AnsweredIsDurable
  <1>5. OneEventPerOperation'
    BY Zenon DEF AInv, OneEventPerOperation
  <1>6. LineageIsAChain'
    BY <1>2 DEF AInv, LineageIsAChain
  <1> QED
    BY <1>1, <1>3, <1>4, <1>5, <1>6, Zenon DEF AInv

\* A step of one call that leaves the store alone.
LEMMA CallStep ==
    ASSUME AInv, NEW c \in Calls, NEW row,
           calls' = [calls EXCEPT ![c] = row],
           UNCHANGED <<focus, peers, files, ledger, world>>,
           row.phase \in Open \cup {"idle", "done"},
           row.phase # "idle" => row.op \in Ops /\ row.req \in Request,
           row.phase \in Open => Rooted(row.req),
           row.phase = "done" => ops[row.op] # NoReceipt /\ Tells(row)
    PROVE  AInv'
  <1> USE DEF focus, peers, files, ledger
  <1>1. \A d \in Calls : calls'[d] = IF d = c THEN row ELSE calls[d]
    BY Zenon DEF AInv, Types
  <1>2. Types'
    BY <1>1, Zenon DEF AInv, Types
  <1>3. \A k : Lineage(k)' = Lineage(k)
    BY Zenon DEF Lineage
  <1>4. \A r : Rooted(r)' <=> Rooted(r)
    BY <1>3, Zenon DEF Rooted
  <1>5. Grounded'
    BY <1>1, <1>3, <1>4, Zenon DEF AInv, Grounded
  <1>6. AnsweredIsDurable'
    BY <1>1, Zenon DEF AInv, AnsweredIsDurable
  <1>7. OneEventPerOperation'
    <2>1. \A d \in Calls : calls'[d].phase = "done" => Tells(calls'[d])
      <3>1. \A d \in Calls : calls[d].phase = "done" => Tells(calls[d])
        BY Zenon DEF AInv, OneEventPerOperation, Tells
      <3> QED
        BY <1>1, <3>1, Zenon
    <2> QED
      BY <2>1, Zenon DEF AInv, OneEventPerOperation, Tells
  <1>8. LineageIsAChain'
    BY <1>3 DEF AInv, LineageIsAChain
  <1> QED
    BY <1>2, <1>5, <1>6, <1>7, <1>8, Zenon DEF AInv

\* Binding produces a request, and one that is Rooted: what it cites was the
\* head of a Reference in the View.
LEMMA BoundRequest ==
    ASSUME AInv, NEW v \in views, NEW s \in Shape, Binds(v, s)
    PROVE  BindIntent(v, s) \in Request /\ Rooted(BindIntent(v, s))
  <1> USE NamesAssumption, LimitsAssumption
  <1> DEFINE r == BindIntent(v, s)
  <1>1. /\ v \in View /\ v.subject \in 0..MaxFence
        /\ \A k \in Keys : v.refs[k] \in Reference /\ v.refs[k].head \in Heads
    BY Zenon DEF AInv, Types, View, Reference
  <1>2. /\ s.cons \in Consequences /\ s.key \in Keys \cup {NoKey}
        /\ s.cite \in Keys \cup {NoKey} /\ s.remote \in BOOLEAN /\ s.art \in Arts \cup {NoArt}
    BY Zenon DEF Shape
  <1>3. s.cons \in ReferenceEvents => s.key \in Keys
    BY <1>2, Zenon DEF Binds, WellShaped, ReferenceEvents
  <1>4. /\ r.view = v /\ r.cons = s.cons /\ r.key = s.key /\ r.remote = s.remote
        /\ r.art = s.art
        /\ r.exp = IF s.cons \in {"supersede", "retract"} THEN v.refs[s.key].head ELSE 0
        /\ r.cite = IF s.cite = NoKey THEN 0 ELSE v.refs[s.cite].head
        /\ r.subject = IF s.cons \in {"advance", "complete"} THEN v.subject ELSE 0
    BY Zenon DEF BindIntent
  <1>5. r.exp \in Heads /\ r.cite \in Heads /\ r.subject \in 0..MaxFence
    BY <1>1, <1>2, <1>3, <1>4 DEF Heads, ReferenceEvents
  <1>6. r \in Request
    BY <1>1, <1>2, <1>4, <1>5, Zenon DEF Request, BindIntent
  <1>7. r.cite # 0 => s.cite \in Keys /\ r.cite \in Lineage(s.cite)
    BY <1>2, <1>4, Zenon DEF AInv, Grounded, Binds
  <1>8. Rooted(r)
    BY <1>3, <1>4, <1>7, Zenon DEF Rooted
  <1> QED
    BY <1>6, <1>8, Zenon

LEMMA SubmitInv ==
    ASSUME AInv, NEW c \in Calls, NEW o \in world.ops, Submit(c, o), UNCHANGED world
    PROVE  AInv'
  <1>1. PICK v \in views, s \in world.shapes :
          /\ Binds(v, s)
          /\ calls' = [calls EXCEPT ![c] =
                Call("begun", o, BindIntent(v, s), ~expired, FALSE, FALSE)]
    BY Zenon DEF Submit
  <1>2. o \in Ops /\ s \in Shape
    BY Zenon DEF AInv, Types, World
  <1> DEFINE r == BindIntent(v, s)
             row == Call("begun", o, r, ~expired, FALSE, FALSE)
  <1>3. r \in Request /\ Rooted(r)
    BY <1>1, <1>2, BoundRequest, Zenon
  <1>4. row.phase = "begun" /\ row.op = o /\ row.req = r
    BY Zenon DEF Call
  <1> HIDE DEF row, r
  <1>5. calls' = [calls EXCEPT ![c] = row]
    BY <1>1, Zenon DEF row, r
  <1> QED
    BY <1>2, <1>3, <1>4, <1>5, CallStep, Zenon DEF Open, Submit

\* A replay answers with the Receipt of the key, or with a conflict.
LEMMA ReplayTells ==
    ASSUME AInv, NEW o \in Ops, NEW r, ops[o] # NoReceipt
    PROVE  Tells(Answered(o, r, Replay(o, r)))
  <1>1. ops[o].outcome # "conflict"
    BY Zenon DEF AInv, Types, Receipts, NoReceipt
  <1>2. ops[o] # Conflict
    BY <1>1 DEF Conflict
  <1> DEFINE row == Answered(o, r, Replay(o, r))
  <1>3. row.op = o /\ row.req = r /\ row.answer = Replay(o, r)
    BY Zenon DEF Answered
  <1> QED
    BY <1>2, <1>3, Zenon DEF Tells, Replay

\* An operation key that has a Receipt is answered without any effect.
LEMMA ReplayInv ==
    ASSUME AInv, NEW c \in Calls, calls[c].phase \in Open, ops[calls[c].op] # NoReceipt,
           calls' = [calls EXCEPT ![c] =
                Answered(calls[c].op, calls[c].req, Replay(calls[c].op, calls[c].req))],
           UNCHANGED <<focus, peers, files, ledger, world>>
    PROVE  AInv'
  <1> DEFINE o == calls[c].op
             r == calls[c].req
             row == Answered(o, r, Replay(o, r))
  <1>1. o \in Ops /\ r \in Request
    BY Zenon DEF AInv, Types, Open
  <1>2. row.phase = "done" /\ row.op = o /\ row.req = r
    BY Zenon DEF Answered
  <1>3. Tells(row)
    BY <1>1, ReplayTells, Zenon
  <1>4. calls' = [calls EXCEPT ![c] = row]
    BY Zenon
  <1>5. row.phase \notin Open /\ row.phase # "idle"
    BY <1>2, Zenon DEF Open
  <1>6. row.op \in Ops /\ row.req \in Request /\ ops[row.op] # NoReceipt
    BY <1>1, <1>2, Zenon
  <1> HIDE DEF row
  <1> QED
    BY <1>2, <1>3, <1>4, <1>5, <1>6, CallStep, Zenon

LEMMA PreflightInv ==
    ASSUME AInv, NEW c \in Calls, PreflightAdmission(c), UNCHANGED world
    PROVE  AInv'
  <1> DEFINE o == calls[c].op
             r == calls[c].req
             ok == /\ ~ended /\ calls[c].live
                   /\ Authorized(r)
                   /\ r.art # NoArt /\ Catalogued(r)
             row == Call("checked", o, r, FALSE, ok, FALSE)
  <1>1. calls[c].phase \in Open
    BY Zenon DEF PreflightAdmission, Open
  <1>2. CASE ops[o] # NoReceipt
    BY <1>1, <1>2, ReplayInv, Zenon DEF PreflightAdmission
  <1>3. CASE ops[o] = NoReceipt
    <2>1. o \in Ops /\ r \in Request /\ Rooted(r)
      BY <1>1, Zenon DEF AInv, Types, Grounded, Open
    <2>2. calls' = [calls EXCEPT ![c] = row]
      BY <1>3, Zenon DEF PreflightAdmission
    <2> HIDE DEF ok
    <2>3. row.phase = "checked" /\ row.op = o /\ row.req = r
      BY Zenon DEF Call
    <2> HIDE DEF row
    <2> QED
      BY <2>1, <2>2, <2>3, CallStep, Zenon DEF PreflightAdmission, Open
  <1> QED
    BY <1>2, <1>3, Zenon

LEMMA VerifyInv ==
    ASSUME AInv, NEW c \in Calls, VerifyAdmissionArtifacts(c), UNCHANGED world
    PROVE  AInv'
  <1> DEFINE o == calls[c].op
             r == calls[c].req
             bad == calls[c].checks /\ bytes[r.art] # "good"
             row == Call("verified", o, r, ~expired, calls[c].checks, bad)
  <1>1. calls[c].phase \in Open
    BY Zenon DEF VerifyAdmissionArtifacts, Open
  <1>2. o \in Ops /\ r \in Request /\ Rooted(r)
    BY <1>1, Zenon DEF AInv, Types, Grounded, Open
  <1>3. calls' = [calls EXCEPT ![c] = row]
    BY Zenon DEF VerifyAdmissionArtifacts
  <1> HIDE DEF bad
  <1>4. row.phase = "verified" /\ row.op = o /\ row.req = r
    BY Zenon DEF Call
  <1> HIDE DEF row
  <1> QED
    BY <1>2, <1>3, <1>4, CallStep, Zenon DEF VerifyAdmissionArtifacts, Open

LEMMA CancelInv ==
    ASSUME AInv, NEW c \in Calls, Cancel(c), UNCHANGED world
    PROVE  AInv'
  <1>1. Idle.phase = "idle"
    BY Zenon DEF Idle
  <1>2. calls' = [calls EXCEPT ![c] = Idle]
    BY Zenon DEF Cancel
  <1> QED
    BY <1>1, <1>2, CallStep, Zenon DEF Cancel, Open

\* Current freezes the References as they are: each that is not absent shows
\* the head of its lineage.
LEMMA CurrentInv ==
    ASSUME AInv, Current, UNCHANGED world
    PROVE  AInv'
  <1> USE LimitsAssumption DEF peers, files, ledger
  <1> DEFINE taken == claim = 0 /\ waiting > 0
             granted == IF taken THEN fence + 1 ELSE claim
             view == [subject |-> granted, route |-> route, refs |-> refs]
  <1>1. /\ claim' = granted
        /\ fence' = (IF taken THEN fence + 1 ELSE fence)
        /\ waiting' = (IF taken THEN waiting - 1 ELSE waiting)
        /\ views' = views \cup {view}
        /\ taken => fence < MaxFence
        /\ UNCHANGED <<ended, expired, route, pending, catalog, bytes, refs, events, ops, calls>>
    BY Zenon DEF Current
  <1>2. waiting \in Nat /\ claim \in 0..MaxFence /\ fence \in 0..MaxFence
    BY Zenon DEF AInv, Types
  <1>3. granted \in 0..MaxFence /\ waiting' \in Nat /\ fence' \in 0..MaxFence
    BY <1>1, <1>2
  <1>4. view.refs = refs
    BY Zenon
  <1>5. view \in View
    BY <1>3, Zenon DEF AInv, Types, View
  <1> HIDE DEF view, granted, taken
  <1>6. Types'
    BY <1>1, <1>3, <1>5, Zenon DEF AInv, Types
  <1>7. \A k : Lineage(k)' = Lineage(k)
    BY <1>1, Zenon DEF Lineage
  <1>8. \A k \in Keys : refs[k].state # "absent" => refs[k].head \in Lineage(k)
    BY Zenon DEF AInv, LineageIsAChain
  <1>9. Grounded'
    BY <1>1, <1>4, <1>7, <1>8, Zenon DEF AInv, Grounded, Rooted
  <1>10. AnsweredIsDurable'
    BY <1>1, Zenon DEF AInv, AnsweredIsDurable
  <1>11. OneEventPerOperation'
    BY <1>1, Zenon DEF AInv, OneEventPerOperation
  <1>12. LineageIsAChain'
    BY <1>1, <1>7 DEF AInv, LineageIsAChain
  <1> QED
    BY <1>6, <1>9, <1>10, <1>11, <1>12, Zenon DEF AInv

\* The operation of an Event has a Receipt, so a key without one has no Event.
LEMMA EventsAreReceipted ==
    ASSUME AInv, NEW e \in 1..Len(events)
    PROVE  /\ events[e] \in Entry
           /\ events[e].op \in Ops
           /\ events[e].req \in Request
           /\ ops[events[e].op] # NoReceipt
  <1>1. events[e] \in Entry
    BY DEF AInv, Types
  <1> DEFINE receipt == [outcome |-> "accepted", req |-> events[e].req, event |-> e]
  <1>2. ops[events[e].op] = receipt
    BY Zenon DEF AInv, OneEventPerOperation
  <1>3. receipt # NoReceipt
    BY Zenon DEF NoReceipt
  <1> QED
    BY <1>1, <1>2, <1>3, Zenon DEF Entry

\* A first rejection takes the key for good and writes no Event.
LEMMA RejectInv ==
    ASSUME AInv, NEW c \in Calls, calls[c].phase \in Open, ops[calls[c].op] = NoReceipt,
           Reject(c, calls[c].op, calls[c].req), UNCHANGED world
    PROVE  AInv'
  <1> USE DEF focus, peers, files
  <1> DEFINE o == calls[c].op
             r == calls[c].req
             receipt == [outcome |-> "rejected", req |-> r]
             row == Answered(o, r, receipt)
  <1>1. o \in Ops /\ r \in Request
    BY Zenon DEF AInv, Types, Open
  <1>2. /\ ops' = [ops EXCEPT ![o] = receipt]
        /\ calls' = [calls EXCEPT ![c] = row]
        /\ UNCHANGED <<ended, expired, waiting, claim, fence, views, route, pending, catalog,
                       bytes, refs, events>>
    BY Zenon DEF Reject
  <1>3. receipt \in Receipts /\ receipt.outcome = "rejected" /\ receipt.req = r
    BY <1>1, Zenon DEF Receipts
  <1>4. receipt # NoReceipt /\ receipt # Conflict
    BY Zenon DEF NoReceipt, Conflict
  <1>5. row.phase = "done" /\ row.op = o /\ row.req = r /\ row.answer = receipt
    BY Zenon DEF Answered
  <1> HIDE DEF receipt, row
  <1>6. \A p \in Ops : ops'[p] = IF p = o THEN receipt ELSE ops[p]
    BY <1>2, Zenon DEF AInv, Types
  <1>7. \A d \in Calls : calls'[d] = IF d = c THEN row ELSE calls[d]
    BY <1>2, Zenon DEF AInv, Types
  <1>8. Types'
    BY <1>1, <1>2, <1>3, <1>5, <1>7, Zenon DEF AInv, Types
  <1>9. \A k : Lineage(k)' = Lineage(k)
    BY <1>2, Zenon DEF Lineage
  <1>10. \A q : Rooted(q)' <=> Rooted(q)
    BY <1>9, Zenon DEF Rooted
  <1>11. Grounded'
    BY <1>2, <1>5, <1>7, <1>9, <1>10, Zenon DEF AInv, Grounded, Open
  <1>12. AnsweredIsDurable'
    BY <1>1, <1>4, <1>5, <1>6, <1>7 DEF AInv, Types, AnsweredIsDurable
  <1>14. \A e \in 1..Len(events) : events[e].op # o /\ events[e].op \in Ops
    BY EventsAreReceipted, Zenon
  <1>15. \A d \in Calls : d # c /\ calls[d].phase = "done" => calls[d].op # o /\ calls[d].op \in Ops
    BY Zenon DEF AInv, Types, AnsweredIsDurable
  <1>16. OneEventPerOperation'
    <2>1. \A e \in 1..Len(events') :
            ops'[events'[e].op] = [outcome |-> "accepted", req |-> events'[e].req, event |-> e]
      BY <1>2, <1>6, <1>14 DEF AInv, OneEventPerOperation
    <2>2. \A p \in Ops : ops'[p].outcome = "accepted" =>
            ops'[p].event \in 1..Len(events') /\ events'[ops'[p].event].op = p
      BY <1>2, <1>3, <1>6 DEF AInv, OneEventPerOperation
    <2>3. \A d \in Calls : calls'[d].phase = "done" => Tells(calls[d])'
      <3> SUFFICES ASSUME NEW d \in Calls, calls'[d].phase = "done" PROVE Tells(calls[d])'
        BY Zenon
      <3>1. CASE d = c
        BY <3>1, <1>1, <1>3, <1>4, <1>5, <1>6, <1>7 DEF Tells
      <3>2. CASE d # c
        <4>1. calls'[d] = calls[d] /\ calls[d].phase = "done"
          BY <3>2, <1>7, Zenon
        <4>2. Tells(calls[d])
          BY <4>1, Zenon DEF AInv, OneEventPerOperation, Tells
        <4>3. ops'[calls[d].op] = ops[calls[d].op]
          BY <1>6, <1>15, <3>2, <4>1, Zenon
        <4> QED
          BY <4>1, <4>2, <4>3, Zenon DEF Tells
      <3> QED
        BY <3>1, <3>2, Zenon
    <2> QED
      BY <2>1, <2>2, <2>3, Zenon DEF OneEventPerOperation, Tells
  <1>17. LineageIsAChain'
    BY <1>2, <1>9 DEF AInv, LineageIsAChain
  <1> QED
    BY <1>8, <1>11, <1>12, <1>16, <1>17, Zenon DEF AInv

\* What an accepted operation appends, and what its validation found.
LEMMA AcceptedStep ==
    ASSUME AInv, NEW c \in Calls, calls[c].phase \in Open,
           Admissible(calls[c]), Accept(c, calls[c].op, calls[c].req), UNCHANGED world
    PROVE  LET n == Len(events)
               e == n + 1
               r == calls[c].req
           IN /\ n \in Nat /\ e \in 1..MaxEvents
              /\ Len(events') = e
              /\ events' \in Seq(Entry)
              /\ \A i \in 1..n : events'[i] = events[i]
              /\ events'[e].op = calls[c].op /\ events'[e].req = r
              /\ \A k : Lineage(k)' = Lineage(k)
                    \cup (IF r.cons \in ReferenceEvents /\ r.key = k THEN {e} ELSE {})
              /\ \A k \in Keys : refs'[k] =
                    IF r.cons \in ReferenceEvents /\ r.key = k
                    THEN [head |-> e, state |-> IF r.cons = "retract" THEN "retracted" ELSE "active"]
                    ELSE refs[k]
              /\ refs' \in [Keys -> Reference]
  <1> USE LimitsAssumption
  <1> DEFINE n == Len(events)
             e == n + 1
             o == calls[c].op
             r == calls[c].req
             entry == [op |-> o, req |-> r]
             row == [head |-> e, state |-> IF r.cons = "retract" THEN "retracted" ELSE "active"]
  <1>1. o \in Ops /\ r \in Request /\ Rooted(r)
    BY Zenon DEF AInv, Types, Grounded, Open
  <1>2. n \in Nat /\ events \in Seq(Entry) /\ world.events \in 0..MaxEvents
    BY DEF AInv, Types, World
  <1>3. /\ e <= world.events
        /\ events' = Append(events, entry)
        /\ refs' = ReferencesAfter(r, e)
    BY Zenon DEF Accept
  <1>4. e \in 1..MaxEvents
    BY <1>2, <1>3
  <1>5. entry \in Entry /\ entry.op = o /\ entry.req = r
    BY <1>1, Zenon DEF Entry
  <1> HIDE DEF entry
  <1>6. /\ Len(events') = e /\ events' \in Seq(Entry)
        /\ \A i \in 1..n : events'[i] = events[i]
        /\ events'[e] = entry
    BY <1>2, <1>3, <1>5
  <1>7. ASSUME NEW k
        PROVE  Lineage(k)' = Lineage(k)
                    \cup (IF r.cons \in ReferenceEvents /\ r.key = k THEN {e} ELSE {})
    <2>1. 1..e = (1..n) \cup {e}
      BY <1>2
    <2>2. Lineage(k)' = {i \in 1..e : events'[i].req.cons \in ReferenceEvents /\ events'[i].req.key = k}
      BY <1>6, Zenon DEF Lineage
    <2> HIDE DEF e, r, n
    <2> QED
      BY <2>1, <2>2, <1>5, <1>6, Zenon DEF Lineage, n
  <1>8. row \in Reference
    BY <1>4 DEF Reference, Heads
  <1> HIDE DEF row
  <1>9. refs \in [Keys -> Reference]
    BY Zenon DEF AInv, Types
  <1>10. /\ refs' \in [Keys -> Reference]
         /\ \A k \in Keys : refs'[k] =
                IF r.cons \in ReferenceEvents /\ r.key = k THEN row ELSE refs[k]
    BY <1>1, <1>3, <1>8, <1>9, SMTT(30) DEF ReferencesAfter, Rooted, row
  <1> QED
    BY <1>2, <1>4, <1>5, <1>6, <1>7, <1>10, Zenon DEF row

\* The chain of every Reference after an accepted operation: a publish found
\* no lineage, a supersede or retract found its expected head at the end of
\* it, and the cited Event was still a head.
LEMMA AcceptChain ==
    ASSUME AInv, NEW c \in Calls, calls[c].phase \in Open,
           Admissible(calls[c]), Accept(c, calls[c].op, calls[c].req), UNCHANGED world
    PROVE  LineageIsAChain'
  <1> DEFINE n == Len(events)
             e == n + 1
             r == calls[c].req
  <1>1. /\ n \in Nat
        /\ Len(events') = e
        /\ \A i \in 1..n : events'[i] = events[i]
        /\ events'[e].req = r
        /\ \A k : Lineage(k)' = Lineage(k)
              \cup (IF r.cons \in ReferenceEvents /\ r.key = k THEN {e} ELSE {})
        /\ \A k \in Keys : refs'[k] =
              IF r.cons \in ReferenceEvents /\ r.key = k
              THEN [head |-> e, state |-> IF r.cons = "retract" THEN "retracted" ELSE "active"]
              ELSE refs[k]
    BY AcceptedStep, Zenon
  <1>2. /\ ReferenceExpectationHolds(r)
        /\ ReferenceCitationsHold(r)
        /\ Rooted(r)
    BY Zenon DEF Admissible, Authorized, AInv, Grounded
  <1>3. \A k : Lineage(k) \subseteq 1..n
    BY Zenon DEF Lineage
  <1>4. \A i \in 1..n : Rooted(events[i].req)
    BY Zenon DEF AInv, Grounded
  <1> HIDE DEF e, n, r
  <1> SUFFICES ASSUME NEW k \in Keys
               PROVE
        /\ \A i \in Lineage(k)' :
            LET before == {d \in Lineage(k)' : d < i}
                prior == events'[i].req.exp
            IN /\ events'[i].req.cons = "publish" <=> before = {}
               /\ before # {} => prior \in before /\ \A d \in before : d <= prior
               /\ events'[i].req.cons = "retract" => events'[prior].req.cons # "retract"
        /\ IF Lineage(k)' = {}
           THEN refs'[k].state = "absent" /\ refs'[k].head = 0
           ELSE /\ refs'[k].head \in Lineage(k)'
                /\ \A i \in Lineage(k)' : i <= refs'[k].head
                /\ refs'[k].state =
                    IF events'[refs'[k].head].req.cons = "retract"
                    THEN "retracted" ELSE "active"
        /\ \A i \in 1..Len(events') :
            LET cited == events'[i].req.cite
            IN cited # 0 /\ events'[cited].req.key = k =>
                /\ cited < i
                /\ cited \in Lineage(k)'
                /\ ~\E d \in Lineage(k)' : cited < d /\ d < i
    BY Zenon DEF LineageIsAChain
  <1>5. \A i \in Lineage(k) : i \in 1..n /\ events'[i] = events[i] /\ i < e
    BY <1>1, <1>3 DEF e
  <1>6. \A i \in Lineage(k) :
            LET before == {d \in Lineage(k) : d < i}
                prior == events[i].req.exp
            IN /\ events[i].req.cons = "publish" <=> before = {}
               /\ before # {} => prior \in before /\ \A d \in before : d <= prior
               /\ events[i].req.cons = "retract" => events[prior].req.cons # "retract"
    BY Zenon DEF AInv, LineageIsAChain
  <1>7. IF Lineage(k) = {}
        THEN refs[k].state = "absent" /\ refs[k].head = 0
        ELSE /\ refs[k].head \in Lineage(k)
             /\ \A i \in Lineage(k) : i <= refs[k].head
             /\ refs[k].state =
                 IF events[refs[k].head].req.cons = "retract" THEN "retracted" ELSE "active"
    BY Zenon DEF AInv, LineageIsAChain
  <1>8. ASSUME NEW i \in Lineage(k)
        PROVE  LET before == {d \in Lineage(k)' : d < i}
                   prior == events'[i].req.exp
               IN /\ events'[i].req.cons = "publish" <=> before = {}
                  /\ before # {} => prior \in before /\ \A d \in before : d <= prior
                  /\ events'[i].req.cons = "retract" => events'[prior].req.cons # "retract"
    <2>1. {d \in Lineage(k)' : d < i} = {d \in Lineage(k) : d < i}
      BY <1>1, <1>5 DEF e
    <2>2. \/ {d \in Lineage(k) : d < i} = {} /\ events[i].req.cons = "publish"
          \/ events[i].req.exp \in Lineage(k)
      BY <1>6, Zenon
    <2> QED
      BY <1>5, <1>6, <2>1, <2>2
  <1>9. /\ \A i \in Lineage(k)' :
            LET before == {d \in Lineage(k)' : d < i}
                prior == events'[i].req.exp
            IN /\ events'[i].req.cons = "publish" <=> before = {}
               /\ before # {} => prior \in before /\ \A d \in before : d <= prior
               /\ events'[i].req.cons = "retract" => events'[prior].req.cons # "retract"
        /\ IF Lineage(k)' = {}
           THEN refs'[k].state = "absent" /\ refs'[k].head = 0
           ELSE /\ refs'[k].head \in Lineage(k)'
                /\ \A i \in Lineage(k)' : i <= refs'[k].head
                /\ refs'[k].state =
                    IF events'[refs'[k].head].req.cons = "retract"
                    THEN "retracted" ELSE "active"
    <2>a. CASE r.cons \in ReferenceEvents /\ r.key = k
      <3>1. /\ Lineage(k)' = Lineage(k) \cup {e}
            /\ refs'[k].head = e
            /\ refs'[k].state = IF r.cons = "retract" THEN "retracted" ELSE "active"
        BY <1>1, <2>a
      <3>2. {d \in Lineage(k)' : d < e} = Lineage(k)
        BY <3>1, <1>1, <1>5 DEF e
      <3>3. r.cons = "publish" => Lineage(k) = {}
        BY <1>2, <1>7, <2>a, Zenon DEF ReferenceExpectationHolds
      <3>4. r.cons \in {"supersede", "retract"} =>
              Lineage(k) # {} /\ r.exp = refs[k].head /\ r.exp \in Lineage(k)
        BY <1>2, <1>7, <2>a, Zenon DEF ReferenceExpectationHolds
      <3>5. r.cons = "retract" => events[r.exp].req.cons # "retract"
        BY <1>2, <1>7, <2>a, <3>4, SMTT(30) DEF ReferenceExpectationHolds
      <3>6. LET before == {d \in Lineage(k)' : d < e}
                prior == events'[e].req.exp
            IN /\ events'[e].req.cons = "publish" <=> before = {}
               /\ before # {} => prior \in before /\ \A d \in before : d <= prior
               /\ events'[e].req.cons = "retract" => events'[prior].req.cons # "retract"
        BY <1>1, <1>5, <1>7, <2>a, <3>2, <3>3, <3>4, <3>5, Zenon DEF ReferenceEvents
      <3>7. /\ refs'[k].head \in Lineage(k)'
            /\ \A i \in Lineage(k)' : i <= refs'[k].head
            /\ refs'[k].state =
                 IF events'[refs'[k].head].req.cons = "retract" THEN "retracted" ELSE "active"
        BY <1>1, <1>5, <3>1 DEF e
      <3> QED
        BY <1>8, <3>1, <3>6, <3>7, Zenon
    <2>b. CASE ~(r.cons \in ReferenceEvents /\ r.key = k)
      <3>1. Lineage(k)' = Lineage(k) /\ refs'[k] = refs[k]
        BY <1>1, <2>b, Zenon
      <3>2. Lineage(k) # {} => events'[refs[k].head] = events[refs[k].head]
        BY <1>5, <1>7, Zenon
      <3> QED
        BY <1>7, <1>8, <3>1, <3>2, Zenon
    <2> QED
      BY <2>a, <2>b, Zenon
  <1>10. ASSUME NEW i \in 1..Len(events'),
                events'[i].req.cite # 0, events'[events'[i].req.cite].req.key = k
         PROVE  LET cited == events'[i].req.cite
                IN /\ cited < i
                   /\ cited \in Lineage(k)'
                   /\ ~\E d \in Lineage(k)' : cited < d /\ d < i
    <2> DEFINE cited == events'[i].req.cite
    <2>1. CASE i \in 1..n
      <3>1. events'[i] = events[i] /\ cited = events[i].req.cite
        BY <1>1, <2>1, Zenon
      <3>2. cited \in 1..n
        BY <1>3, <1>4, <1>10, <2>1, <3>1, Zenon DEF Rooted
      <3>3. events[cited].req.key = k
        BY <1>1, <1>10, <3>2, Zenon
      <3>4. cited < i /\ cited \in Lineage(k) /\ ~\E d \in Lineage(k) : cited < d /\ d < i
        BY <1>10, <2>1, <3>1, <3>3, Zenon DEF AInv, LineageIsAChain, n
      <3> QED
        BY <1>1, <2>1, <3>4 DEF e
    <2>2. CASE i = e
      <3>1. cited = r.cite
        BY <1>1, <2>2, Zenon
      <3>2. PICK k0 \in Keys : cited \in Lineage(k0)
        BY <1>2, <1>10, <3>1, Zenon DEF Rooted
      <3>3. cited \in 1..n /\ events[cited].req.key = k0
        BY <3>2, SMTT(30) DEF Lineage, n
      <3>4. k0 = k /\ cited \in Lineage(k)
        BY <1>1, <1>10, <3>2, <3>3, Zenon
      <3>5. refs[k].head = cited
        BY <1>2, <1>10, <3>1, <3>3, <3>4, Zenon DEF ReferenceCitationsHold
      <3> HIDE DEF cited
      <3>6. \A d \in Lineage(k) : d <= cited
        BY <1>7, <3>4, <3>5, SMTT(30)
      <3>7. \A d \in Lineage(k)' : d \in Lineage(k) \/ d = i
        BY <1>1, <2>2, Zenon
      <3>8. \A d \in Lineage(k)' : ~(cited < d /\ d < i)
        BY <1>3, <1>1, <2>2, <3>3, <3>6, <3>7 DEF e
      <3>9. cited < i /\ cited \in Lineage(k)'
        BY <1>1, <2>2, <3>3, <3>4 DEF e
      <3> QED
        BY <3>8, <3>9, Zenon DEF cited
    <2>3. i \in 1..n \/ i = e
      BY <1>1 DEF e
    <2> QED
      BY <2>1, <2>2, <2>3, Zenon
  <1> QED
    BY <1>9, <1>10, Zenon

\* commitAcceptedAdmissionTx: the Event, its effect and its Receipt appear
\* together, so every part of the invariant moves in one step.
LEMMA AcceptInv ==
    ASSUME AInv, NEW c \in Calls, calls[c].phase \in Open, ops[calls[c].op] = NoReceipt,
           Admissible(calls[c]), Accept(c, calls[c].op, calls[c].req), UNCHANGED world
    PROVE  AInv'
  <1> DEFINE n == Len(events)
             e == n + 1
             o == calls[c].op
             r == calls[c].req
             receipt == [outcome |-> "accepted", req |-> r, event |-> e]
             row == Answered(o, r, receipt)
  <1>1. /\ n \in Nat /\ e \in 1..MaxEvents
        /\ Len(events') = e
        /\ events' \in Seq(Entry)
        /\ \A i \in 1..n : events'[i] = events[i]
        /\ events'[e].op = o /\ events'[e].req = r
        /\ \A k : Lineage(k) \subseteq Lineage(k)'
        /\ refs' \in [Keys -> Reference]
    BY AcceptedStep, Zenon
  <1>2. o \in Ops /\ r \in Request /\ Rooted(r)
    BY Zenon DEF AInv, Types, Grounded, Open
  <1>3. /\ ops' = [ops EXCEPT ![o] = receipt]
        /\ calls' = [calls EXCEPT ![c] = row]
        /\ waiting' = WaitingAfter(r)
        /\ claim' = ClaimAfter(r)
        /\ UNCHANGED <<fence, views, route, catalog>>
    BY Zenon DEF Accept, files
  <1>4. receipt \in Receipts /\ receipt.outcome = "accepted" /\ receipt.req = r /\ receipt.event = e
    BY <1>1, <1>2, LimitsAssumption DEF Receipts, Heads
  <1>5. receipt # NoReceipt /\ receipt # Conflict
    BY Zenon DEF NoReceipt, Conflict
  <1>6. row.phase = "done" /\ row.op = o /\ row.req = r /\ row.answer = receipt
    BY Zenon DEF Answered
  <1> HIDE DEF row
  <1>7. \A d \in Calls : calls'[d] = IF d = c THEN row ELSE calls[d]
    BY <1>3, Zenon DEF AInv, Types
  <1>8. Types'
    <2>1. waiting' \in Nat /\ claim' \in 0..MaxFence
      BY <1>3, LimitsAssumption DEF AInv, Types, WaitingAfter, ClaimAfter
    <2> HIDE DEF receipt, o, r
    <2>2. ops' \in [Ops -> Receipts]
      BY <1>2, <1>3, <1>4, SMTT(30) DEF AInv, Types
    <2>3. \A d \in Calls :
            /\ calls'[d].phase \in Open \cup {"idle", "done"}
            /\ calls'[d].phase # "idle" => calls'[d].op \in Ops /\ calls'[d].req \in Request
      BY <1>2, <1>6, <1>7, Zenon DEF AInv, Types
    <2>4. DOMAIN calls' = Calls
      BY <1>3, Zenon DEF AInv, Types
    <2> QED
      BY <1>1, <1>3, <2>1, <2>2, <2>3, <2>4, Zenon DEF AInv, Types
  <1>9. \A q : Rooted(q) => Rooted(q)'
    BY <1>1, Zenon DEF Rooted
  <1>10. \A i \in 1..Len(events') : i \in 1..n \/ i = e
    BY <1>1
  <1> HIDE DEF receipt, o, r
  <1>11. Grounded'
    <2>1. \A v \in views', k \in Keys : v.refs[k].state # "absent" => v.refs[k].head \in Lineage(k)'
      BY <1>1, <1>3, Zenon DEF AInv, Grounded
    <2>2. \A d \in Calls : calls'[d].phase \in Open => Rooted(calls[d].req)'
      BY <1>6, <1>7, <1>9, Zenon DEF AInv, Grounded, Open
    <2>3. \A i \in 1..Len(events') : Rooted(events[i].req)'
      BY <1>1, <1>2, <1>9, <1>10, Zenon DEF AInv, Grounded
    <2> QED
      BY <2>1, <2>2, <2>3, Zenon DEF Grounded
  <1>12. \A p \in Ops : ops'[p] = IF p = o THEN receipt ELSE ops[p]
    BY <1>3, Zenon DEF AInv, Types
  <1>13. AnsweredIsDurable'
    BY <1>2, <1>5, <1>6, <1>7, <1>12 DEF AInv, Types, AnsweredIsDurable
  <1>15. \A i \in 1..n : events[i].op # o /\ events[i].op \in Ops
    BY EventsAreReceipted, Zenon DEF o
  <1>16. \A d \in Calls : d # c /\ calls[d].phase = "done" => calls[d].op # o /\ calls[d].op \in Ops
    BY Zenon DEF AInv, Types, AnsweredIsDurable, o
  <1>17. OneEventPerOperation'
    <2>1. \A i \in 1..Len(events') :
            ops'[events'[i].op] = [outcome |-> "accepted", req |-> events'[i].req, event |-> i]
      <3> TAKE i \in 1..Len(events')
      <3>1. CASE i \in 1..n
        <4>1. ops[events[i].op] = [outcome |-> "accepted", req |-> events[i].req, event |-> i]
          BY <3>1, Zenon DEF AInv, OneEventPerOperation, n
        <4>2. events'[i] = events[i] /\ ops'[events[i].op] = ops[events[i].op]
          BY <3>1, <1>1, <1>12, <1>15, Zenon
        <4> QED
          BY <4>1, <4>2, Zenon
      <3>2. CASE i = e
        BY <3>2, <1>1, <1>2, <1>12, Zenon DEF receipt
      <3> QED
        BY <3>1, <3>2, <1>10, Zenon
    <2>2. \A p \in Ops : ops'[p].outcome = "accepted" =>
            ops'[p].event \in 1..Len(events') /\ events'[ops'[p].event].op = p
      <3> SUFFICES ASSUME NEW p \in Ops, ops'[p].outcome = "accepted"
                   PROVE  ops'[p].event \in 1..Len(events') /\ events'[ops'[p].event].op = p
        BY Zenon
      <3>1. CASE p = o
        BY <3>1, <1>1, <1>4, <1>12
      <3>2. CASE p # o
        <4>1. ops[p].event \in 1..n /\ events[ops[p].event].op = p
          BY <3>2, <1>12, Zenon DEF AInv, OneEventPerOperation, n
        <4> QED
          BY <4>1, <3>2, <1>1, <1>12
      <3> QED
        BY <3>1, <3>2, Zenon
    <2>3. \A d \in Calls : calls'[d].phase = "done" => Tells(calls[d])'
      <3> SUFFICES ASSUME NEW d \in Calls, calls'[d].phase = "done" PROVE Tells(calls[d])'
        BY Zenon
      <3>1. CASE d = c
        BY <3>1, <1>2, <1>4, <1>5, <1>6, <1>7, <1>12, SMTT(30) DEF Tells
      <3>2. CASE d # c
        <4>1. calls'[d] = calls[d] /\ calls[d].phase = "done"
          BY <3>2, <1>7, <1>12, Zenon
        <4>2. Tells(calls[d])
          BY <4>1, Zenon DEF AInv, OneEventPerOperation, Tells
        <4>3. ops'[calls[d].op] = ops[calls[d].op]
          BY <4>1, <3>2, <1>12, <1>16, Zenon
        <4> QED
          BY <4>1, <4>2, <4>3, Zenon DEF Tells
      <3> QED
        BY <3>1, <3>2, Zenon
    <2> QED
      BY <2>1, <2>2, <2>3, Zenon DEF OneEventPerOperation, Tells
  <1>18. LineageIsAChain'
    BY AcceptChain, Zenon
  <1> QED
    BY <1>8, <1>11, <1>13, <1>17, <1>18, Zenon DEF AInv

LEMMA CommitInv ==
    ASSUME AInv, NEW c \in Calls, CommitAdmission(c), UNCHANGED world
    PROVE  AInv'
  <1>1. calls[c].phase \in Open
    BY Zenon DEF CommitAdmission, Open
  <1> QED
    BY <1>1, ReplayInv, AcceptInv, RejectInv, Zenon DEF CommitAdmission

\* Every step keeps the invariant.
LEMMA StepInv ==
    ASSUME AInv, [Next]_vars
    PROVE  AInv'
  <1> USE LimitsAssumption
  <1>1. CASE UNCHANGED vars
    BY <1>1, QuietStep, Zenon DEF AInv, Types, vars, focus, peers, files, ledger
  <1>2. CASE Next
    <2> USE <1>2 DEF Next
    <2>1. ASSUME NEW c \in Calls, NEW o \in world.ops, Submit(c, o) PROVE AInv'
      BY <2>1, SubmitInv, Zenon
    <2>2. ASSUME NEW c \in Calls,
                 PreflightAdmission(c) \/ VerifyAdmissionArtifacts(c)
                    \/ CommitAdmission(c) \/ Cancel(c)
          PROVE  AInv'
      BY <2>2, PreflightInv, VerifyInv, CommitInv, CancelInv, Zenon
    <2>3. CASE Current
      BY <2>3, CurrentInv, Zenon
    <2>4. CASE EndAttachment
      <3>1. waiting \in Nat /\ claim \in 0..MaxFence /\ fence \in 0..MaxFence /\ route \in BOOLEAN
        BY Zenon DEF AInv, Types
      <3>2. UNCHANGED <<refs, events, ops, views, calls, world>> /\ catalog \subseteq catalog'
        BY <2>4, <1>2, Zenon DEF EndAttachment, peers, files, ledger
      <3>3. waiting' \in Nat /\ claim' \in 0..MaxFence /\ fence' \in 0..MaxFence /\ route' \in BOOLEAN
        <4>1. waiting + 1 \in Nat /\ 0 \in 0..MaxFence
          BY <3>1
        <4> QED
          BY <2>4, <3>1, <4>1, Zenon DEF EndAttachment, peers, files, ledger
      <3> QED
        BY <3>2, <3>3, QuietStep, Zenon
    <2>5. CASE Expire \/ PeerRequest
      BY <2>5, QuietStep DEF Expire, PeerRequest, AInv, Types, peers, files, ledger
    <2>6. CASE OutboxRowEnds \/ RevokePeerRoute
      BY <2>6, QuietStep, Zenon DEF OutboxRowEnds, RevokePeerRoute, AInv, Types, focus, files, ledger
    <2>7. ASSUME NEW a \in Arts, Put(a) \/ CatalogArtifact(a) \/ Damage(a) PROVE AInv'
      BY <2>7, QuietStep, Zenon DEF Put, CatalogArtifact, Damage, AInv, Types, focus, peers, ledger
    <2> QED
      BY <2>1, <2>2, <2>3, <2>4, <2>5, <2>6, <2>7, Zenon DEF Step
  <1> QED
    BY <1>1, <1>2, Zenon

LEMMA AlwaysInv == Spec => []AInv
  BY InitInv, StepInv, PTL DEF Spec

\* An operation key has at most one effect, and every answer is its durable
\* Receipt: for any number of concurrent calls on any number of keys.
THEOREM OneEffectPerKey == Spec => []OneEventPerOperation
  <1>1. AInv => OneEventPerOperation
    BY Zenon DEF AInv
  <1> QED
    BY <1>1, AlwaysInv, PTL

\* The compare-and-swap of heads makes the lineage of every Reference one
\* chain, and a citation is accepted only while its target is the head.
THEOREM LineagesAreChains == Spec => []LineageIsAChain
  <1>1. AInv => LineageIsAChain
    BY Zenon DEF AInv
  <1> QED
    BY <1>1, AlwaysInv, PTL

-----------------------------------------------------------------------------
(***************************************************************************)
(* That an answered object is kept, for any number of stores, rounds and   *)
(* markers.  The property alone is not inductive: that a power failure     *)
(* cannot take an answered object needs every call past the sync to have   *)
(* seen the final in its shard's directory, that no second Put is told it  *)
(* created the object needs a lone installer to stand behind the current   *)
(* final, and that a lost shard is the only way a settled marker goes      *)
(* needs the final to be the one its shard holds.                          *)
(***************************************************************************)

CallRow ==
    [at : {"none", "mkdir", "root", "look", "probe", "link", "sync", "unmark", "forget", "answer", "stage", "mark"},
     op : {"none", "put", "read"}, round : Nat, second : BOOLEAN, installed : BOOLEAN]

OTypes ==
    /\ shard \in BOOLEAN /\ shardDisk \in BOOLEAN /\ lost \in BOOLEAN
    /\ final \in Nat /\ marker \in Nat /\ finalDisk \in Nat /\ markerDisk \in Nat /\ made \in Nat
    /\ call \in [ObjectStores -> CallRow]
    /\ staged \in BOOLEAN /\ answered \in BOOLEAN /\ creators \in Nat

\* What the entries, the disk and the answers say of each other.
Kept ==
    /\ shardDisk => shard
    /\ final # 0 => shard
    /\ finalDisk # 0 => finalDisk = final
    /\ answered => shardDisk /\ finalDisk # 0
    /\ staged => (lost \/ finalDisk # 0 \/ (marker # 0 /\ markerDisk # 0))
    /\ creators = 0 \/ (creators = 1 /\ finalDisk # 0)

\* What a call under way has seen of them.
Seen(s) ==
    /\ call[s].at = "root" => shard
    /\ call[s].at = "sync" => final # 0
    /\ call[s].at \in {"unmark", "forget", "answer"} => finalDisk # 0
    /\ call[s].installed => final # 0 /\ creators = 0

Lone == \A s, t \in ObjectStores : call[s].installed /\ call[t].installed => s = t

OInv == OTypes /\ Kept /\ Lone /\ \A s \in ObjectStores : Seen(s)

LEMMA NoCallRow == NoCall \in CallRow /\ NoCall.at = "none" /\ ~NoCall.installed
  BY Zenon DEF NoCall, CallRow

LEMMA OInitInv == OInit => OInv
  <1> SUFFICES ASSUME OInit PROVE OInv
    BY Zenon
  <1>1. OTypes /\ Kept
    BY NoCallRow, Zenon DEF OInit, OTypes, Kept
  <1>2. \A s \in ObjectStores : call[s] = NoCall
    BY Zenon DEF OInit
  <1> QED
    BY <1>1, <1>2, NoCallRow, Zenon DEF OInv, Lone, Seen

\* The row a store turns to is the one it has, and no other store moves.
LEMMA TurnsTo ==
    ASSUME call \in [ObjectStores -> CallRow], NEW s \in ObjectStores, NEW r \in CallRow, Turns(s, r)
    PROVE  /\ call' \in [ObjectStores -> CallRow]
           /\ call'[s] = r
           /\ \A t \in ObjectStores \ {s} : call'[t] = call[t]
  BY Zenon DEF Turns

\* A further round keeps the rest of the row.
LEMMA AgainRow ==
    ASSUME NEW c \in CallRow, NEW i \in BOOLEAN
    PROVE  LET r == IF c.round = Attempts THEN NoCall
                    ELSE [c EXCEPT !.at = "look", !.round = @ + 1, !.installed = i]
           IN r \in CallRow /\ r.at \in {"none", "look"} /\ (r.installed => i)
  <1> DEFINE c1 == [c EXCEPT !.at = "look"]
             c2 == [c1 EXCEPT !.round = @ + 1]
             c3 == [c2 EXCEPT !.installed = i]
  <1>1. c1 \in CallRow /\ c1.at = "look" /\ c1.round \in Nat
    BY Zenon DEF CallRow
  <1>2. c2 \in CallRow /\ c2.at = "look"
    <2> HIDE DEF c1
    <2> QED
      BY <1>1 DEF CallRow
  <1>3. c3 \in CallRow /\ c3.at = "look" /\ c3.installed = i
    <2> HIDE DEF c2
    <2> QED
      BY <1>2, Zenon DEF CallRow
  <1>4. c1.round = c.round
    BY Zenon DEF CallRow
  <1>5. c3 = [c EXCEPT !.at = "look", !.round = @ + 1, !.installed = i]
    BY <1>4, Zenon
  <1> HIDE DEF c3
  <1> QED
    BY <1>3, <1>5, NoCallRow, Zenon

\* The row of a call that starts.
LEMMA FirstRow ==
    ASSUME NEW o \in {"put", "read"}, NEW b \in BOOLEAN
    PROVE  Begun(o, b) \in CallRow /\ Begun(o, b).at = "look" /\ ~Begun(o, b).installed
  BY Zenon DEF Begun, CallRow

\* A step of one store that leaves the entries what the others have seen.
LEMMA OneTurn ==
    ASSUME OInv, NEW s \in ObjectStores, NEW r \in CallRow, Turns(s, r),
           OTypes', Kept', Seen(s)',
           shard => shard',
           final # 0 => final' # 0,
           finalDisk # 0 => finalDisk' # 0,
           creators' = creators \/ \A t \in ObjectStores \ {s} : ~call[t].installed,
           r.installed => \A t \in ObjectStores \ {s} : ~call[t].installed
    PROVE  OInv'
  <1>1. /\ call'[s] = r
        /\ \A t \in ObjectStores \ {s} : call'[t] = call[t]
    BY TurnsTo, Zenon DEF OInv, OTypes
  <1>2. ASSUME NEW t \in ObjectStores PROVE Seen(t)'
    <2>1. CASE t = s
      BY <2>1, Zenon
    <2>2. CASE t # s
      <3>1. call'[t] = call[t] /\ Seen(t)
        BY <1>1, <2>2, Zenon DEF OInv
      <3>2. call[t].installed => creators' = creators
        BY <2>2, Zenon
      <3> QED
        BY <3>1, <3>2, Zenon DEF Seen
    <2> QED
      BY <2>1, <2>2, Zenon
  <1>3. Lone'
    <2>1. ASSUME NEW t \in ObjectStores, NEW u \in ObjectStores, call'[t].installed, call'[u].installed
          PROVE  t = u
      <3>1. CASE t # s /\ u # s
        BY <1>1, <2>1, <3>1, Zenon DEF OInv, Lone
      <3>2. CASE t = s \/ u = s
        BY <1>1, <2>1, <3>2, Zenon
      <3> QED
        BY <3>1, <3>2, Zenon
    <2> QED
      BY <2>1, Zenon DEF Lone
  <1> QED
    BY <1>2, <1>3, Zenon DEF OInv

\* The steps that leave the entries and the answers alone.
LEMMA QuietInv ==
    ASSUME OInv, NEW s \in ObjectStores, PutObject(s) \/ Read(s) \/ Looks(s) \/ Probes(s) \/ Dies(s)
    PROVE  OInv'
  <1>0. OTypes /\ Kept /\ Lone /\ Seen(s) /\ call[s] \in CallRow
    BY Zenon DEF OInv, OTypes
  <1>1. PICK r \in CallRow :
          /\ Turns(s, r)
          /\ r.at \in {"sync"} => final # 0
          /\ r.at \notin {"root", "unmark", "forget", "answer"}
          /\ r.installed => call[s].installed
    <2>1. CASE PutObject(s)
      <3>1. [Begun("put", FALSE) EXCEPT !.at = "mkdir"] \in CallRow
            /\ [Begun("put", FALSE) EXCEPT !.at = "mkdir"].at = "mkdir"
            /\ ~[Begun("put", FALSE) EXCEPT !.at = "mkdir"].installed
        BY FirstRow, Zenon DEF Begun, CallRow
      <3>2. Turns(s, Begun("put", FALSE)) \/ Turns(s, [Begun("put", FALSE) EXCEPT !.at = "mkdir"])
        BY <2>1, Zenon DEF PutObject
      <3> QED
        BY <3>1, <3>2, FirstRow, Zenon
    <2>2. CASE Read(s)
      BY <2>2, FirstRow, Zenon DEF Read
    <2>3. CASE Looks(s)
      BY <1>0, <2>3 DEF Looks, Steps, CallRow
    <2>4. CASE Probes(s)
      <3>1. CASE \E at \in {"stage", "link"} : Steps(s, at)
        BY <1>0, <3>1 DEF Steps, CallRow
      <3>2. CASE Turns(s, NoCall)
        BY <3>2, NoCallRow, Zenon
      <3>3. CASE Again(s, call[s].installed)
        <4>1. call[s].installed \in BOOLEAN
          BY <1>0, Zenon DEF CallRow
        <4> QED
          BY <1>0, <3>3, <4>1, AgainRow, Zenon DEF Again
      <3> QED
        BY <2>4, <3>1, <3>2, <3>3, Zenon DEF Probes
    <2>5. CASE Dies(s)
      BY <2>5, NoCallRow, Zenon DEF Dies
    <2> QED
      BY <2>1, <2>2, <2>3, <2>4, <2>5, Zenon
  <1>2. UNCHANGED <<shard, shardDisk, final, marker, finalDisk, markerDisk, made, staged, answered, creators, lost>>
    BY Zenon DEF PutObject, Read, Looks, Probes, Dies, Shard, Entries, Told
  <1>3. call' \in [ObjectStores -> CallRow] /\ call'[s] = r
    BY <1>0, <1>1, TurnsTo, Zenon DEF OTypes
  <1>4. OTypes' /\ Kept'
    BY <1>0, <1>2, <1>3, Zenon DEF OTypes, Kept
  <1>5. Seen(s)'
    BY <1>0, <1>1, <1>2, <1>3, Zenon DEF Seen
  <1>6. r.installed => \A t \in ObjectStores \ {s} : ~call[t].installed
    BY <1>0, <1>1, Zenon DEF Lone
  <1> QED
    BY <1>1, <1>2, <1>4, <1>5, <1>6, OneTurn, Zenon

\* The steps that make the shard and sync the root.
LEMMA ShardInv ==
    ASSUME OInv, NEW s \in ObjectStores, MakesShard(s) \/ SyncsRoot(s)
    PROVE  OInv'
  <1>0. OTypes /\ Kept /\ Lone /\ Seen(s) /\ call[s] \in CallRow
    BY Zenon DEF OInv, OTypes
  <1>1. PICK at \in {"root", "look"} : Steps(s, at) /\ (at = "root" => shard')
    BY Zenon DEF MakesShard, SyncsRoot
  <1> DEFINE r == [call[s] EXCEPT !.at = at]
  <1>2. r \in CallRow /\ Turns(s, r) /\ r.at = at /\ r.installed = call[s].installed
    BY <1>0, <1>1, Zenon DEF Steps, CallRow
  <1>3. call' \in [ObjectStores -> CallRow] /\ call'[s] = r
    BY <1>0, <1>2, TurnsTo, Zenon DEF OTypes
  <1>4. /\ UNCHANGED <<final, marker, finalDisk, markerDisk, made, staged, answered, creators, lost>>
        /\ shard' \in BOOLEAN /\ shardDisk' \in BOOLEAN /\ (shardDisk' => shard')
        /\ (shard => shard') /\ (shardDisk => shardDisk')
    BY <1>0, Zenon DEF MakesShard, SyncsRoot, Entries, Told, OTypes, Kept, Seen
  <1>5. OTypes' /\ Kept'
    BY <1>0, <1>3, <1>4, Zenon DEF OTypes, Kept
  <1>6. Seen(s)'
    BY <1>0, <1>1, <1>2, <1>3, <1>4, Zenon DEF Seen
  <1>7. r.installed => \A t \in ObjectStores \ {s} : ~call[t].installed
    BY <1>0, <1>2, Zenon DEF Lone
  <1> QED
    BY <1>2, <1>4, <1>5, <1>6, <1>7, OneTurn, Zenon

LEMMA OtherInv == OInv /\ OtherPuts => OInv'
  <1> SUFFICES ASSUME OInv, OtherPuts PROVE OInv'
    BY Zenon
  <1>1. /\ UNCHANGED <<call, final, marker, finalDisk, markerDisk, made, staged, answered, creators, lost>>
        /\ shard' \in BOOLEAN /\ shardDisk' \in BOOLEAN /\ (shardDisk' => shard')
        /\ (shard => shard') /\ (shardDisk => shardDisk')
    BY Zenon DEF OtherPuts, Entries, Told, OInv, OTypes, Kept
  <1>2. OTypes' /\ Kept' /\ Lone'
    BY <1>1, Zenon DEF OInv, OTypes, Kept, Lone
  <1>3. ASSUME NEW s \in ObjectStores PROVE Seen(s)'
    BY <1>1, Zenon DEF OInv, Seen
  <1> QED
    BY <1>2, <1>3, Zenon DEF OInv

\* The steps that name the final and settle it.
LEMMA SettleInv ==
    ASSUME OInv, NEW s \in ObjectStores, Links(s) \/ Syncs(s) \/ Unmarks(s) \/ Forgets(s) \/ Answers(s)
    PROVE  OInv'
  <1>0. OTypes /\ Kept /\ Lone /\ Seen(s) /\ call[s] \in CallRow /\ call[s].installed \in BOOLEAN
    BY Zenon DEF OInv, OTypes, CallRow
  <1>1. call[s].installed => \A t \in ObjectStores \ {s} : ~call[t].installed
    BY <1>0, Zenon DEF Lone
  <1>2. CASE Links(s)
    <2>1. PICK i \in BOOLEAN : /\ Again(s, i)
                               /\ \/ shard /\ final = 0 /\ final' = marker /\ marker # 0 /\ i = TRUE
                                  \/ final' = final /\ i = call[s].installed
      BY <1>0, <1>2, Zenon DEF Links
    <2>2. PICK r \in CallRow : Turns(s, r) /\ r.at \in {"none", "look"} /\ (r.installed => i)
      BY <1>0, <2>1, AgainRow, Zenon DEF Again
    <2>3. UNCHANGED <<shard, shardDisk, marker, finalDisk, markerDisk, made, staged, answered, creators, lost>>
      BY <1>2, Zenon DEF Links, Shard, Told
    <2>4. call' \in [ObjectStores -> CallRow] /\ call'[s] = r
      BY <1>0, <2>2, TurnsTo, Zenon DEF OTypes
    <2>5. OTypes' /\ Kept'
      BY <1>0, <2>1, <2>3, <2>4, Zenon DEF OTypes, Kept
    <2>6. final = 0 => creators = 0 /\ \A t \in ObjectStores : ~call[t].installed
      BY <1>0, Zenon DEF OInv, Kept, Seen
    <2>7. Seen(s)'
      BY <1>0, <2>1, <2>2, <2>3, <2>4, <2>6, Zenon DEF Seen, OTypes
    <2>8. r.installed => \A t \in ObjectStores \ {s} : ~call[t].installed
      BY <1>1, <2>1, <2>2, <2>6, Zenon
    <2> QED
      BY <2>1, <2>2, <2>3, <2>5, <2>7, <2>8, OneTurn, Zenon
  <1>3. CASE Syncs(s) \/ Unmarks(s) \/ Forgets(s)
    <2>1. PICK at \in {"unmark", "forget", "answer"} : Steps(s, at)
      BY <1>3, Zenon DEF Syncs, Unmarks, Forgets
    <2> DEFINE r == [call[s] EXCEPT !.at = at]
    <2>2. r \in CallRow /\ Turns(s, r) /\ r.at = at /\ r.installed = call[s].installed
      BY <1>0, <2>1, Zenon DEF Steps, CallRow
    <2>3. call' \in [ObjectStores -> CallRow] /\ call'[s] = r
      BY <1>0, <2>2, TurnsTo, Zenon DEF OTypes
    <2>4. /\ final' = final /\ finalDisk' \in {final, finalDisk} /\ finalDisk' # 0
          /\ UNCHANGED <<shard, shardDisk, made, staged, answered, creators, lost>>
          /\ marker' \in {0, marker} /\ markerDisk' \in {marker, markerDisk}
      BY <1>0, <1>3, Zenon DEF Syncs, Unmarks, Forgets, Shard, Told, Seen
    <2>5. OTypes' /\ Kept'
      BY <1>0, <2>3, <2>4 DEF OTypes, Kept
    <2>6. Seen(s)'
      BY <1>0, <2>2, <2>3, <2>4, Zenon DEF Seen
    <2> QED
      BY <1>1, <2>2, <2>4, <2>5, <2>6, OneTurn, Zenon
  <1>4. CASE Answers(s)
    <2>1. PICK r \in CallRow :
            /\ Turns(s, r) /\ r.at \in {"none", "look"} /\ (r.installed => call[s].installed)
            /\ \/ ~r.installed /\ answered' = (answered \/ shardDisk)
                  /\ \/ creators' = creators
                     \/ creators' = creators + 1 /\ call[s].installed
               \/ UNCHANGED <<answered, creators>>
      <3>1. CASE final # 0 /\ linkCount(final) = 1
        BY <1>0, <1>4, <3>1, NoCallRow, Zenon DEF Answers
      <3>2. CASE ~(final # 0 /\ linkCount(final) = 1)
        BY <1>0, <1>4, <3>2, AgainRow, Zenon DEF Answers, Again
      <3> QED
        BY <3>1, <3>2, Zenon
    <2>2. finalDisk # 0 /\ UNCHANGED <<shard, shardDisk, final, marker, finalDisk, markerDisk, made, staged, lost>>
      BY <1>0, <1>4, Zenon DEF Answers, Shard, Entries, Seen
    <2>3. call' \in [ObjectStores -> CallRow] /\ call'[s] = r
      BY <1>0, <2>1, TurnsTo, Zenon DEF OTypes
    <2>4. call[s].installed => creators = 0
      BY <1>0, Zenon DEF Seen
    <2>5. /\ answered' \in BOOLEAN /\ (answered' => answered \/ shardDisk)
          /\ creators' \in Nat /\ (creators' = 0 \/ creators' = 1)
      <3>1. answered \in BOOLEAN /\ creators \in Nat /\ (creators = 0 \/ creators = 1)
        BY <1>0, Zenon DEF OTypes, Kept
      <3>2. answered' \in BOOLEAN /\ (answered' => answered \/ shardDisk)
        <4>1. answered' = answered \/ answered' = (answered \/ shardDisk)
          BY <2>1, Zenon
        <4>2. (answered \/ shardDisk) \in BOOLEAN
          OBVIOUS
        <4>3. CASE answered' = answered
          BY <3>1, <4>3, Zenon
        <4>4. CASE answered' = (answered \/ shardDisk)
          <5>1. answered' \in BOOLEAN
            BY <4>2, <4>4
          <5>2. answered' => answered \/ shardDisk
            BY <1>0, <4>4, <5>1, SMT DEF OTypes
          <5> QED
            BY <5>1, <5>2, Zenon
        <4> QED
          BY <4>1, <4>3, <4>4, Zenon
      <3>3. creators' = creators \/ (creators' = creators + 1 /\ call[s].installed)
        BY <2>1, Zenon
      <3>4. creators' \in Nat /\ (creators' = 0 \/ creators' = 1)
        BY <2>4, <3>1, <3>3
      <3> QED
        BY <3>2, <3>4, Zenon
    <2>9. OTypes' /\ Kept'
      BY <1>0, <2>2, <2>3, <2>5, Zenon DEF OTypes, Kept
    <2>6. Seen(s)'
      BY <1>0, <2>1, <2>2, <2>3, Zenon DEF Seen
    <2>7. creators' = creators \/ \A t \in ObjectStores \ {s} : ~call[t].installed
      BY <1>1, <2>1, Zenon
    <2> QED
      BY <1>1, <2>1, <2>2, <2>9, <2>6, <2>7, OneTurn, Zenon
  <1> QED
    BY <1>2, <1>3, <1>4, Zenon

\* The steps that put a marker in place.
LEMMA StageInv ==
    ASSUME OInv, NEW s \in ObjectStores, StagesMarker(s) \/ Marks(s)
    PROVE  OInv'
  <1>0. OTypes /\ Kept /\ Lone /\ Seen(s) /\ call[s] \in CallRow
    BY Zenon DEF OInv, OTypes
  <1>1. PICK r \in CallRow : /\ Turns(s, r) /\ r.at \in {"mark", "look"}
                             /\ r.installed => call[s].installed
    <2>1. CASE StagesMarker(s)
      BY <1>0, <2>1 DEF StagesMarker, Steps, CallRow
    <2>2. CASE Marks(s)
      BY <2>2, FirstRow, Zenon DEF Marks
    <2> QED
      BY <2>1, <2>2, Zenon
  <1>2. call' \in [ObjectStores -> CallRow] /\ call'[s] = r
    BY <1>0, <1>1, TurnsTo, Zenon DEF OTypes
  <1>3. UNCHANGED <<shard, shardDisk, final, finalDisk, answered, creators, lost>>
    BY Zenon DEF StagesMarker, Marks, Shard, Told
  <1>4. OTypes' /\ Kept'
    <2>1. CASE StagesMarker(s)
      BY <1>0, <1>2, <2>1 DEF StagesMarker, Shard, Told, OTypes, Kept
    <2>2. CASE Marks(s)
      BY <1>0, <1>2, <2>2, Zenon DEF Marks, Shard, OTypes, Kept
    <2> QED
      BY <2>1, <2>2, Zenon
  <1>5. Seen(s)'
    BY <1>0, <1>1, <1>2, <1>3, Zenon DEF Seen
  <1>6. r.installed => \A t \in ObjectStores \ {s} : ~call[t].installed
    BY <1>0, <1>1, Zenon DEF Lone
  <1> QED
    BY <1>1, <1>3, <1>4, <1>5, <1>6, OneTurn, Zenon

LEMMA PowerInv == OInv /\ PowerFails => OInv'
  <1> SUFFICES ASSUME OInv, PowerFails PROVE OInv'
    BY Zenon
  <1>0. OTypes /\ Kept
    BY Zenon DEF OInv
  <1>1. OTypes' /\ Kept'
    <2>1. PICK found \in {shard, shardDisk} :
            /\ shard' = found /\ shardDisk' = found
            /\ final' \in (IF found THEN {final, finalDisk} ELSE {0}) /\ finalDisk' = final'
            /\ creators' = IF found THEN creators ELSE 0
            /\ lost' = (lost \/ (shard /\ ~found))
      BY Zenon DEF PowerFails
    <2>2. call' \in [ObjectStores -> CallRow]
      BY NoCallRow, Zenon DEF PowerFails
    <2>3. UNCHANGED <<made, staged, answered>> /\ marker' \in {marker, markerDisk} /\ markerDisk' = marker'
      BY Zenon DEF PowerFails
    <2>4. CASE found
      <3>1. final' \in {final, finalDisk} /\ creators' = creators /\ lost' = lost
        BY <1>0, <2>1, <2>4, Zenon DEF OTypes
      <3> QED
        BY <1>0, <2>1, <2>2, <2>3, <2>4, <3>1, Zenon DEF OTypes, Kept
    <2>5. CASE ~found
      <3>1. final' = 0 /\ finalDisk' = 0 /\ creators' = 0 /\ ~shardDisk /\ ~answered
        BY <1>0, <2>1, <2>5, Zenon DEF Kept
      <3>2. lost' \in BOOLEAN /\ (lost => lost') /\ (finalDisk # 0 => lost')
        BY <1>0, <2>1, <2>5, Zenon DEF OTypes, Kept
      <3>3. shard' = FALSE /\ shardDisk' = FALSE
        BY <1>0, <2>1, <2>5, Zenon DEF OTypes
      <3> QED
        BY <1>0, <2>2, <2>3, <3>1, <3>2, <3>3, Zenon DEF OTypes, Kept
    <2> QED
      BY <2>4, <2>5, Zenon
  <1>2. \A s \in ObjectStores : call'[s] = NoCall
    BY Zenon DEF PowerFails
  <1> QED
    BY <1>1, <1>2, NoCallRow, Zenon DEF OInv, Lone, Seen

LEMMA ONextInv == OInv /\ [ONext]_ovars => OInv'
  <1> SUFFICES ASSUME OInv, [ONext]_ovars PROVE OInv'
    BY Zenon
  <1>1. CASE UNCHANGED ovars
    BY <1>1, Zenon DEF ovars, OInv, OTypes, Kept, Lone, Seen
  <1>2. CASE PowerFails
    BY <1>2, PowerInv, Zenon
  <1>3. ASSUME NEW s \in ObjectStores, PutObject(s) \/ Read(s) \/ Looks(s) \/ Probes(s) \/ Dies(s) PROVE OInv'
    BY <1>3, QuietInv, Zenon
  <1>4. ASSUME NEW s \in ObjectStores, Links(s) \/ Syncs(s) \/ Unmarks(s) \/ Forgets(s) \/ Answers(s)
        PROVE  OInv'
    BY <1>4, SettleInv, Zenon
  <1>5. ASSUME NEW s \in ObjectStores, StagesMarker(s) \/ Marks(s) PROVE OInv'
    BY <1>5, StageInv, Zenon
  <1>6. ASSUME NEW s \in ObjectStores, MakesShard(s) \/ SyncsRoot(s) PROVE OInv'
    BY <1>6, ShardInv, Zenon
  <1>7. CASE OtherPuts
    BY <1>7, OtherInv, Zenon
  <1> QED
    BY <1>1, <1>2, <1>3, <1>4, <1>5, <1>6, <1>7, Zenon DEF ONext

(***************************************************************************)
(* An object some Put or Read was answered with, its shard's own entry     *)
(* synced (objectPath), survives every crash and power failure, one Put at *)
(* most is told it created it, and a marker that reached the disk is lost  *)
(* before its object did only to a power failure that takes the shard      *)
(* (settlePromotion, settleFinal), whatever the number of stores that      *)
(* settle it at once.                                                      *)
(***************************************************************************)
THEOREM ObjectSurvives == OSpec => []ObjectIsKept
  <1>1. OInv => ObjectIsKept
    BY DEF OInv, OTypes, Kept, ObjectIsKept
  <1> QED
    BY <1>1, OInitInv, ONextInv, PTL DEF OSpec

-----------------------------------------------------------------------------
(***************************************************************************)
(* That a reported projection is exact, and that installers which do not   *)
(* overlap leave no torn file, for any plan and any number of installers.  *)
(* The second half is what needs strengthening: without an overlap one     *)
(* installer at most is under way, and what its stage's name holds is the  *)
(* file it is writing or a complete one.                                   *)
(***************************************************************************)

Installing == {"converge", "open", "discard", "reopen", "write", "link", "published", "clean"}

InstallRow == [at : {"none", "verify"} \cup Installing, k : Nat, x : Nat]

ITypes ==
    /\ target \in [DOMAIN Plan -> Nat \cup {OfUser}]
    /\ stageFile \in [DOMAIN Plan -> Nat]
    /\ whole \subseteq Nat \ {0} /\ cut \in Nat
    /\ inst \in [Installers -> InstallRow]
    /\ ready \in BOOLEAN /\ overlapped \in BOOLEAN

\* What an installer under way works on.
Working(p) ==
    /\ inst[p].at \in Installing => inst[p].k \in DOMAIN Plan
    /\ inst[p].at = "none" => inst[p] = Resting
    /\ inst[p].at = "write" => inst[p].x # 0
    /\ ~overlapped =>
        /\ inst[p].at = "write" => stageFile[inst[p].k] = inst[p].x
        /\ inst[p].at = "link" => readExactFile(stageFile[inst[p].k])
        /\ inst[p] # Resting => \A q \in Installers \ {p} : inst[q] = Resting

IInv == ITypes /\ InstalledIsExact /\ \A p \in Installers : Working(p)

LEMMA PlanDomain == DOMAIN Plan = 1..Len(Plan) /\ Len(Plan) \in Nat \ {0} /\ 1 \in DOMAIN Plan
  BY PiInstallAssumption

LEMMA StageCleared ==
    ASSUME NEW D, NEW f \in [D -> Nat], NEW k, NEW g, g = f \/ g = [f EXCEPT ![k] = 0]
    PROVE  g \in [D -> Nat]
  OBVIOUS

LEMMA RestingRow == Resting \in InstallRow /\ Resting.at = "none"
  BY Zenon DEF Resting, InstallRow

\* The row after a path is done.
LEMMA NextRow ==
    ASSUME NEW k \in DOMAIN Plan
    PROVE  /\ NextOf(k) \in InstallRow /\ NextOf(k).at \in {"verify", "converge"}
           /\ NextOf(k).at = "converge" => NextOf(k).k \in DOMAIN Plan
  BY PlanDomain DEF NextOf, InstallRow, Installing

LEMMA IInitInv == IInit => IInv
  <1> SUFFICES ASSUME IInit PROVE IInv
    BY Zenon
  <1>1. ITypes /\ InstalledIsExact
    BY RestingRow, Zenon DEF IInit, ITypes, InstalledIsExact
  <1>2. \A p \in Installers : inst[p] = Resting
    BY Zenon DEF IInit
  <1> QED
    BY <1>1, <1>2, RestingRow, Zenon DEF IInv, Working, Installing

\* A step of one installer: the rest of the invariant follows from its own
\* row, since without an overlap every other installer rests.
LEMMA OneMove ==
    ASSUME IInv, NEW p \in Installers, NEW r \in InstallRow, Moves(p, r),
           ITypes', InstalledIsExact',
           overlapped' = overlapped, inst[p] # Resting,
           r.at \in Installing => r.k \in DOMAIN Plan,
           r.at = "none" => r = Resting,
           r.at = "write" => r.x # 0,
           ~overlapped /\ r.at = "write" => stageFile'[r.k] = r.x,
           ~overlapped /\ r.at = "link" => stageFile'[r.k] \in whole'
    PROVE  IInv'
  <1>1. inst'[p] = r /\ \A q \in Installers \ {p} : inst'[q] = inst[q]
    BY Zenon DEF Moves, IInv, ITypes
  <1>2. ~overlapped => \A q \in Installers \ {p} : inst[q] = Resting
    BY Zenon DEF IInv, Working
  <1>3. Working(p)'
    BY <1>1, <1>2, Zenon DEF Working, readExactFile
  <1>4. ASSUME NEW q \in Installers \ {p} PROVE Working(q)'
    <2>1. inst'[q] = inst[q] /\ Working(q)
      BY <1>1, Zenon DEF IInv
    <2>2. CASE overlapped
      BY <2>1, <2>2, Zenon DEF Working
    <2>3. CASE ~overlapped
      <3>1. inst'[q] = Resting
        BY <1>2, <2>1, <2>3, Zenon
      <3> QED
        BY <3>1, RestingRow, Zenon DEF Working, Installing
    <2> QED
      BY <2>2, <2>3, Zenon
  <1> QED
    BY <1>3, <1>4, Zenon DEF IInv

\* InstallPi starts from rest, and an installer that finds another one under
\* way overlaps it.
LEMMA InstallInv == ASSUME IInv, NEW p \in Installers, InstallPi(p) PROVE IInv'
  <1>0. ITypes /\ InstalledIsExact /\ inst[p] = Resting /\ UNCHANGED <<target, whole, cut, ready>>
    BY Zenon DEF IInv, InstallPi
  <1>1. PICK r \in InstallRow :
          /\ Moves(p, r) /\ r.at \in {"open", "verify", "converge"}
          /\ r.at \in Installing => r.k \in DOMAIN Plan
    <2>1. [at |-> "open", k |-> 1, x |-> 0] \in InstallRow
      BY Zenon DEF InstallRow, Installing
    <2> QED
      BY <2>1, PlanDomain, NextRow, Zenon DEF InstallPi, Installing
  <1>2. inst'[p] = r /\ \A q \in Installers \ {p} : inst'[q] = inst[q]
    BY <1>0, <1>1, Zenon DEF Moves, ITypes
  <1>3. stageFile' \in [DOMAIN Plan -> Nat]
    BY <1>0 DEF InstallPi, ITypes
  <1>4. overlapped' \in BOOLEAN /\ (overlapped => overlapped')
        /\ (~overlapped' => \A q \in Installers : inst[q] = Resting)
    <2>1. overlapped' = (overlapped \/ \E q \in Installers : inst[q] # Resting) /\ overlapped \in BOOLEAN
      BY <1>0, Zenon DEF InstallPi, ITypes
    <2> QED
      BY <2>1, Zenon
  <1>5. ITypes' /\ InstalledIsExact'
    <2>1. inst' \in [Installers -> InstallRow]
      BY <1>0, <1>1, Zenon DEF Moves, ITypes
    <2>2. ITypes'
      BY <1>0, <1>3, <1>4, <2>1, Zenon DEF ITypes
    <2> QED
      BY <1>0, <1>4, <2>2, Zenon DEF InstalledIsExact, readExactFile
  <1>6. ASSUME NEW q \in Installers PROVE Working(q)'
    <2>1. CASE q = p
      <3>1. r.at # "none" /\ r.at # "write" /\ r.at # "link"
        BY <1>1, Zenon
      <3>2. ~overlapped' => \A u \in Installers \ {p} : inst'[u] = Resting
        BY <1>2, <1>4, Zenon
      <3> QED
        BY <1>1, <1>2, <2>1, <3>1, <3>2, Zenon DEF Working
    <2>2. CASE q # p
      <3>1. inst'[q] = inst[q] /\ Working(q)
        BY <1>2, <2>2, Zenon DEF IInv
      <3>2. CASE overlapped'
        BY <3>1, <3>2, Zenon DEF Working
      <3>3. CASE ~overlapped'
        BY <1>4, <3>1, <3>3, RestingRow, Zenon DEF Working, Installing
      <3> QED
        BY <3>2, <3>3, Zenon
    <2> QED
      BY <2>1, <2>2, Zenon
  <1> QED
    BY <1>5, <1>6, Zenon DEF IInv

\* The steps that leave the targets and the complete files alone.
LEMMA StageStepInv ==
    ASSUME IInv, NEW p \in Installers,
           \/ convergeFile(p) \/ prepareStage(p) \/ discardIncompleteStage(p) \/ Reopens(p)
           \/ Rereads(p) \/ cleanupStage(p) \/ Breaks(p)
    PROVE  IInv'
  <1> DEFINE k == inst[p].k
  <1>0. ITypes /\ InstalledIsExact /\ Working(p) /\ inst[p] \in InstallRow
    BY Zenon DEF IInv, ITypes
  <1>1. inst[p] # Resting /\ UNCHANGED <<target, whole, ready, overlapped>>
    BY RestingRow, Zenon DEF convergeFile, prepareStage, discardIncompleteStage, Reopens, Rereads,
       cleanupStage, Breaks, Paths
  <1>2. PICK r \in InstallRow :
          /\ Moves(p, r)
          /\ cut' \in Nat /\ stageFile' \in [DOMAIN Plan -> Nat]
          /\ r.at \in Installing => r.k \in DOMAIN Plan
          /\ r.at = "none" => r = Resting
          /\ r.at = "write" => r.x # 0 /\ stageFile'[r.k] = r.x
          /\ r.at = "link" => stageFile'[r.k] \in whole
    <2>1. CASE \E a \in {"open", "clean", "discard", "reopen", "published"} :
                 /\ Moves(p, [inst[p] EXCEPT !.at = a]) /\ inst[p].at \in Installing
                 /\ cut' = cut
                 /\ stageFile' = stageFile \/ stageFile' = [stageFile EXCEPT ![k] = 0]
      <3>1. PICK a \in {"open", "clean", "discard", "reopen", "published"} :
                 /\ Moves(p, [inst[p] EXCEPT !.at = a]) /\ inst[p].at \in Installing
                 /\ cut' = cut
                 /\ stageFile' = stageFile \/ stageFile' = [stageFile EXCEPT ![k] = 0]
        BY <2>1, Zenon
      <3> DEFINE r == [inst[p] EXCEPT !.at = a]
      <3>2. r \in InstallRow /\ r.at = a /\ r.k = k /\ k \in DOMAIN Plan
        BY <1>0, <3>1, Zenon DEF InstallRow, Installing, Working
      <3>3. cut' \in Nat /\ stageFile' \in [DOMAIN Plan -> Nat]
        <4>1. cut \in Nat /\ stageFile \in [DOMAIN Plan -> Nat]
          BY <1>0, Zenon DEF ITypes
        <4> QED
          BY <3>1, <4>1, StageCleared, Zenon
      <3> QED
        BY <3>1, <3>2, <3>3, Zenon
    <2>2. CASE Moves(p, Resting) /\ cut' = cut /\ stageFile' = stageFile
      BY <1>0, <2>2, RestingRow, Zenon DEF ITypes, Installing
    <2>3. CASE /\ Moves(p, NextOf(k)) /\ k \in DOMAIN Plan /\ cut' = cut
               /\ stageFile' = stageFile \/ stageFile' = [stageFile EXCEPT ![k] = 0]
      <3>1. cut' \in Nat /\ stageFile' \in [DOMAIN Plan -> Nat]
        <4>1. cut \in Nat /\ stageFile \in [DOMAIN Plan -> Nat]
          BY <1>0, Zenon DEF ITypes
        <4> QED
          BY <2>3, <4>1, StageCleared, Zenon
      <3> QED
        BY <2>3, <3>1, NextRow, Zenon DEF Installing
    <2>4. CASE /\ inst[p].at \in {"open", "reopen"} /\ cut' = cut + 1
               /\ stageFile' = [stageFile EXCEPT ![k] = cut + 1]
               /\ Moves(p, [inst[p] EXCEPT !.at = "write", !.x = cut + 1])
      <3> DEFINE r1 == [inst[p] EXCEPT !.at = "write"]
                 r == [r1 EXCEPT !.x = cut + 1]
      <3>1. cut + 1 \in Nat /\ cut + 1 # 0
        BY <1>0 DEF ITypes
      <3>2. r1 \in InstallRow /\ r1.at = "write" /\ r1.k = k
        BY <1>0, Zenon DEF InstallRow, Installing
      <3>3. r \in InstallRow /\ r.at = "write" /\ r.k = k /\ r.x = cut + 1
        <4> HIDE DEF r1
        <4> QED
          BY <3>1, <3>2, Zenon DEF InstallRow
      <3>4. Moves(p, r)
        BY <2>4, Zenon
      <3>5. k \in DOMAIN Plan
        BY <1>0, <2>4, Zenon DEF Working, Installing
      <3>6. stageFile' \in [DOMAIN Plan -> Nat] /\ stageFile'[k] = cut + 1 /\ cut' \in Nat
        BY <1>0, <2>4, <3>1, <3>5, Zenon DEF ITypes
      <3> HIDE DEF r, k
      <3> QED
        BY <3>1, <3>3, <3>4, <3>5, <3>6, Zenon
    <2>5. CASE /\ Moves(p, [inst[p] EXCEPT !.at = "link"]) /\ inst[p].at = "open"
               /\ cut' = cut /\ stageFile' = stageFile /\ stageFile[k] \in whole
      <3> DEFINE r == [inst[p] EXCEPT !.at = "link"]
      <3>1. r \in InstallRow /\ r.at = "link" /\ r.k = k /\ k \in DOMAIN Plan
        BY <1>0, <2>5, Zenon DEF InstallRow, Installing, Working
      <3> QED
        BY <1>0, <2>5, <3>1, Zenon DEF ITypes
    <2>6. CASE convergeFile(p)
      BY <2>1, <2>2, <2>6, Zenon DEF convergeFile, Paths, Installing
    <2>7. CASE prepareStage(p)
      BY <2>1, <2>4, <2>5, <2>7, Zenon DEF prepareStage, readExactFile, Installing
    <2>8. CASE discardIncompleteStage(p)
      BY <2>1, <2>8, Zenon DEF discardIncompleteStage, Installing
    <2>9. CASE Reopens(p)
      BY <2>1, <2>4, <2>9, Zenon DEF Reopens, Installing
    <2>10. CASE Rereads(p)
      <3>1. k \in DOMAIN Plan
        BY <1>0, <2>10, Zenon DEF Rereads, Working, Installing
      <3> QED
        BY <2>1, <2>2, <2>3, <2>10, <3>1, Zenon DEF Rereads, Paths, Installing
    <2>11. CASE cleanupStage(p)
      <3>1. k \in DOMAIN Plan
        BY <1>0, <2>11, Zenon DEF cleanupStage, Working, Installing
      <3> QED
        BY <2>3, <2>11, <3>1, Zenon DEF cleanupStage
    <2>12. CASE Breaks(p)
      BY <2>2, <2>12, Zenon DEF Breaks, Paths
    <2> QED
      BY <2>6, <2>7, <2>8, <2>9, <2>10, <2>11, <2>12, Zenon
  <1>3. ITypes'
    BY <1>0, <1>1, <1>2, Zenon DEF ITypes, Moves
  <1>4. InstalledIsExact'
    BY <1>0, <1>1, Zenon DEF InstalledIsExact, readExactFile
  <1> QED
    BY <1>1, <1>2, <1>3, <1>4, OneMove, Zenon

\* The stage is complete when its installer has written it.
LEMMA WritesInv == ASSUME IInv, NEW p \in Installers, Writes(p) PROVE IInv'
  <1> DEFINE r1 == [inst[p] EXCEPT !.at = "link"]
             r == [r1 EXCEPT !.x = 0]
  <1>0. /\ ITypes /\ InstalledIsExact /\ Working(p) /\ inst[p] \in InstallRow
        /\ inst[p].at = "write" /\ Moves(p, r) /\ whole' = whole \cup {inst[p].x}
        /\ UNCHANGED <<target, stageFile, cut, ready, overlapped>>
    BY Zenon DEF IInv, ITypes, Writes
  <1>1. r1 \in InstallRow /\ r1.at = "link" /\ r1.k = inst[p].k
    BY <1>0, Zenon DEF InstallRow, Installing
  <1>2. r \in InstallRow /\ r.at = "link" /\ r.k = inst[p].k
    <2> HIDE DEF r1
    <2> QED
      BY <1>1, Zenon DEF InstallRow
  <1>3. inst[p].x \in Nat \ {0} /\ inst[p].k \in DOMAIN Plan /\ inst[p] # Resting
    BY <1>0, RestingRow, Zenon DEF Working, InstallRow, Installing
  <1> HIDE DEF r
  <1>4. ITypes'
    BY <1>0, <1>2, <1>3, Zenon DEF ITypes, Moves
  <1>5. InstalledIsExact'
    BY <1>0, Zenon DEF InstalledIsExact, readExactFile
  <1>6. ~overlapped => stageFile'[r.k] \in whole'
    BY <1>0, <1>2, Zenon DEF Working
  <1> QED
    BY <1>0, <1>2, <1>3, <1>4, <1>5, <1>6, OneMove, Zenon

\* Only a free name is linked, and without an overlap to a complete file.
LEMMA PublishInv == ASSUME IInv, NEW p \in Installers, publishExclusive(p) PROVE IInv'
  <1> DEFINE k == inst[p].k
  <1>0. /\ ITypes /\ InstalledIsExact /\ Working(p) /\ inst[p] \in InstallRow
        /\ inst[p].at = "link" /\ UNCHANGED <<stageFile, whole, cut, ready, overlapped>>
    BY Zenon DEF IInv, ITypes, publishExclusive
  <1>1. PICK a \in {"clean", "published"} : Moves(p, [inst[p] EXCEPT !.at = a])
    BY Zenon DEF publishExclusive
  <1> DEFINE r == [inst[p] EXCEPT !.at = a]
  <1>2. r \in InstallRow /\ r.at = a /\ r.k = k
    BY <1>0, Zenon DEF InstallRow, Installing
  <1>3. k \in DOMAIN Plan /\ inst[p] # Resting
    BY <1>0, RestingRow, Zenon DEF Working, Installing
  <1>4. \/ target' = target
        \/ target[k] = 0 /\ target' = [target EXCEPT ![k] = stageFile[k]]
    BY Zenon DEF publishExclusive
  <1> HIDE DEF r
  <1>5. ITypes'
    BY <1>0, <1>1, <1>2, <1>3, <1>4, Zenon DEF ITypes, Moves, r
  <1>6. InstalledIsExact'
    <2>1. CASE target' = target
      BY <1>0, <2>1, Zenon DEF InstalledIsExact, readExactFile
    <2>2. CASE target[k] = 0 /\ target' = [target EXCEPT ![k] = stageFile[k]]
      <3>1. \A j \in DOMAIN Plan : j # k => target'[j] = target[j]
        BY <1>0, <2>2, Zenon DEF ITypes
      <3>2. target'[k] = stageFile[k]
        BY <1>0, <1>3, <2>2, Zenon DEF ITypes
      <3>3. 0 \notin whole
        BY <1>0, Zenon DEF ITypes
      <3>4. ready => k = 1
        <4>1. ready /\ k > 1 => target[k] \in whole
          BY <1>0, <1>3, Zenon DEF InstalledIsExact, readExactFile
        <4> QED
          BY <1>3, <2>2, <3>3, <4>1, PlanDomain
      <3>5. ~overlapped => stageFile[k] \in whole
        BY <1>0, Zenon DEF Working, readExactFile
      <3> HIDE DEF k
      <3>6. ASSUME ready, NEW j \in DOMAIN Plan, j > 1 PROVE target'[j] \in whole
        <4>1. j # k
          BY <3>4, <3>6
        <4>2. target[j] \in whole
          BY <1>0, <3>6, Zenon DEF InstalledIsExact, readExactFile
        <4> QED
          BY <3>1, <4>1, <4>2, Zenon
      <3>7. ~overlapped => \A j \in DOMAIN Plan : target'[j] \in {0, OfUser} \/ target'[j] \in whole
        BY <1>0, <3>1, <3>2, <3>5, Zenon DEF InstalledIsExact, readExactFile
      <3> QED
        BY <1>0, <3>6, <3>7, Zenon DEF InstalledIsExact, readExactFile
    <2> QED
      BY <1>4, <2>1, <2>2, Zenon
  <1> QED
    BY <1>0, <1>1, <1>2, <1>3, <1>5, <1>6, OneMove, Zenon DEF r, Installing

\* An install is answered only once every projected file was read again.
LEMMA VerifiesInv == ASSUME IInv, NEW p \in Installers, Verifies(p) PROVE IInv'
  <1>0. /\ ITypes /\ InstalledIsExact /\ Moves(p, Resting) /\ inst[p] # Resting
        /\ UNCHANGED <<target, whole, cut, overlapped>>
    BY RestingRow, Zenon DEF IInv, Verifies
  <1>1. ready' = (ready \/ verifyFiles) /\ ready \in BOOLEAN
    BY <1>0, Zenon DEF Verifies, ITypes
  <1>2. ready' \in BOOLEAN /\ (ready' => ready \/ verifyFiles)
    BY <1>1, Zenon
  <1>3. stageFile' \in [DOMAIN Plan -> Nat]
    BY <1>0, Zenon DEF Verifies, ITypes
  <1>4. ITypes'
    BY <1>0, <1>2, <1>3, RestingRow, Zenon DEF ITypes, Moves
  <1>5. InstalledIsExact'
    BY <1>0, <1>2, Zenon DEF InstalledIsExact, readExactFile, verifyFiles
  <1> QED
    BY <1>0, <1>4, <1>5, RestingRow, OneMove, Zenon DEF Installing

\* The user takes a free name.
LEMMA UserInv == ASSUME IInv, NEW k \in DOMAIN Plan, UserWrites(k) PROVE IInv'
  <1>0. /\ ITypes /\ InstalledIsExact /\ k > 1 /\ target[k] = 0
        /\ target' = [target EXCEPT ![k] = OfUser]
        /\ UNCHANGED <<stageFile, whole, cut, inst, ready, overlapped>>
    BY Zenon DEF IInv, UserWrites
  <1>1. ITypes'
    BY <1>0, Zenon DEF ITypes
  <1>2. ~ready
    BY <1>0, Zenon DEF ITypes, InstalledIsExact, readExactFile
  <1>3. ~overlapped => \A j \in DOMAIN Plan : target'[j] \in {0, OfUser} \/ target'[j] \in whole
    BY <1>0, Zenon DEF ITypes, InstalledIsExact, readExactFile
  <1>4. InstalledIsExact'
    BY <1>0, <1>2, <1>3, Zenon DEF InstalledIsExact, readExactFile
  <1>5. \A p \in Installers : Working(p)'
    BY <1>0, Zenon DEF IInv, Working, readExactFile
  <1> QED
    BY <1>1, <1>4, <1>5, Zenon DEF IInv

LEMMA INextInv == IInv /\ [INext]_ivars => IInv'
  <1> SUFFICES ASSUME IInv, [INext]_ivars PROVE IInv'
    BY Zenon
  <1>1. CASE UNCHANGED ivars
    BY <1>1, Zenon DEF ivars, IInv, ITypes, InstalledIsExact, Working, readExactFile
  <1>2. ASSUME NEW p \in Installers, InstallPi(p) PROVE IInv'
    BY <1>2, InstallInv, Zenon
  <1>3. ASSUME NEW p \in Installers,
               \/ convergeFile(p) \/ prepareStage(p) \/ discardIncompleteStage(p) \/ Reopens(p)
               \/ Rereads(p) \/ cleanupStage(p) \/ Breaks(p)
        PROVE  IInv'
    BY <1>3, StageStepInv, Zenon
  <1>4. ASSUME NEW p \in Installers, Writes(p) PROVE IInv'
    BY <1>4, WritesInv, Zenon
  <1>5. ASSUME NEW p \in Installers, publishExclusive(p) PROVE IInv'
    BY <1>5, PublishInv, Zenon
  <1>6. ASSUME NEW p \in Installers, Verifies(p) PROVE IInv'
    BY <1>6, VerifiesInv, Zenon
  <1>7. ASSUME NEW k \in DOMAIN Plan, UserWrites(k) PROVE IInv'
    BY <1>7, UserInv, Zenon
  <1> QED
    BY <1>1, <1>2, <1>3, <1>4, <1>5, <1>6, <1>7, Zenon DEF INext

(***************************************************************************)
(* Whatever installers do at once, a projection reported as installed is   *)
(* exact and stays so; and installers that run one after another, killed   *)
(* anywhere, leave no torn file behind (convergeFile, publishExclusive,    *)
(* convergeInstall).                                                       *)
(***************************************************************************)
THEOREM ProjectionIsExact == IInit /\ [][INext]_ivars => []InstalledIsExact
  <1>1. IInv => InstalledIsExact
    BY Zenon DEF IInv
  <1> QED
    BY <1>1, IInitInv, INextInv, PTL

=============================================================================
