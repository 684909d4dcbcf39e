--------------------------- MODULE RegistryProofs ---------------------------
(***************************************************************************)
(* The registry of open stores for any number of users, requests and       *)
(* entries, and any limit.  After it, provisioning: what is left by        *)
(* commands that are killed, for any number of them.                       *)
(***************************************************************************)
EXTENDS RegistryProperties, Provisioning, FiniteSetTheorems, WellFoundedInduction, TLAPS

Entry == [key : Keys \cup {NoKey}, refs : Nat, ready : BOOLEAN, failed : BOOLEAN,
          evicted : BOOLEAN, closed : BOOLEAN]

Using == {"open", "wait", "hold", "release"}

Asking == [pc : Using \cup {"idle", "cached", "stat", "acquire", "dispose"},
           key : Keys \cup {NoKey}, create : BOOLEAN, id : Ids \cup {NoKey},
           victims : SUBSET Ids]

GTypes ==
    /\ entry \in [Ids -> Entry]
    /\ live \subseteq Ids
    /\ lru \in Seq(Ids)
    /\ request \in [Requests -> Asking]
    /\ closer \subseteq Ids

\* The requests an entry's reference count stands for.
Holders(id) == {r \in Requests : request[r].pc \in Using /\ request[r].id = id}

Listed(id) == id \in Range(lru)

\* Somebody is about to close the entry.
Doomed(id) == id \in closer \/ \E r \in Requests : id \in request[r].victims

\* The reference count is the number of holders; what is cached is not closed,
\* what is about to be closed has no holder, a held entry leaves the cache
\* only when its open failed or the registry closes, and an open store can be
\* reached.
EntrySound(id) ==
    LET e == entry[id]
    IN /\ IsFiniteSet(Holders(id)) /\ e.refs = Cardinality(Holders(id))
       /\ Listed(id) => ~e.evicted /\ ~e.closed
       /\ Doomed(id) => e.closed
       /\ e.closed => e.refs = 0
       /\ e.refs > 0 /\ ~Listed(id) => e.evicted /\ (closing \/ e.failed)
       /\ (Listed(id) \/ e.refs > 0) /\ e.ready /\ ~e.failed => id \in live
       /\ id \in live => Listed(id) \/ Doomed(id) \/ e.refs > 0

\* What a request knows of the entry it holds.
RequestSound(r) ==
    LET q == request[r]
        e == entry[q.id]
    IN /\ q.victims # {} => q.pc \in {"open", "dispose"}
       /\ q.pc \in Using => q.id \in Ids /\ e.key = q.key
       /\ q.pc = "open" => ~e.ready /\ ~e.failed
       /\ q.pc = "hold" => e.ready /\ ~e.failed

OneOwner ==
    /\ closing \/ closer = {}
    /\ \A r \in Requests :
         /\ request[r].victims \cap closer = {}
         /\ \A q \in Requests : request[r].victims \cap request[q].victims # {} => r = q

OneOpener ==
    \A r, q \in Requests :
      At(r, "open") /\ At(q, "open") /\ request[r].id = request[q].id => r = q

\* Entries that a request for their key finds or already holds.
Used(id) == Listed(id) \/ (entry[id].refs > 0 /\ ~entry[id].failed)

OneEntryPerKey ==
    \A x, y \in Ids : Used(x) /\ Used(y) /\ entry[x].key = entry[y].key => x = y

GInv ==
    /\ GTypes
    /\ \A id \in Ids : EntrySound(id)
    /\ \A r \in Requests : RequestSound(r)
    /\ OneOwner /\ OneOpener /\ OneEntryPerKey

\* Every set of naturals that is not empty has a least element.
LEMMA Least ==
    ASSUME NEW T \in SUBSET Nat, T # {}
    PROVE  \E x \in T : \A y \in T : x <= y
  <1> DEFINE R == {ss \in Nat \X Nat : ss[1] < ss[2]}
  <1>1. IsWellFoundedOn(R, Nat)
    BY NatLessThanWellFounded, Zenon DEF OpToRel
  <1>2. \A x, y \in Nat : <<y, x>> \notin R => x <= y
    OBVIOUS
  <1> HIDE DEF R
  <1>3. \E x \in T : \A y \in T : ~ (<<y, x>> \in R)
    BY <1>1, WFMin, Zenon
  <1> QED
    BY <1>2, <1>3, Zenon

\* The cache without some entries is the cache with the others.  Both steps go
\* by the least prefix for which the function is not defined or not right.
LEMMA WithoutGoneFacts ==
    ASSUME NEW S, NEW l \in Seq(S), NEW gone
    PROVE  /\ WithoutGone(l, gone) \in Seq(S)
           /\ Range(WithoutGone(l, gone)) = Range(l) \ gone
  <1> DEFINE Step(f, i) == IF i = 0 THEN <<>>
                           ELSE IF l[i] \in gone THEN f[i - 1]
                           ELSE Append(f[i - 1], l[i])
             Keeps(f, n) == f = [i \in 0..n |-> Step(f, i)]
             Lost == {n \in 0..Len(l) : ~ \E f : Keeps(f, n)}
  <1>1. Len(l) \in Nat
    OBVIOUS
  <1>2. Lost = {}
    <2> SUFFICES ASSUME Lost # {} PROVE FALSE
      BY Zenon
    <2>1. PICK n \in Lost : \A m \in Lost : n <= m
      <3>1. Lost \in SUBSET Nat
        BY <1>1
      <3> HIDE DEF Lost
      <3> QED
        BY <3>1, Least, Zenon
    <2>2. n \in 0..Len(l) /\ ~ \E f : Keeps(f, n)
      BY Zenon
    <2>3. CASE n = 0
      <3>1. Keeps([i \in 0..0 |-> <<>>], 0)
        OBVIOUS
      <3> QED
        BY <2>2, <2>3, <3>1, Zenon
    <2>4. CASE n # 0
      <3>1. n - 1 \in 0..Len(l) /\ n - 1 \notin Lost
        <4>1. n - 1 \in 0..Len(l) /\ ~(n <= n - 1)
          BY <1>1, <2>2, <2>4
        <4> HIDE DEF Lost
        <4> QED
          BY <2>1, <4>1, Zenon
      <3>2. PICK f : Keeps(f, n - 1)
        BY <3>1, Zenon
      <3> DEFINE g == [i \in 0..n |-> IF i = n THEN Step(f, n) ELSE f[i]]
      <3>3. \A i \in 0..n : g[i] = Step(g, i)
        <4> SUFFICES ASSUME NEW i \in 0..n PROVE g[i] = Step(g, i)
          BY Zenon
        <4>1. i # 0 => i - 1 \in 0..n /\ g[i - 1] = f[i - 1]
          BY <1>1, <2>2, <2>4
        <4>2. CASE i = n
          BY <4>1, <4>2, Zenon
        <4>3. CASE i # n
          <5>1. i \in 0..(n - 1)
            BY <1>1, <2>2, <4>3
          <5>2. f[i] = Step(f, i)
            BY <3>2, <5>1, Zenon
          <5> QED
            BY <4>1, <4>3, <5>2, Zenon
        <4> QED
          BY <4>2, <4>3, Zenon
      <3>4. Keeps(g, n)
        BY <3>3, Zenon
      <3> HIDE DEF g, Keeps
      <3> QED
        BY <2>2, <3>4, Zenon
    <2> QED
      BY <2>3, <2>4, Zenon
  <1> DEFINE kept == CHOOSE f : Keeps(f, Len(l))
  <1>3. Keeps(kept, Len(l))
    <2>1. Len(l) \in 0..Len(l)
      BY <1>1
    <2> HIDE DEF Keeps
    <2>2. \E f : Keeps(f, Len(l))
      BY <1>2, <2>1, Zenon
    <2> QED
      BY <2>2, Zenon
  <1>4. WithoutGone(l, gone) = kept[Len(l)]
    BY Zenon DEF WithoutGone
  <1> HIDE DEF kept
  <1>5. \A i \in 0..Len(l) : kept[i] = Step(kept, i)
    BY <1>3, Zenon
  <1> HIDE DEF Keeps
  <1> DEFINE Right(i) == /\ kept[i] \in Seq(S)
                         /\ \A x : (\E k \in 1..Len(kept[i]) : kept[i][k] = x)
                                   <=> (\E k \in 1..i : l[k] = x) /\ x \notin gone
             Wrong == {i \in 0..Len(l) : ~Right(i)}
  <1>6. Wrong = {}
    <2> SUFFICES ASSUME Wrong # {} PROVE FALSE
      BY Zenon
    <2>1. PICK n \in Wrong : \A m \in Wrong : n <= m
      <3>1. Wrong \in SUBSET Nat
        BY <1>1
      <3> HIDE DEF Wrong
      <3> QED
        BY <3>1, Least, Zenon
    <2>2. n \in 0..Len(l) /\ ~Right(n)
      BY Zenon
    <2>3. CASE n = 0
      <3>1. kept[0] = <<>>
        BY <1>1, <1>5
      <3> QED
        BY <2>2, <2>3, <3>1
    <2>4. CASE n # 0
      <3>1. n - 1 \in 0..Len(l) /\ n - 1 \notin Wrong
        <4>1. n - 1 \in 0..Len(l) /\ ~(n <= n - 1)
          BY <1>1, <2>2, <2>4
        <4> HIDE DEF Wrong
        <4> QED
          BY <2>1, <4>1, Zenon
      <3>2. Right(n - 1)
        <4> HIDE DEF Right
        <4> QED
          BY <3>1, Zenon
      <3>3. \A x : (\E k \in 1..n : l[k] = x) <=> (\E k \in 1..(n - 1) : l[k] = x) \/ x = l[n]
        BY <1>1, <2>2, <2>4
      <3>4. l[n] \in S
        BY <1>1, <2>2, <2>4
      <3>5. CASE l[n] \in gone
        <4>1. kept[n] = kept[n - 1]
          BY <1>5, <2>2, <2>4, <3>5, Zenon
        <4> QED
          BY <2>2, <3>2, <3>3, <3>5, <4>1, Zenon
      <3>6. CASE l[n] \notin gone
        <4> DEFINE s == kept[n - 1]
        <4>1. kept[n] = Append(s, l[n])
          BY <1>5, <2>2, <2>4, <3>6, Zenon
        <4>2. s \in Seq(S)
          BY <3>2, Zenon
        <4> HIDE DEF s
        <4>3. /\ Append(s, l[n]) \in Seq(S)
              /\ \A x : (\E k \in 1..Len(Append(s, l[n])) : Append(s, l[n])[k] = x)
                        <=> (\E k \in 1..Len(s) : s[k] = x) \/ x = l[n]
          <5>1. /\ Append(s, l[n]) \in Seq(S) /\ Len(Append(s, l[n])) = Len(s) + 1
                /\ Len(s) \in Nat
                /\ \A k \in 1..Len(s) : Append(s, l[n])[k] = s[k]
                /\ Append(s, l[n])[Len(s) + 1] = l[n]
            BY <3>4, <4>2
          <5>2. \A k : k \in 1..(Len(s) + 1) <=> k \in 1..Len(s) \/ k = Len(s) + 1
            BY <5>1
          <5> QED
            BY <5>1, <5>2, Zenon
        <4> QED
          BY <2>2, <3>2, <3>3, <3>6, <4>1, <4>3, Zenon DEF s
      <3> QED
        BY <3>5, <3>6, Zenon
    <2> QED
      BY <2>3, <2>4, Zenon
  <1>7. Right(Len(l))
    <2>1. Len(l) \in 0..Len(l)
      BY <1>1
    <2> HIDE DEF Right
    <2> QED
      BY <1>6, <2>1, Zenon
  <1>8. \A s \in Seq(S) : \A x : x \in Range(s) <=> \E k \in 1..Len(s) : s[k] = x
    BY DEF Range
  <1>9. WithoutGone(l, gone) \in Seq(S)
    BY <1>4, <1>7, Zenon
  <1>10. \A x : x \in Range(WithoutGone(l, gone)) <=> x \in Range(l) /\ x \notin gone
    BY <1>4, <1>7, <1>8, <1>9, Zenon
  <1> QED
    BY <1>9, <1>10, Zenon

LEMMA RegistryInitInv == RegistryInit => GInv
  <1> SUFFICES ASSUME RegistryInit PROVE GInv
    BY Zenon
  <1>1. /\ NoEntry \in Entry /\ NoEntry.refs = 0 /\ ~NoEntry.ready /\ ~NoEntry.failed
        /\ ~NoEntry.evicted /\ ~NoEntry.closed
    BY Zenon DEF NoEntry, NewEntry, Entry
  <1>2. /\ IdleRequest \in Asking /\ IdleRequest.pc = "idle" /\ IdleRequest.victims = {}
    BY Zenon DEF IdleRequest, Asking, Using
  <1>3. /\ \A id \in Ids : entry[id] = NoEntry
        /\ \A r \in Requests : request[r] = IdleRequest
        /\ live = {} /\ lru = <<>> /\ closer = {}
    BY Zenon DEF RegistryInit
  <1>4. GTypes
    <2>1. entry \in [Ids -> Entry] /\ request \in [Requests -> Asking]
      BY <1>1, <1>2, Zenon DEF RegistryInit
    <2>2. lru \in Seq(Ids)
      BY <1>3
    <2> QED
      BY <1>3, <2>1, <2>2, Zenon DEF GTypes
  <1>5. \A id : ~Listed(id)
    BY <1>3 DEF Listed, Range
  <1>6. \A id \in Ids : EntrySound(id)
    <2>1. \A id \in Ids : Holders(id) = {}
      BY <1>2, <1>3, Zenon DEF Holders, Using
    <2>2. \A id \in Ids : ~Doomed(id)
      BY <1>2, <1>3, Zenon DEF Doomed
    <2>3. IsFiniteSet({}) /\ Cardinality({}) = 0
      BY FS_EmptySet, Zenon
    <2> SUFFICES ASSUME NEW id \in Ids PROVE EntrySound(id)
      BY Zenon
    <2>4. entry[id].refs = 0 /\ id \notin live
      BY <1>1, <1>3, Zenon
    <2> QED
      BY <1>5, <2>1, <2>2, <2>3, <2>4 DEF EntrySound
  <1>7. \A r \in Requests : RequestSound(r)
    BY <1>2, <1>3, Zenon DEF RequestSound, Using
  <1>8. OneOwner /\ OneOpener
    BY <1>2, <1>3, Zenon DEF OneOwner, OneOpener, At
  <1>9. OneEntryPerKey
    BY <1>1, <1>3, <1>5 DEF OneEntryPerKey, Used
  <1> QED
    BY <1>4, <1>6, <1>7, <1>8, <1>9, Zenon DEF GInv

\* The request of r becomes one that is at pc, with this entry and these
\* entries to close; the others stay.
Became(r, pc, id, victims) ==
    /\ request' \in [Requests -> Asking]
    /\ \A q \in Requests : q # r => request'[q] = request[q]
    /\ request'[r].pc = pc /\ request'[r].id = id /\ request'[r].victims = victims

Pcs == Using \cup {"idle", "cached", "stat", "acquire", "dispose"}

LEMMA GotoRow ==
    ASSUME GTypes, NEW r \in Requests, NEW pc \in Pcs, Goto(r, pc)
    PROVE  /\ Became(r, pc, request[r].id, request[r].victims)
           /\ request'[r].key = request[r].key
  <1> DEFINE row == [request[r] EXCEPT !.pc = pc]
  <1>1. request' = [request EXCEPT ![r] = row] /\ request[r] \in Asking
    BY Zenon DEF Goto, GTypes
  <1>2. /\ row \in Asking /\ row.pc = pc /\ row.id = request[r].id
        /\ row.victims = request[r].victims /\ row.key = request[r].key
    BY <1>1, Zenon DEF Asking, Pcs
  <1> HIDE DEF row
  <1> QED
    BY <1>1, <1>2, Zenon DEF Became, GTypes

LEMMA ReturnRow ==
    ASSUME GTypes, NEW r \in Requests, Return(r)
    PROVE  Became(r, "idle", NoKey, {})
  <1>1. /\ IdleRequest \in Asking /\ IdleRequest.pc = "idle" /\ IdleRequest.victims = {}
        /\ IdleRequest.id = NoKey
    BY Zenon DEF IdleRequest, Asking, Using
  <1> QED
    BY <1>1, Zenon DEF Return, Became, GTypes

\* A request that only moves: it holds afterwards what it held before.
LEMMA MoveInv ==
    ASSUME GInv, NEW r \in Requests, NEW pc \in Pcs \ {"open"}, NEW id,
           Became(r, pc, id, request[r].victims),
           UNCHANGED <<entry, live, lru, closing, closer>>,
           pc \in Using <=> request[r].pc \in Using,
           pc \in Using => id = request[r].id /\ request'[r].key = request[r].key,
           pc = "hold" => entry[id].ready /\ ~entry[id].failed,
           request[r].victims # {} => pc = "dispose"
    PROVE  GInv'
  <1>1. \A x : Holders(x)' = Holders(x)
    BY Zenon DEF Holders, Became
  <1>2. \A q \in Requests : request'[q].victims = request[q].victims
    BY Zenon DEF Became
  <1>3. \A x : (Listed(x)' <=> Listed(x)) /\ (Doomed(x)' <=> Doomed(x))
    BY <1>2, Zenon DEF Listed, Doomed
  <1>4. GTypes'
    BY Zenon DEF GInv, GTypes, Became
  <1>5. \A x \in Ids : EntrySound(x)'
    BY <1>1, <1>3, Zenon DEF GInv, EntrySound
  <1>6. \A q \in Requests : RequestSound(q)'
    <2>1. RequestSound(r)'
      BY Zenon DEF GInv, RequestSound, Became
    <2>2. ASSUME NEW q \in Requests, q # r PROVE RequestSound(q)'
      BY <2>2 DEF GInv, RequestSound, Became
    <2> QED
      BY <2>1, <2>2, Zenon
  <1>7. OneOwner'
    BY <1>2, Zenon DEF GInv, OneOwner
  <1>8. OneOpener'
    BY DEF GInv, OneOpener, At, Became
  <1>9. OneEntryPerKey'
    BY <1>3, Zenon DEF GInv, OneEntryPerKey, Used
  <1> QED
    BY <1>4, <1>5, <1>6, <1>7, <1>8, <1>9, Zenon DEF GInv

LEMMA BeginAcquireInv ==
    ASSUME GInv, NEW r \in Requests, NEW k \in Keys, BeginAcquire(r, k)
    PROVE  GInv'
  <1> USE DEF Using, Pcs
  <1>1. UNCHANGED <<entry, live, lru, closing, closer>>
    BY Zenon DEF BeginAcquire
  <1>2. GTypes
    BY Zenon DEF GInv
  <1>3. BeginAcquire(r, k)
    BY Zenon
  <1> QED
    <2>1. PICK create \in BOOLEAN, pc \in {"acquire", "cached"} :
            request' = [request EXCEPT ![r] =
              [IdleRequest EXCEPT !.pc = pc, !.key = k, !.create = create]]
      BY <1>3, Zenon DEF BeginAcquire
    <2> DEFINE row == [IdleRequest EXCEPT !.pc = pc, !.key = k, !.create = create]
    <2>2. row \in Asking /\ row.pc = pc /\ row.id = NoKey /\ row.victims = {}
      BY Zenon DEF IdleRequest, Asking
    <2>3. request' = [request EXCEPT ![r] = row]
      BY <2>1, Zenon
    <2> HIDE DEF row
    <2>4. request[r].pc = "idle" /\ request[r].victims = {}
      <3>1. request[r] = IdleRequest
        BY <1>3, Zenon DEF BeginAcquire
      <3> QED
        BY <3>1 DEF IdleRequest
    <2>5. Became(r, pc, NoKey, request[r].victims)
      BY <1>2, <2>2, <2>3, <2>4, Zenon DEF Became, GTypes
    <2> QED
      BY <1>1, <2>4, <2>5, MoveInv, Zenon

LEMMA MovesInv ==
    ASSUME GInv, NEW r \in Requests,
           IsCached(r) \/ Stat(r) \/ Refused(r) \/ Ready(r) \/ Leave(r) \/ Finish(r) \/ Released(r)
    PROVE  GInv'
  <1> USE DEF Using, Pcs
  <1>1. UNCHANGED <<entry, live, lru, closing, closer>>
    BY Zenon DEF IsCached, Stat, Refused, Ready, Leave, Finish, Released
  <1>2. /\ GTypes /\ RequestSound(r)
    BY Zenon DEF GInv
  <1>4. CASE Return(r) /\ (Stat(r) \/ Refused(r) \/ Released(r))
    <2>1. request[r].victims = {} /\ request[r].pc \notin Using
      BY <1>2, <1>4, Zenon DEF Stat, Refused, Released, At, RequestSound
    <2>2. Became(r, "idle", NoKey, request[r].victims)
      BY <1>2, <1>4, <2>1, ReturnRow, Zenon
    <2> QED
      BY <1>1, <2>1, <2>2, MoveInv, Zenon
  <1>5. CASE /\ IsCached(r) \/ Stat(r)
             /\ \E pc \in {"acquire", "stat"} : Goto(r, pc)
    <2>1. PICK pc \in {"acquire", "stat"} : Goto(r, pc)
      BY <1>5, Zenon
    <2>2. request[r].victims = {} /\ request[r].pc \notin Using
      BY <1>2, <1>5, Zenon DEF IsCached, Stat, At, RequestSound
    <2>3. Became(r, pc, request[r].id, request[r].victims)
      BY <1>2, <2>1, GotoRow, Zenon
    <2> QED
      BY <1>1, <2>2, <2>3, MoveInv, Zenon
  <1>6. CASE /\ Ready(r) \/ Leave(r) \/ Finish(r)
             /\ \E pc \in {"release", "hold"} :
                  Goto(r, pc) /\ (pc = "hold" => /\ entry[request[r].id].ready
                                                 /\ ~entry[request[r].id].failed)
    <2>1. PICK pc \in {"release", "hold"} :
            Goto(r, pc) /\ (pc = "hold" => /\ entry[request[r].id].ready
                                           /\ ~entry[request[r].id].failed)
      BY <1>6, Zenon
    <2>2. request[r].victims = {} /\ request[r].pc \in Using
      BY <1>2, <1>6, Zenon DEF Ready, Leave, Finish, At, RequestSound
    <2>3. /\ Became(r, pc, request[r].id, request[r].victims)
          /\ request'[r].key = request[r].key
      BY <1>2, <2>1, GotoRow, Zenon
    <2> QED
      BY <1>1, <2>1, <2>2, <2>3, MoveInv, Zenon
  <1>7. CASE IsCached(r)
    BY <1>5, <1>7, Zenon DEF IsCached
  <1>8. CASE Stat(r)
    BY <1>4, <1>5, <1>8, Zenon DEF Stat
  <1>9. CASE Refused(r) \/ Released(r)
    BY <1>4, <1>9, Zenon DEF Refused, Released
  <1>10. CASE Ready(r)
    BY <1>6, <1>10, Zenon DEF Ready
  <1>11. CASE Leave(r) \/ Finish(r)
    BY <1>6, <1>11, Zenon DEF Leave, Finish
  <1> QED
    BY <1>7, <1>8, <1>9, <1>10, <1>11, Zenon

\* removeLocked, field by field.
LEMMA RemoveLockedFacts ==
    ASSUME NEW es \in [Ids -> Entry], NEW gone, NEW shut
    PROVE  /\ RemoveLocked(es, gone, shut) \in [Ids -> Entry]
           /\ \A id \in Ids :
                LET e == RemoveLocked(es, gone, shut)[id]
                IN /\ e.key = es[id].key /\ e.refs = es[id].refs
                   /\ e.ready = es[id].ready /\ e.failed = es[id].failed
                   /\ id \notin gone => e = es[id]
                   /\ id \in gone => e.evicted
                   /\ e.closed <=> es[id].closed \/ (id \in gone \cap shut)
  <1> DEFINE Gone(id) == [es[id] EXCEPT !.evicted = TRUE, !.closed = @ \/ id \in shut]
  <1>1. \A id \in Ids : RemoveLocked(es, gone, shut)[id] = IF id \in gone THEN Gone(id) ELSE es[id]
    BY Zenon DEF RemoveLocked
  <1>2. ASSUME NEW id \in Ids
        PROVE  /\ Gone(id) \in Entry
               /\ Gone(id).key = es[id].key /\ Gone(id).refs = es[id].refs
               /\ Gone(id).ready = es[id].ready /\ Gone(id).failed = es[id].failed
               /\ Gone(id).evicted
               /\ Gone(id).closed <=> es[id].closed \/ id \in shut
    <2>1. es[id] \in Entry
      BY Zenon
    <2> QED
      BY <2>1, Zenon DEF Entry
  <1> HIDE DEF Gone
  <1>3. RemoveLocked(es, gone, shut) \in [Ids -> Entry]
    <2>1. RemoveLocked(es, gone, shut) = [id \in Ids |-> IF id \in gone THEN Gone(id) ELSE es[id]]
      BY Zenon DEF RemoveLocked, Gone
    <2> QED
      BY <1>2, <2>1, Zenon
  <1> QED
    BY <1>1, <1>2, <1>3, Zenon

\* Only idle entries are evicted.
LEMMA EvictedFacts ==
    ASSUME NEW es, NEW l \in Seq(Ids)
    PROVE  \A id \in Evicted(es, l) : id \in Range(l) /\ id \in Ids /\ es[id].refs = 0
  <1> SUFFICES ASSUME NEW id \in Evicted(es, l)
               PROVE  id \in Range(l) /\ id \in Ids /\ es[id].refs = 0
    BY Zenon
  <1>1. PICK i \in DOMAIN l : id = l[i] /\ es[l[i]].refs = 0
    BY Zenon DEF Evicted
  <1> QED
    BY <1>1 DEF Range

LEMMA PutFirst ==
    ASSUME NEW id \in Ids, NEW l \in Seq(Ids)
    PROVE  /\ <<id>> \o l \in Seq(Ids)
           /\ \A x : x \in Range(<<id>> \o l) <=> x = id \/ x \in Range(l)
  <1> DEFINE s == <<id>> \o l
  <1>1. /\ s \in Seq(Ids) /\ Len(s) = Len(l) + 1 /\ Len(l) \in Nat
        /\ s[1] = id
        /\ \A i \in 1..Len(l) : s[i + 1] = l[i]
    OBVIOUS
  <1> HIDE DEF s
  <1>2. /\ \A x : x \in Range(s) <=> \E k \in 1..(Len(l) + 1) : s[k] = x
        /\ \A x : x \in Range(l) <=> \E k \in 1..Len(l) : l[k] = x
    <2>1. DOMAIN s = 1..(Len(l) + 1) /\ DOMAIN l = 1..Len(l)
      BY <1>1
    <2> QED
      BY <2>1, Zenon DEF Range
  <1>3. \A k : k \in 1..(Len(l) + 1) <=> k = 1 \/ \E i \in 1..Len(l) : k = i + 1
    <2>1. ASSUME NEW k \in 1..(Len(l) + 1), k # 1 PROVE \E i \in 1..Len(l) : k = i + 1
      <3>1. k - 1 \in 1..Len(l) /\ k = (k - 1) + 1
        BY <1>1, <2>1
      <3> QED
        BY <3>1, Zenon
    <2> QED
      BY <1>1, <2>1
  <1>4. \A x : x \in Range(s) <=> x = id \/ x \in Range(l)
    <2>1. ASSUME NEW x \in Range(s) PROVE x = id \/ x \in Range(l)
      <3>1. PICK k \in 1..(Len(l) + 1) : s[k] = x
        BY <1>2, Zenon
      <3>2. CASE k = 1
        BY <1>1, <3>1, <3>2, Zenon
      <3>3. CASE k # 1
        <4>1. PICK i \in 1..Len(l) : k = i + 1
          BY <1>3, <3>3, Zenon
        <4>2. l[i] = x
          BY <1>1, <3>1, <4>1, Zenon
        <4> QED
          BY <1>2, <4>2, Zenon
      <3> QED
        BY <3>2, <3>3, Zenon
    <2>2. id \in Range(s)
      BY <1>1, <1>2, <1>3, Zenon
    <2>3. ASSUME NEW x \in Range(l) PROVE x \in Range(s)
      <3>1. PICK k \in 1..Len(l) : l[k] = x
        BY <1>2, Zenon
      <3>2. k + 1 \in 1..(Len(l) + 1) /\ s[k + 1] = x
        BY <1>1, <3>1
      <3> QED
        BY <1>2, <3>2, Zenon
    <2> QED
      BY <2>1, <2>2, <2>3, Zenon
  <1> QED
    BY <1>1, <1>4, Zenon DEF s

\* An entry without references has no holder, and one with a holder has some.
LEMMA CountFacts ==
    ASSUME NEW id \in Ids, EntrySound(id)
    PROVE  /\ entry[id].refs = 0 <=> Holders(id) = {}
           /\ entry[id].refs \in Nat
           /\ entry[id].refs > 0 <=> Holders(id) # {}
  <1>1. Cardinality(Holders(id)) \in Nat /\ (Cardinality(Holders(id)) = 0 <=> Holders(id) = {})
    BY FS_CardinalityType, FS_EmptySet, Zenon DEF EntrySound
  <1> QED
    BY <1>1 DEF EntrySound

\* One holder more, one holder less.
LEMMA HolderJoins ==
    ASSUME NEW S, IsFiniteSet(S), NEW r, r \notin S
    PROVE  IsFiniteSet(S \cup {r}) /\ Cardinality(S \cup {r}) = Cardinality(S) + 1
  BY FS_AddElement, Zenon

\* An entry about to be closed that nobody holds and the cache has dropped.
LEMMA ClosedIsSound ==
    ASSUME NEW x, IsFiniteSet(Holders(x)'), entry'[x].refs = Cardinality(Holders(x)'),
           entry'[x].refs = 0, entry'[x].closed, Doomed(x)', ~Listed(x)'
    PROVE  EntrySound(x)'
  <1>1. ~(entry'[x].refs > 0)
    OBVIOUS
  <1> QED
    BY <1>1, Zenon DEF EntrySound

LEMMA HolderLeaves ==
    ASSUME NEW S, IsFiniteSet(S), NEW r \in S
    PROVE  IsFiniteSet(S \ {r}) /\ Cardinality(S \ {r}) = Cardinality(S) - 1
  BY FS_RemoveElement, Zenon

Counted(es, id, n) == [es EXCEPT ![id].refs = n]

LEMMA CountedFacts ==
    ASSUME NEW es \in [Ids -> Entry], NEW id \in Ids, NEW n \in Nat
    PROVE  LET fs == Counted(es, id, n)
           IN /\ fs \in [Ids -> Entry]
              /\ \A x \in Ids : x # id => fs[x] = es[x]
              /\ fs[id].refs = n /\ fs[id].key = es[id].key
              /\ fs[id].ready = es[id].ready /\ fs[id].failed = es[id].failed
              /\ fs[id].evicted = es[id].evicted /\ fs[id].closed = es[id].closed
  <1> DEFINE e == [es[id] EXCEPT !.refs = n]
  <1>1. es[id] \in Entry /\ Counted(es, id, n) = [es EXCEPT ![id] = e]
    BY Zenon DEF Counted
  <1>2. /\ e \in Entry /\ e.refs = n /\ e.key = es[id].key
        /\ e.ready = es[id].ready /\ e.failed = es[id].failed
        /\ e.evicted = es[id].evicted /\ e.closed = es[id].closed
    BY <1>1, Zenon DEF Entry
  <1> HIDE DEF e
  <1> QED
    BY <1>1, <1>2, Zenon

\* A further request for a cached entry.
LEMMA JoinInv ==
    ASSUME GInv, NEW r \in Requests, Join(r)
    PROVE  GInv'
  <1> USE DEF Using
  <1>1. PICK id \in Cached(request[r].key) :
          /\ entry' = [entry EXCEPT ![id].refs = @ + 1]
          /\ lru' = <<id>> \o WithoutGone(lru, {id})
          /\ request' = [request EXCEPT ![r] = [@ EXCEPT !.pc = "wait", !.id = id]]
    BY Zenon DEF Join
  <1>2. /\ At(r, "acquire") /\ ~closing /\ UNCHANGED <<live, closing, closer>>
    BY Zenon DEF Join
  <1>3. /\ GTypes /\ RequestSound(r)
        /\ id \in Ids /\ Listed(id) /\ entry[id].key = request[r].key
    <2>1. \A x \in Range(lru) : x \in Ids
      BY DEF GInv, GTypes, Range
    <2> QED
      BY <1>1, <2>1, Zenon DEF GInv, Cached, Listed
  <1>4. /\ entry[id].refs \in Nat
        /\ entry' = Counted(entry, id, entry[id].refs + 1)
    <2>1. entry[id] \in Entry
      BY <1>3, Zenon DEF GTypes
    <2>2. entry[id].refs \in Nat
      BY <2>1, Zenon DEF Entry
    <2> QED
      BY <1>1, <1>3, <2>2, Zenon DEF Counted, GTypes
  <1>5. /\ entry' \in [Ids -> Entry]
        /\ \A x \in Ids : x # id => entry'[x] = entry[x]
        /\ entry'[id].refs = entry[id].refs + 1 /\ entry'[id].key = entry[id].key
        /\ entry'[id].ready = entry[id].ready /\ entry'[id].failed = entry[id].failed
        /\ entry'[id].evicted = entry[id].evicted /\ entry'[id].closed = entry[id].closed
    <2> DEFINE n == entry[id].refs + 1
    <2>1. n \in Nat /\ entry' = Counted(entry, id, n) /\ entry \in [Ids -> Entry]
      BY <1>3, <1>4 DEF GTypes
    <2> HIDE DEF n
    <2>2. /\ entry' \in [Ids -> Entry]
          /\ \A x \in Ids : x # id => entry'[x] = entry[x]
          /\ entry'[id].refs = n /\ entry'[id].key = entry[id].key
          /\ entry'[id].ready = entry[id].ready /\ entry'[id].failed = entry[id].failed
          /\ entry'[id].evicted = entry[id].evicted /\ entry'[id].closed = entry[id].closed
      BY <1>3, <2>1, CountedFacts
    <2> QED
      BY <2>2, Zenon DEF n
  <1>6. lru' \in Seq(Ids) /\ \A x : Listed(x)' <=> Listed(x)
    <2>1. /\ WithoutGone(lru, {id}) \in Seq(Ids)
          /\ Range(WithoutGone(lru, {id})) = Range(lru) \ {id}
      BY <1>3, WithoutGoneFacts, Zenon DEF GTypes
    <2> QED
      BY <1>1, <1>3, <2>1, PutFirst, Zenon DEF Listed
  <1>7. Became(r, "wait", id, {}) /\ request'[r].key = request[r].key
    <2> DEFINE row == [request[r] EXCEPT !.pc = "wait", !.id = id]
    <2>1. request[r] \in Asking /\ request[r].victims = {}
      BY <1>2, <1>3, Zenon DEF GTypes, RequestSound, At
    <2>2. /\ row \in Asking /\ row.pc = "wait" /\ row.id = id /\ row.victims = {}
          /\ row.key = request[r].key
      <3>1. "wait" \in Using \cup {"idle", "cached", "stat", "acquire", "dispose"}
            /\ id \in Ids \cup {NoKey}
        BY <1>3, Zenon
      <3> QED
        BY <2>1, <3>1, Zenon DEF Asking
    <2>3. request' = [request EXCEPT ![r] = row]
      BY <1>1, Zenon
    <2> HIDE DEF row
    <2> QED
      BY <1>3, <2>2, <2>3, Zenon DEF Became, GTypes
  <1>8. /\ Holders(id)' = Holders(id) \cup {r} /\ r \notin Holders(id)
        /\ \A x \in Ids : x # id => Holders(x)' = Holders(x)
    BY <1>2, <1>7, Zenon DEF Holders, Became, At
  <1>9. \A q \in Requests : request'[q].victims = request[q].victims
    BY <1>2, <1>3, <1>7, Zenon DEF Became, RequestSound, At
  <1>10. \A x : Doomed(x)' <=> Doomed(x)
    BY <1>2, <1>9, Zenon DEF Doomed
  <1>11. GTypes'
    BY <1>2, <1>3, <1>5, <1>6, <1>7, Zenon DEF GTypes, Became
  <1>12. ASSUME NEW x \in Ids PROVE EntrySound(x)'
    <2>1. EntrySound(x)
      BY Zenon DEF GInv
    <2>2. CASE x # id
      BY <1>2, <1>5, <1>6, <1>8, <1>10, <2>1, <2>2, Zenon DEF EntrySound
    <2>3. CASE x = id
      <3>1. /\ IsFiniteSet(Holders(id)')
            /\ Cardinality(Holders(id)') = entry'[id].refs
        BY <1>5, <1>8, <2>1, <2>3, HolderJoins DEF EntrySound
      <3>2. ~entry[id].closed /\ ~entry[id].evicted /\ ~Doomed(id) /\ id \in Ids
        BY <1>3, <2>1, <2>3, Zenon DEF EntrySound
      <3>3. (entry[id].ready /\ ~entry[id].failed => id \in live)
        BY <1>3, <2>1, <2>3, Zenon DEF EntrySound
      <3> QED
        BY <1>2, <1>3, <1>5, <1>6, <1>10, <2>1, <2>3, <3>1, <3>2, <3>3, Zenon DEF EntrySound
    <2> QED
      BY <2>2, <2>3, Zenon
  <1>13. ASSUME NEW q \in Requests PROVE RequestSound(q)'
    <2>1. RequestSound(q)
      BY Zenon DEF GInv
    <2>2. CASE q = r
      BY <1>3, <1>5, <1>7, <2>2, Zenon DEF RequestSound, Became
    <2>3. CASE q # r
      BY <1>5, <1>7, <2>1, <2>3 DEF RequestSound, Became
    <2> QED
      BY <2>2, <2>3, Zenon
  <1>14. OneOwner'
    BY <1>2, <1>9, Zenon DEF GInv, OneOwner
  <1>15. OneOpener'
    BY <1>7, Zenon DEF GInv, OneOpener, At, Became
  <1>16. OneEntryPerKey'
    <2>1. \A x \in Ids : Used(x)' => Used(x)
      BY <1>3, <1>5, <1>6, Zenon DEF Used
    <2>2. \A x \in Ids : entry'[x].key = entry[x].key
      BY <1>5, Zenon
    <2> QED
      BY <2>1, <2>2, Zenon DEF GInv, OneEntryPerKey
  <1> QED
    BY <1>11, <1>12, <1>13, <1>14, <1>15, <1>16, Zenon DEF GInv

LEMMA NewEntryFields ==
    ASSUME NEW k \in Keys \cup {NoKey}
    PROVE  /\ NewEntry(k) \in Entry /\ NewEntry(k).key = k /\ NewEntry(k).refs = 1
           /\ ~NewEntry(k).ready /\ ~NewEntry(k).failed
           /\ ~NewEntry(k).evicted /\ ~NewEntry(k).closed
  BY Zenon DEF NewEntry, Entry

LEMMA NoEntryFields ==
    /\ NoEntry \in Entry /\ NoEntry.refs = 0
    /\ ~NoEntry.ready /\ ~NoEntry.failed /\ ~NoEntry.evicted /\ ~NoEntry.closed
  BY Zenon DEF NoEntry, NewEntry, Entry

\* What is cached is not about to be closed, and while the registry is open a
\* request for a used entry's key finds it.
LEMMA CachedFacts ==
    ASSUME GInv, NEW id \in Ids
    PROVE  /\ Listed(id) => ~Doomed(id) /\ ~entry[id].closed /\ ~entry[id].evicted
           /\ Used(id) /\ ~closing => Listed(id)
  BY Zenon DEF GInv, EntrySound, Used

\* A new entry takes the place of idle ones, never of one in use.
LEMMA CreateInv ==
    ASSUME GInv, NEW r \in Requests, Create(r)
    PROVE  GInv'
  <1> USE DEF Using
  <1> DEFINE k == request[r].key
  <1>1. PICK id \in Ids :
          /\ entry[id] = NoEntry
          /\ LET es == [entry EXCEPT ![id] = NewEntry(k)]
                 gone == Evicted(es, <<id>> \o lru)
             IN /\ entry' = RemoveLocked(es, gone, gone)
                /\ lru' = WithoutGone(<<id>> \o lru, gone)
                /\ request' = [request EXCEPT ![r] =
                     [@ EXCEPT !.pc = "open", !.id = id, !.victims = gone]]
    BY Zenon DEF Create
  <1> DEFINE es == [entry EXCEPT ![id] = NewEntry(k)]
             l == <<id>> \o lru
             gone == Evicted(es, l)
  <1>2. /\ At(r, "acquire") /\ ~closing /\ Cached(k) = {} /\ UNCHANGED <<live, closing, closer>>
    BY Zenon DEF Create
  <1>3. GTypes /\ RequestSound(r) /\ EntrySound(id)
    BY Zenon DEF GInv
  <1>4. /\ request[r] \in Asking /\ k \in Keys \cup {NoKey} /\ request[r].victims = {}
    BY <1>2, <1>3, Zenon DEF GTypes, Asking, RequestSound, At
  <1>5. /\ es \in [Ids -> Entry] /\ es[id] = NewEntry(k)
        /\ \A x \in Ids : x # id => es[x] = entry[x]
    BY <1>3, <1>4, NewEntryFields, Zenon DEF GTypes
  <1>6. /\ entry' = RemoveLocked(es, gone, gone)
        /\ lru' = WithoutGone(l, gone)
        /\ request' = [request EXCEPT ![r] =
             [request[r] EXCEPT !.pc = "open", !.id = id, !.victims = gone]]
    BY <1>1, Zenon
  <1>7. l \in Seq(Ids) /\ \A x : x \in Range(l) <=> x = id \/ Listed(x)
    BY <1>3, PutFirst, Zenon DEF GTypes, Listed
  <1> HIDE DEF l, es
  <1>8. \A x \in gone : x \in Ids /\ x # id /\ Listed(x) /\ entry[x].refs = 0
    <2>1. \A x \in gone : x \in Range(l) /\ x \in Ids /\ es[x].refs = 0
      BY <1>7, EvictedFacts, Zenon
    <2>2. es[id].refs # 0
      BY <1>4, <1>5, NewEntryFields
    <2> QED
      BY <1>5, <1>7, <2>1, <2>2, Zenon
  <1> HIDE DEF gone
  <1>9. /\ entry' \in [Ids -> Entry]
        /\ \A x \in Ids : /\ entry'[x].key = es[x].key /\ entry'[x].refs = es[x].refs
                          /\ entry'[x].ready = es[x].ready /\ entry'[x].failed = es[x].failed
                          /\ x \notin gone => entry'[x] = es[x]
                          /\ x \in gone => entry'[x].evicted /\ entry'[x].closed
    BY <1>5, <1>6, RemoveLockedFacts
  <1>10. lru' \in Seq(Ids) /\ \A x : Listed(x)' <=> (x = id \/ Listed(x)) /\ x \notin gone
    BY <1>6, <1>7, WithoutGoneFacts DEF Listed
  <1>11. Became(r, "open", id, gone) /\ request'[r].key = k
    <2> DEFINE row == [request[r] EXCEPT !.pc = "open", !.id = id, !.victims = gone]
    <2>1. /\ row \in Asking /\ row.pc = "open" /\ row.id = id /\ row.victims = gone
          /\ row.key = k
      <3>1. "open" \in Using \cup {"idle", "cached", "stat", "acquire", "dispose"}
            /\ id \in Ids \cup {NoKey} /\ gone \in SUBSET Ids
        BY <1>8, Zenon
      <3> QED
        BY <1>4, <3>1, Zenon DEF Asking
    <2>2. request' = [request EXCEPT ![r] = row]
      BY <1>6, Zenon
    <2> HIDE DEF row
    <2> QED
      BY <1>3, <2>1, <2>2, Zenon DEF Became, GTypes
  <1> HIDE DEF k
  <1>12. Holders(id) = {} /\ ~Doomed(id)
    BY <1>1, <1>3, NoEntryFields, CountFacts, Zenon DEF EntrySound
  <1>13. /\ Holders(id)' = {r}
         /\ \A x \in Ids : x # id => Holders(x)' = Holders(x)
    BY <1>2, <1>11, <1>12 DEF Holders, Became, At
  <1>14. \A x : Doomed(x)' <=> Doomed(x) \/ x \in gone
    BY <1>2, <1>4, <1>11, Zenon DEF Doomed, Became
  <1>15. GTypes'
    BY <1>2, <1>3, <1>9, <1>10, <1>11, Zenon DEF GTypes, Became
  <1>16. ASSUME NEW x \in Ids PROVE EntrySound(x)'
    <2>1. EntrySound(x)
      BY Zenon DEF GInv
    <2>2. CASE x = id
      <3>1. IsFiniteSet({r}) /\ Cardinality({r}) = 1
        BY FS_Singleton, Zenon
      <3>2. /\ entry'[id].refs = 1 /\ ~entry'[id].ready /\ ~entry'[id].evicted
            /\ ~entry'[id].closed
        BY <1>4, <1>5, <1>8, <1>9, NewEntryFields DEF k
      <3> QED
        BY <1>8, <1>10, <1>12, <1>13, <1>14, <2>2, <3>1, <3>2, Zenon DEF EntrySound
    <2>3. CASE x \in gone
      <3>1. entry'[x].refs = 0 /\ entry'[x].closed /\ Holders(x)' = Holders(x)
        BY <1>5, <1>8, <1>9, <1>13, <2>3
      <3>2. Doomed(x)' /\ ~Listed(x)' /\ entry[x].refs = 0
        BY <1>8, <1>10, <1>14, <2>3, SMTT(30)
      <3>3. IsFiniteSet(Holders(x)) /\ entry[x].refs = Cardinality(Holders(x))
        BY <2>1, Zenon DEF EntrySound
      <3> QED
        BY <3>1, <3>2, <3>3, ClosedIsSound, Zenon
    <2>4. CASE x # id /\ x \notin gone
      BY <1>2, <1>5, <1>9, <1>10, <1>13, <1>14, <2>1, <2>4 DEF EntrySound
    <2> QED
      BY <2>2, <2>3, <2>4, Zenon
  <1>17. ASSUME NEW q \in Requests PROVE RequestSound(q)'
    <2>1. RequestSound(q)
      BY Zenon DEF GInv
    <2>2. CASE q = r
      BY <1>4, <1>5, <1>9, <1>11, <2>2, NewEntryFields DEF RequestSound, Became, k
    <2>3. CASE q # r
      <3>1. request'[q] = request[q]
        BY <1>11, <2>3, Zenon DEF Became
      <3>2. request[q].pc \in Using => request[q].id \in Ids /\ request[q].id # id
        BY <1>12, <2>1, Zenon DEF Holders, RequestSound
      <3> QED
        BY <1>5, <1>9, <2>1, <3>1, <3>2 DEF RequestSound
    <2> QED
      BY <2>2, <2>3, Zenon
  <1>18. OneOwner'
    <2>1. \A x \in gone : ~Doomed(x)
      BY <1>8, CachedFacts, Zenon
    <2>2. \A q \in Requests : q # r => gone \cap request[q].victims = {}
      BY <2>1, Zenon DEF Doomed
    <2>3. gone \cap closer = {}
      BY <2>1, Zenon DEF Doomed
    <2> QED
      BY <1>2, <1>11, <2>2, <2>3, Zenon DEF GInv, OneOwner, Became
  <1>19. OneOpener'
    <2>1. \A q \in Requests : At(q, "open") => request[q].id # id
      BY <1>12, Zenon DEF Holders, At
    <2> QED
      BY <1>11, <2>1, Zenon DEF GInv, OneOpener, At, Became
  <1>20. OneEntryPerKey'
    <2>1. ASSUME NEW x \in Ids, x # id, Used(x)' PROVE Used(x) /\ entry'[x].key # entry'[id].key
      <3>1. Used(x)
        BY <1>5, <1>9, <1>10, <2>1, Zenon DEF Used
      <3>2. Listed(x)
        BY <1>2, <3>1, CachedFacts, Zenon
      <3>3. entry[x].key # k
        BY <1>2, <3>2, Zenon DEF Cached, Listed
      <3>4. entry'[x].key = entry[x].key /\ entry'[id].key = k
        BY <1>4, <1>5, <1>9, <2>1, NewEntryFields DEF k
      <3> QED
        BY <3>1, <3>3, <3>4, Zenon
    <2>2. \A x \in Ids : x # id => entry'[x].key = entry[x].key
      BY <1>5, <1>9, Zenon
    <2> QED
      BY <2>1, <2>2, Zenon DEF GInv, OneEntryPerKey
  <1> QED
    BY <1>15, <1>16, <1>17, <1>18, <1>19, <1>20, Zenon DEF GInv

\* Whoever is about to close an entry closes it: it had no holder.
LEMMA CloseOne ==
    ASSUME GInv, NEW id \in Ids, Doomed(id),
           entry' = [entry EXCEPT ![id] = NoEntry], live' = live \ {id},
           UNCHANGED <<lru, closing>>, closer' \subseteq closer,
           request' \in [Requests -> Asking],
           \A q \in Requests :
             /\ request'[q].pc = request[q].pc /\ request'[q].id = request[q].id
             /\ request'[q].key = request[q].key
             /\ request'[q].victims \subseteq request[q].victims,
           \A x : Doomed(x)' <=> Doomed(x) /\ x # id
    PROVE  GInv'
  <1> USE DEF Using
  <1>1. /\ entry' \in [Ids -> Entry] /\ entry'[id] = NoEntry
        /\ \A x \in Ids : x # id => entry'[x] = entry[x]
    BY NoEntryFields, Zenon DEF GInv, GTypes
  <1>2. EntrySound(id) /\ entry[id].refs = 0 /\ Holders(id) = {} /\ ~Listed(id)
    <2>1. EntrySound(id)
      BY Zenon DEF GInv
    <2>2. entry[id].closed /\ entry[id].refs = 0 /\ ~Listed(id)
      BY <2>1, Zenon DEF EntrySound
    <2> QED
      BY <2>1, <2>2, CountFacts, Zenon
  <1>3. \A x : Holders(x)' = Holders(x) /\ (Listed(x)' <=> Listed(x))
    BY Zenon DEF Holders, Listed
  <1>4. GTypes'
    BY <1>1, Zenon DEF GInv, GTypes
  <1>5. ASSUME NEW x \in Ids PROVE EntrySound(x)'
    <2>1. EntrySound(x)
      BY Zenon DEF GInv
    <2>2. CASE x = id
      <3>1. entry'[id].refs = 0 /\ ~entry'[id].closed /\ id \notin live'
        BY <1>1, NoEntryFields, Zenon
      <3>2. ~Doomed(id)' /\ ~Listed(id)'
        BY <1>2, <1>3, Zenon
      <3>3. IsFiniteSet(Holders(id)') /\ Cardinality(Holders(id)') = 0
        BY <1>2, <1>3, Zenon DEF EntrySound
      <3> QED
        BY <2>2, <3>1, <3>2, <3>3 DEF EntrySound
    <2>3. CASE x # id
      BY <1>1, <1>3, <2>1, <2>3, Zenon DEF EntrySound
    <2> QED
      BY <2>2, <2>3, Zenon
  <1>6. ASSUME NEW q \in Requests PROVE RequestSound(q)'
    <2>1. RequestSound(q)
      BY Zenon DEF GInv
    <2>2. request[q].pc \in Using => request[q].id \in Ids /\ request[q].id # id
      BY <1>2, <2>1, Zenon DEF Holders, RequestSound
    <2> QED
      BY <1>1, <2>1, <2>2, Zenon DEF RequestSound
  <1>7. OneOwner' /\ OneOpener'
    BY DEF GInv, OneOwner, OneOpener, At
  <1>8. OneEntryPerKey'
    <2>1. ~Used(id)'
      BY <1>1, <1>2, <1>3, NoEntryFields DEF Used
    <2>2. \A x \in Ids : x # id => (Used(x)' <=> Used(x)) /\ entry'[x].key = entry[x].key
      BY <1>1, <1>3, Zenon DEF Used
    <2> QED
      BY <2>1, <2>2, Zenon DEF GInv, OneEntryPerKey
  <1> QED
    BY <1>4, <1>5, <1>6, <1>7, <1>8, Zenon DEF GInv

LEMMA CloseVictimInv ==
    ASSUME GInv, NEW r \in Requests, CloseVictim(r)
    PROVE  GInv'
  <1>1. PICK id \in request[r].victims :
          /\ live' = live \ {id}
          /\ entry' = [entry EXCEPT ![id] = NoEntry]
          /\ request' = [request EXCEPT ![r].victims = @ \ {id}]
    BY Zenon DEF CloseVictim
  <1>2. UNCHANGED <<lru, closing, closer>>
    BY Zenon DEF CloseVictim
  <1>3. request[r] \in Asking /\ request[r].victims \in SUBSET Ids
    BY Zenon DEF GInv, GTypes, Asking
  <1> DEFINE rest == request[r].victims \ {id}
             row == [request[r] EXCEPT !.victims = rest]
  <1>4. /\ row \in Asking /\ row.pc = request[r].pc /\ row.id = request[r].id
        /\ row.key = request[r].key /\ row.victims = rest
    <2>1. rest \in SUBSET Ids
      BY <1>3, Zenon
    <2> HIDE DEF rest
    <2> QED
      BY <1>3, <2>1, Zenon DEF Asking
  <1>5. request' = [request EXCEPT ![r] = row]
    BY <1>1, Zenon DEF GInv, GTypes
  <1> HIDE DEF row
  <1>6. /\ request' \in [Requests -> Asking] /\ request'[r] = row
        /\ \A q \in Requests : q # r => request'[q] = request[q]
    BY <1>4, <1>5, Zenon DEF GInv, GTypes
  <1>7. id \notin closer /\ \A q \in Requests : q # r => id \notin request[q].victims
    BY Zenon DEF GInv, OneOwner
  <1>8. \A x : Doomed(x)' <=> Doomed(x) /\ x # id
    BY <1>2, <1>4, <1>6, <1>7, Zenon DEF Doomed
  <1>9. Doomed(id) /\ id \in Ids
    BY <1>3, Zenon DEF Doomed
  <1>10. \A q \in Requests :
             /\ request'[q].pc = request[q].pc /\ request'[q].id = request[q].id
             /\ request'[q].key = request[q].key
             /\ request'[q].victims \subseteq request[q].victims
    BY <1>4, <1>6, Zenon
  <1> QED
    BY <1>1, <1>2, <1>6, <1>8, <1>9, <1>10, CloseOne, Zenon

LEMMA CloseEntryInv ==
    ASSUME GInv, CloseEntry
    PROVE  GInv'
  <1>1. PICK id \in closer :
          /\ live' = live \ {id}
          /\ entry' = [entry EXCEPT ![id] = NoEntry]
          /\ closer' = closer \ {id}
    BY Zenon DEF CloseEntry
  <1>2. UNCHANGED <<lru, closing, request>> /\ request' \in [Requests -> Asking]
    BY Zenon DEF CloseEntry, GInv, GTypes
  <1>3. \A q \in Requests : id \notin request[q].victims
    BY Zenon DEF GInv, OneOwner
  <1>4. \A x : Doomed(x)' <=> Doomed(x) /\ x # id
    BY <1>1, <1>2, <1>3, Zenon DEF Doomed
  <1>5. Doomed(id) /\ id \in Ids
    BY Zenon DEF Doomed, GInv, GTypes
  <1> QED
    BY <1>1, <1>2, <1>4, <1>5, CloseOne, Zenon

\* The open succeeds: the one opener holds the store, and its waiters may.
LEMMA OpenInv ==
    ASSUME GInv, NEW r \in Requests, Open(r)
    PROVE  GInv'
  <1> USE DEF Using
  <1> DEFINE id == request[r].id
  <1>1. /\ At(r, "open") /\ request[r].victims = {}
        /\ entry' = [entry EXCEPT ![id].ready = TRUE]
        /\ live' = live \cup {id} /\ Goto(r, "hold")
        /\ UNCHANGED <<lru, closing, closer>>
    BY Zenon DEF Open
  <1>2. /\ GTypes /\ RequestSound(r) /\ id \in Ids /\ entry[id] \in Entry
        /\ ~entry[id].failed
    BY <1>1, Zenon DEF GInv, GTypes, RequestSound, At
  <1>3. Became(r, "hold", id, {}) /\ request'[r].key = request[r].key
    BY <1>1, <1>2, GotoRow, Zenon DEF Pcs
  <1> HIDE DEF id
  <1> DEFINE e == [entry[id] EXCEPT !.ready = TRUE]
  <1>4. /\ e \in Entry /\ e.key = entry[id].key /\ e.refs = entry[id].refs /\ e.ready
        /\ e.failed = entry[id].failed /\ e.evicted = entry[id].evicted
        /\ e.closed = entry[id].closed
    BY <1>2, Zenon DEF Entry
  <1>5. entry' = [entry EXCEPT ![id] = e]
    BY <1>1, <1>2, Zenon DEF GTypes
  <1> HIDE DEF e
  <1>6. /\ entry' \in [Ids -> Entry] /\ entry'[id] = e
        /\ \A x \in Ids : x # id => entry'[x] = entry[x]
    BY <1>2, <1>4, <1>5, Zenon DEF GTypes
  <1>7. \A x : Holders(x)' = Holders(x)
    BY <1>1, <1>3, Zenon DEF Holders, Became, At, id
  <1>8. \A q \in Requests : request'[q].victims = request[q].victims
    BY <1>1, <1>3, Zenon DEF Became
  <1>9. \A x : (Listed(x)' <=> Listed(x)) /\ (Doomed(x)' <=> Doomed(x))
    BY <1>1, <1>8, Zenon DEF Listed, Doomed
  <1>10. GTypes'
    BY <1>1, <1>2, <1>3, <1>6, Zenon DEF GTypes, Became
  <1>11. ASSUME NEW x \in Ids PROVE EntrySound(x)'
    <2>1. EntrySound(x)
      BY Zenon DEF GInv
    <2>2. CASE x = id
      <3>1. r \in Holders(id)
        BY <1>1, Zenon DEF Holders, At, id
      <3>2. entry[id].refs > 0
        BY <2>1, <2>2, <3>1, CountFacts, Zenon
      <3>3. id \in live'
        BY <1>1, Zenon
      <3> QED
        BY <1>1, <1>4, <1>6, <1>7, <1>9, <2>1, <2>2, <3>2, <3>3, Zenon DEF EntrySound
    <2>3. CASE x # id
      BY <1>1, <1>6, <1>7, <1>9, <2>1, <2>3, Zenon DEF EntrySound
    <2> QED
      BY <2>2, <2>3, Zenon
  <1>12. ASSUME NEW q \in Requests PROVE RequestSound(q)'
    <2>1. RequestSound(q)
      BY Zenon DEF GInv
    <2>2. CASE q = r
      BY <1>1, <1>2, <1>3, <1>4, <1>6, <2>2, SMTT(30) DEF RequestSound, Became, At, id
    <2>3. CASE q # r
      <3>1. request'[q] = request[q]
        BY <1>3, <2>3, Zenon DEF Became
      <3>2. request[q].pc = "open" => request[q].id # id
        BY <1>1, <2>3, Zenon DEF GInv, OneOpener, At, id
      <3> QED
        BY <1>4, <1>6, <2>1, <3>1, <3>2 DEF RequestSound
    <2> QED
      BY <2>2, <2>3, Zenon
  <1>13. OneOwner'
    BY <1>1, <1>8, Zenon DEF GInv, OneOwner
  <1>14. OneOpener'
    BY <1>3, Zenon DEF GInv, OneOpener, At, Became
  <1>15. OneEntryPerKey'
    <2>1. \A x \in Ids : (Used(x)' <=> Used(x)) /\ entry'[x].key = entry[x].key
      BY <1>4, <1>6, <1>9, Zenon DEF Used
    <2> QED
      BY <2>1, Zenon DEF GInv, OneEntryPerKey
  <1> QED
    BY <1>10, <1>11, <1>12, <1>13, <1>14, <1>15, Zenon DEF GInv

\* The open fails: the entry leaves the cache with its waiters, and no request
\* had got to hold it.
LEMMA OpenFailsInv ==
    ASSUME GInv, NEW r \in Requests, OpenFails(r)
    PROVE  GInv'
  <1> USE DEF Using
  <1> DEFINE id == request[r].id
             e == [entry[id] EXCEPT !.ready = TRUE, !.failed = TRUE]
             es == [entry EXCEPT ![id] = e]
  <1>1. /\ At(r, "open") /\ request[r].victims = {}
        /\ entry' = RemoveLocked(es, {id}, {})
        /\ lru' = WithoutGone(lru, {id}) /\ Goto(r, "release")
        /\ UNCHANGED <<live, closing, closer>>
    BY Zenon DEF OpenFails
  <1>2. /\ GTypes /\ RequestSound(r) /\ EntrySound(id) /\ id \in Ids /\ entry[id] \in Entry
        /\ ~entry[id].ready
    BY <1>1, Zenon DEF GInv, GTypes, RequestSound, At
  <1>3. Became(r, "release", id, {}) /\ request'[r].key = request[r].key
    BY <1>1, <1>2, GotoRow, Zenon DEF Pcs
  <1>4. r \in Holders(id)
    BY <1>1, Zenon DEF Holders, At
  <1> HIDE DEF id
  <1>5. /\ e \in Entry /\ e.key = entry[id].key /\ e.refs = entry[id].refs /\ e.ready
        /\ e.failed /\ e.closed = entry[id].closed
    BY <1>2, Zenon DEF Entry
  <1> HIDE DEF e
  <1>6. es \in [Ids -> Entry] /\ es[id] = e /\ \A x \in Ids : x # id => es[x] = entry[x]
    BY <1>2, <1>5, Zenon DEF GTypes
  <1> HIDE DEF es
  <1>7. /\ entry' \in [Ids -> Entry]
        /\ \A x \in Ids : x # id => entry'[x] = entry[x]
        /\ entry'[id].key = entry[id].key /\ entry'[id].refs = entry[id].refs
        /\ entry'[id].failed /\ entry'[id].evicted
        /\ entry'[id].closed <=> entry[id].closed
    BY <1>1, <1>2, <1>5, <1>6, RemoveLockedFacts
  <1>8. lru' \in Seq(Ids) /\ \A x : Listed(x)' <=> Listed(x) /\ x # id
    <2>1. lru \in Seq(Ids)
      BY <1>2, Zenon DEF GTypes
    <2>2. lru' \in Seq(Ids) /\ Range(lru') = Range(lru) \ {id}
      BY <1>1, <2>1, WithoutGoneFacts, Zenon
    <2> QED
      BY <2>2, Zenon DEF Listed
  <1>9. \A x : Holders(x)' = Holders(x)
    BY <1>1, <1>3, Zenon DEF Holders, Became, At, id
  <1>10. \A q \in Requests : request'[q].victims = request[q].victims
    BY <1>1, <1>3, SMTT(30) DEF Became
  <1>11. \A x : Doomed(x)' <=> Doomed(x)
    BY <1>1, <1>10, Zenon DEF Doomed
  <1>12. GTypes'
    BY <1>1, <1>2, <1>3, <1>7, <1>8, Zenon DEF GTypes, Became
  <1>13. ASSUME NEW x \in Ids PROVE EntrySound(x)'
    <2>1. EntrySound(x)
      BY Zenon DEF GInv
    <2>2. CASE x = id
      <3>1. entry[id].refs > 0
        BY <1>2, <1>4, CountFacts, Zenon
      <3> QED
        BY <1>1, <1>7, <1>8, <1>9, <1>11, <2>1, <2>2, <3>1, Zenon DEF EntrySound
    <2>3. CASE x # id
      BY <1>1, <1>7, <1>8, <1>9, <1>11, <2>1, <2>3, Zenon DEF EntrySound
    <2> QED
      BY <2>2, <2>3, Zenon
  <1>14. ASSUME NEW q \in Requests PROVE RequestSound(q)'
    <2>1. RequestSound(q)
      BY Zenon DEF GInv
    <2>2. CASE q = r
      BY <1>1, <1>2, <1>3, <1>7, <2>2, Zenon DEF RequestSound, Became, At, id
    <2>3. CASE q # r
      <3>1. request'[q] = request[q]
        BY <1>3, <2>3, Zenon DEF Became
      <3>2. request[q].pc \in {"open", "hold"} => request[q].id # id
        BY <1>1, <1>2, <2>1, <2>3, Zenon DEF GInv, OneOpener, At, id, RequestSound
      <3> QED
        BY <1>7, <2>1, <3>1, <3>2, Zenon DEF RequestSound
    <2> QED
      BY <2>2, <2>3, Zenon
  <1>15. OneOwner'
    BY <1>1, <1>10, Zenon DEF GInv, OneOwner
  <1>16. OneOpener'
    BY <1>3, Zenon DEF GInv, OneOpener, At, Became
  <1>17. OneEntryPerKey'
    <2>1. \A x \in Ids : (Used(x)' => Used(x)) /\ entry'[x].key = entry[x].key
      BY <1>7, <1>8, Zenon DEF Used
    <2> QED
      BY <2>1, Zenon DEF GInv, OneEntryPerKey
  <1> QED
    BY <1>12, <1>13, <1>14, <1>15, <1>16, <1>17, Zenon DEF GInv

\* A holder leaves: what it and the eviction leave idle and out of the cache is
\* for this request to close, and nobody else's.
LEMMA ReleaseInv ==
    ASSUME GInv, NEW r \in Requests, Release(r)
    PROVE  GInv'
  <1> USE DEF Using
  <1>0. PICK id : id = request[r].id
    BY Zenon
  <1> DEFINE es == [entry EXCEPT ![id].refs = @ - 1]
             gone == Evicted(es, lru)
             last == {i \in {id} \ gone : es[i].evicted /\ es[i].refs = 0 /\ ~es[i].closed}
             out == gone \cup last
  <1>1. /\ At(r, "release")
        /\ entry' = RemoveLocked(es, out, out)
        /\ lru' = WithoutGone(lru, gone)
        /\ request' = [request EXCEPT ![r] =
             [request[r] EXCEPT !.pc = "dispose", !.id = NoKey, !.victims = out]]
        /\ UNCHANGED <<live, closing, closer>>
    BY <1>0, Zenon DEF Release
  <1>2. /\ GTypes /\ RequestSound(r) /\ EntrySound(id) /\ id \in Ids /\ entry[id] \in Entry
        /\ request[r] \in Asking /\ request[r].victims = {}
    BY <1>0, <1>1, Zenon DEF GInv, GTypes, RequestSound, At
  <1>3. r \in Holders(id)
    BY <1>0, <1>1, Zenon DEF Holders, At
  <1>4. entry[id].refs \in Nat /\ entry[id].refs > 0 /\ entry[id].refs - 1 \in Nat
    <2>1. entry[id].refs \in Nat /\ entry[id].refs > 0
      BY <1>2, <1>3, CountFacts, Zenon
    <2> QED
      BY <2>1
  <1>5. /\ es \in [Ids -> Entry]
        /\ \A x \in Ids : x # id => es[x] = entry[x]
        /\ es[id].refs = entry[id].refs - 1 /\ es[id].key = entry[id].key
        /\ es[id].ready = entry[id].ready /\ es[id].failed = entry[id].failed
        /\ es[id].evicted = entry[id].evicted /\ es[id].closed = entry[id].closed
    <2> DEFINE n == entry[id].refs - 1
    <2>1. n \in Nat /\ es = Counted(entry, id, n) /\ entry \in [Ids -> Entry]
      BY <1>2, <1>4, Zenon DEF GTypes, Counted
    <2> HIDE DEF n, es
    <2>2. /\ es \in [Ids -> Entry]
          /\ \A x \in Ids : x # id => es[x] = entry[x]
          /\ es[id].refs = n /\ es[id].key = entry[id].key
          /\ es[id].ready = entry[id].ready /\ es[id].failed = entry[id].failed
          /\ es[id].evicted = entry[id].evicted /\ es[id].closed = entry[id].closed
      BY <1>2, <2>1, CountedFacts, SMTT(30)
    <2> QED
      BY <2>2, Zenon DEF n
  <1>6. ~entry[id].closed
    BY <1>2, <1>4 DEF EntrySound
  <1> HIDE DEF es
  <1>7. \A x \in gone : x \in Ids /\ Listed(x) /\ es[x].refs = 0
    BY <1>2, EvictedFacts, Zenon DEF GTypes, Listed
  <1> HIDE DEF gone
  <1>8. \A x \in last : x = id /\ es[x].refs = 0 /\ es[x].evicted /\ x \notin gone
    BY Zenon
  <1>9. id \notin out /\ es[id].refs = 0 => ~es[id].evicted
    BY <1>5, <1>6, Zenon
  <1> HIDE DEF last
  <1>10. \A x \in out : /\ x \in Ids /\ es[x].refs = 0 /\ ~Doomed(x) /\ (x \in gone \/ ~Listed(x))
    <2>1. ~Doomed(id)
      BY <1>2, <1>6, Zenon DEF EntrySound
    <2>2. \A x \in gone : ~Doomed(x)
      BY <1>7, CachedFacts, Zenon
    <2>3. id \in last => ~Listed(id)
      BY <1>2, <1>5, <1>8, CachedFacts, Zenon
    <2> QED
      BY <1>2, <1>7, <1>8, <2>1, <2>2, <2>3, Zenon
  <1>11. \A x : Listed(x)' <=> Listed(x) /\ x \notin out
    <2>1. \A x : Listed(x)' <=> Listed(x) /\ x \notin gone
      BY <1>1, <1>2, WithoutGoneFacts DEF GTypes, Listed
    <2> QED
      BY <1>10, <2>1, Zenon
  <1>12. lru' \in Seq(Ids)
    BY <1>1, <1>2, WithoutGoneFacts, Zenon DEF GTypes
  <1> HIDE DEF out
  <1>13. /\ entry' \in [Ids -> Entry]
         /\ \A x \in Ids : /\ entry'[x].key = es[x].key /\ entry'[x].refs = es[x].refs
                           /\ entry'[x].ready = es[x].ready /\ entry'[x].failed = es[x].failed
                           /\ x \notin out => entry'[x] = es[x]
                           /\ x \in out => entry'[x].evicted /\ entry'[x].closed
    BY <1>1, <1>5, RemoveLockedFacts
  <1>14. Became(r, "dispose", NoKey, out)
    <2> DEFINE row == [request[r] EXCEPT !.pc = "dispose", !.id = NoKey, !.victims = out]
    <2>1. row \in Asking /\ row.pc = "dispose" /\ row.id = NoKey /\ row.victims = out
      <3>1. "dispose" \in Using \cup {"idle", "cached", "stat", "acquire", "dispose"}
            /\ NoKey \in Ids \cup {NoKey} /\ out \in SUBSET Ids
        BY <1>10, Zenon
      <3> QED
        BY <1>2, <3>1, Zenon DEF Asking
    <2>2. request' = [request EXCEPT ![r] = row]
      BY <1>1, Zenon
    <2> HIDE DEF row
    <2> QED
      BY <1>2, <2>1, <2>2, Zenon DEF Became, GTypes
  <1>15. /\ Holders(id)' = Holders(id) \ {r}
         /\ \A x \in Ids : x # id => Holders(x)' = Holders(x)
    BY <1>0, <1>14, Zenon DEF Holders, Became
  <1>16. \A x : Doomed(x)' <=> Doomed(x) \/ x \in out
    BY <1>1, <1>2, <1>14, Zenon DEF Doomed, Became
  <1>17. GTypes'
    BY <1>1, <1>2, <1>12, <1>13, <1>14, Zenon DEF GTypes, Became
  <1>18. ASSUME NEW x \in Ids PROVE EntrySound(x)'
    <2>1. EntrySound(x)
      BY Zenon DEF GInv
    <2>2. IsFiniteSet(Holders(x)') /\ entry'[x].refs = Cardinality(Holders(x)')
      <3>1. CASE x = id
        <4>1. IsFiniteSet(Holders(id)) /\ entry[id].refs = Cardinality(Holders(id))
          BY <2>1, <3>1, Zenon DEF EntrySound
        <4>2. /\ IsFiniteSet(Holders(id) \ {r})
              /\ Cardinality(Holders(id) \ {r}) = Cardinality(Holders(id)) - 1
          BY <1>3, <4>1, HolderLeaves, Zenon
        <4>3. entry'[id].refs = entry[id].refs - 1
          BY <1>2, <1>5, <1>13, Zenon
        <4> QED
          BY <1>15, <3>1, <4>1, <4>2, <4>3, Zenon
      <3>2. CASE x # id
        BY <1>5, <1>13, <1>15, <2>1, <3>2, Zenon DEF EntrySound
      <3> QED
        BY <3>1, <3>2, Zenon
    <2>3. CASE x \in out
      <3>1. entry'[x].refs = 0 /\ entry'[x].closed /\ Doomed(x)' /\ ~Listed(x)'
        BY <1>10, <1>11, <1>13, <1>16, <2>3, Zenon
      <3> QED
        BY <2>2, <3>1 DEF EntrySound
    <2>4. CASE x \notin out /\ x # id
      BY <1>1, <1>5, <1>11, <1>13, <1>16, <2>1, <2>2, <2>4 DEF EntrySound
    <2>5. CASE id \notin out /\ x = id
      <3>1. /\ entry'[id].evicted = entry[id].evicted /\ entry'[id].closed = entry[id].closed
            /\ entry'[id].ready = entry[id].ready /\ entry'[id].failed = entry[id].failed
            /\ entry'[id].refs = entry[id].refs - 1
        BY <1>2, <1>5, <1>13, <2>5, Zenon
      <3>2. (Listed(id)' <=> Listed(id)) /\ (Doomed(id)' <=> Doomed(id))
        BY <1>11, <1>16, <2>5, Zenon
      <3>3. entry[id].refs - 1 = 0 => ~entry[id].evicted
        BY <1>5, <1>9, <2>5, SMTT(30)
      <3>4. ~Listed(id) => entry[id].evicted
        BY <1>2, <1>4, Zenon DEF EntrySound
      <3> QED
        BY <1>1, <1>4, <1>6, <2>1, <2>2, <2>5, <3>1, <3>2, <3>3, <3>4 DEF EntrySound
    <2> QED
      BY <2>3, <2>4, <2>5, Zenon
  <1>19. ASSUME NEW q \in Requests PROVE RequestSound(q)'
    <2>1. RequestSound(q)
      BY Zenon DEF GInv
    <2>2. CASE q = r
      BY <1>14, <2>2, Zenon DEF RequestSound, Became
    <2>3. CASE q # r
      <3>1. request'[q] = request[q]
        BY <1>14, <2>3, Zenon DEF Became
      <3>2. \A x \in Ids : /\ entry'[x].key = entry[x].key /\ entry'[x].ready = entry[x].ready
                           /\ entry'[x].failed = entry[x].failed
        BY <1>2, <1>5, <1>13
      <3> QED
        BY <2>1, <3>1, <3>2, Zenon DEF RequestSound
    <2> QED
      BY <2>2, <2>3, Zenon
  <1>20. OneOwner'
    <2>1. \A q \in Requests : q # r => out \cap request[q].victims = {}
      BY <1>10, Zenon DEF Doomed
    <2>2. out \cap closer = {}
      BY <1>10, Zenon DEF Doomed
    <2> QED
      BY <1>1, <1>14, <2>1, <2>2, Zenon DEF GInv, OneOwner, Became
  <1>21. OneOpener'
    BY <1>14, Zenon DEF GInv, OneOpener, At, Became
  <1>22. OneEntryPerKey'
    <2>1. \A x \in Ids : (Used(x)' => Used(x)) /\ entry'[x].key = entry[x].key
      BY <1>2, <1>4, <1>5, <1>11, <1>13 DEF Used
    <2> QED
      BY <2>1, Zenon DEF GInv, OneEntryPerKey
  <1> QED
    BY <1>17, <1>18, <1>19, <1>20, <1>21, <1>22, Zenon DEF GInv

\* close takes the whole cache: what is idle it will close itself, the rest is
\* left to the holders.
LEMMA CloseAllInv ==
    ASSUME GInv, CloseAll
    PROVE  GInv'
  <1> USE DEF Using
  <1> DEFINE all == Range(lru)
             idle == {id \in all : entry[id].refs = 0 /\ ~entry[id].closed}
  <1>1. /\ ~closing /\ closing' = TRUE
        /\ entry' = RemoveLocked(entry, all, idle)
        /\ lru' = <<>> /\ closer' = idle
        /\ UNCHANGED <<live, request>>
    BY Zenon DEF CloseAll
  <1>2. GTypes /\ closer = {} /\ \A x : x \in all <=> Listed(x)
    BY <1>1, Zenon DEF GInv, OneOwner, Listed
  <1>3. \A x \in all : x \in Ids
    BY <1>2 DEF GTypes, Range
  <1>4. \A x \in Ids : x \in idle <=> Listed(x) /\ entry[x].refs = 0
    BY <1>2, CachedFacts, Zenon
  <1>5. /\ entry' \in [Ids -> Entry]
        /\ \A x \in Ids : /\ entry'[x].key = entry[x].key /\ entry'[x].refs = entry[x].refs
                          /\ entry'[x].ready = entry[x].ready
                          /\ entry'[x].failed = entry[x].failed
                          /\ x \notin all => entry'[x] = entry[x]
                          /\ x \in all => entry'[x].evicted
                          /\ entry'[x].closed <=> entry[x].closed \/ x \in all \cap idle
    BY <1>1, <1>2, RemoveLockedFacts, SMTT(30) DEF GTypes
  <1>6. \A x : ~Listed(x)'
    BY <1>1 DEF Listed, Range
  <1>7. \A x : Holders(x)' = Holders(x)
    BY <1>1, Zenon DEF Holders
  <1>8. idle \subseteq all
    BY Zenon
  <1> HIDE DEF all, idle
  <1>9. \A x : Doomed(x)' <=> Doomed(x) \/ x \in idle
    BY <1>1, <1>2, Zenon DEF Doomed
  <1>10. GTypes'
    <2>1. lru' \in Seq(Ids)
      BY <1>1
    <2> QED
      BY <1>1, <1>2, <1>3, <1>5, <1>8, <2>1, Zenon DEF GTypes
  <1>11. ASSUME NEW x \in Ids PROVE EntrySound(x)'
    <2>1. EntrySound(x)
      BY Zenon DEF GInv
    <2>2. CASE x \notin all
      BY <1>1, <1>2, <1>5, <1>6, <1>7, <1>8, <1>9, <2>1, <2>2, Zenon DEF EntrySound
    <2>3. CASE x \in all
      <3>1. Listed(x) /\ ~entry[x].closed /\ ~Doomed(x) /\ entry[x].refs \in Nat
        BY <1>2, <2>1, <2>3, CachedFacts, CountFacts, Zenon
      <3>2. CASE entry[x].refs = 0
        <4>1. x \in idle /\ entry'[x].closed /\ Doomed(x)' /\ entry'[x].refs = 0
          BY <1>4, <1>5, <1>8, <1>9, <2>3, <3>1, <3>2, Zenon
        <4> QED
          BY <1>5, <1>6, <1>7, <2>1, <4>1, ClosedIsSound, Zenon DEF EntrySound
      <3>3. CASE entry[x].refs > 0
        <4>1. x \notin idle /\ ~entry'[x].closed /\ ~Doomed(x)' /\ entry'[x].refs > 0
          BY <1>4, <1>5, <1>9, <3>1, <3>3, SMTT(30)
        <4> QED
          BY <1>1, <1>5, <1>6, <1>7, <2>1, <2>3, <4>1, Zenon DEF EntrySound
      <3> QED
        BY <3>1, <3>2, <3>3
    <2> QED
      BY <2>2, <2>3, Zenon
  <1>12. ASSUME NEW q \in Requests PROVE RequestSound(q)'
    BY <1>1, <1>5 DEF GInv, RequestSound
  <1>13. OneOwner'
    <2>1. \A q \in Requests : request[q].victims \cap idle = {}
      <3>1. \A x \in idle : ~Doomed(x)
        BY <1>2, <1>3, <1>8, CachedFacts, Zenon
      <3> QED
        BY <3>1, Zenon DEF Doomed
    <2> QED
      BY <1>1, <2>1, Zenon DEF GInv, OneOwner
  <1>14. OneOpener'
    BY <1>1, Zenon DEF GInv, OneOpener, At
  <1>15. OneEntryPerKey'
    <2>1. \A x \in Ids : (Used(x)' => Used(x)) /\ entry'[x].key = entry[x].key
      BY <1>5, <1>6, Zenon DEF Used
    <2> QED
      BY <2>1, Zenon DEF GInv, OneEntryPerKey
  <1> QED
    BY <1>10, <1>11, <1>12, <1>13, <1>14, <1>15, SMTT(30) DEF GInv

LEMMA RegistryStepInv == GInv /\ [RegistryNext]_registryVars => GInv'
  <1> SUFFICES ASSUME GInv, [RegistryNext]_registryVars PROVE GInv'
    BY Zenon
  <1>1. CASE UNCHANGED registryVars
    BY <1>1, Zenon DEF registryVars, GInv, GTypes, EntrySound, RequestSound, OneOwner, OneOpener,
                OneEntryPerKey, Used, Listed, Doomed, Holders, At
  <1>2. CASE CloseAll \/ CloseEntry
    BY <1>2, CloseAllInv, CloseEntryInv, Zenon
  <1>3. ASSUME NEW r \in Requests, Proceed(r) \/ Leave(r) \/ \E k \in Keys : BeginAcquire(r, k)
        PROVE  GInv'
    <2>1. CASE \E k \in Keys : BeginAcquire(r, k)
      BY <2>1, BeginAcquireInv, Zenon
    <2>2. CASE IsCached(r) \/ Stat(r) \/ Refused(r) \/ Ready(r) \/ Leave(r) \/ Finish(r) \/ Released(r)
      BY <2>2, MovesInv, Zenon
    <2>3. CASE Join(r) \/ Create(r) \/ CloseVictim(r) \/ Open(r) \/ OpenFails(r) \/ Release(r)
      BY <2>3, JoinInv, CreateInv, CloseVictimInv, OpenInv, OpenFailsInv, ReleaseInv, Zenon
    <2> QED
      BY <1>3, <2>1, <2>2, <2>3, Zenon DEF Proceed, Opening
  <1> QED
    BY <1>1, <1>2, <1>3, Zenon DEF RegistryNext

\* At most one of a set whose members are all the same.
LEMMA AtMostOne ==
    ASSUME NEW S, \A x, y \in S : x = y
    PROVE  Cardinality(S) \in Nat /\ Cardinality(S) <= 1
  <1>1. CASE S = {}
    BY <1>1, FS_EmptySet
  <1>2. CASE S # {}
    <2>1. PICK x : S = {x}
      BY <1>2
    <2>2. Cardinality({x}) = 1
      BY FS_Singleton, Zenon
    <2> QED
      BY <2>1, <2>2
  <1> QED
    BY <1>1, <1>2, Zenon

\* For any number of users, requests and entries and any limit, also zero: an
\* open store is never closed under a request that holds it, requests for one
\* user hold one entry, and every open store has exactly one place it will be
\* closed from (acquire, release, evictLocked, close).
THEOREM OpenStoresAreOwned == RegistrySpec => []StoresAreOwned
  <1>1. GInv => StoresAreOwned
    <2> SUFFICES ASSUME GInv PROVE StoresAreOwned
      BY Zenon
    <2> USE DEF Using
    <2>1. ASSUME NEW r \in Requests, At(r, "hold")
          PROVE  /\ request[r].id \in Ids /\ entry[request[r].id].key = request[r].key
                 /\ request[r].id \in live /\ ~Doomed(request[r].id) /\ Used(request[r].id)
      <3>1. /\ RequestSound(r) /\ request[r].pc \in Using /\ request[r].pc = "hold"
        BY <2>1, Zenon DEF GInv, At
      <3>2. /\ request[r].id \in Ids /\ entry[request[r].id].key = request[r].key
            /\ entry[request[r].id].ready /\ ~entry[request[r].id].failed
        BY <3>1, Zenon DEF RequestSound
      <3>3. EntrySound(request[r].id) /\ r \in Holders(request[r].id)
        BY <3>1, <3>2, Zenon DEF GInv, Holders
      <3>4. entry[request[r].id].refs \in Nat /\ entry[request[r].id].refs > 0
        BY <3>2, <3>3, CountFacts, Zenon
      <3> QED
        <4>1. entry[request[r].id].refs # 0
          BY <3>4
        <4> QED
          BY <3>2, <3>3, <3>4, <4>1, Zenon DEF EntrySound, Used
    <2>2. ASSUME NEW r \in Requests, At(r, "hold")
          PROVE  /\ request[r].id \in live
                 /\ request[r].id \notin closer \cup UNION {request[q].victims : q \in Requests}
                 /\ \A q \in Requests : At(q, "hold") /\ request[q].key = request[r].key
                                          => request[q].id = request[r].id
      <3>1. request[r].id \in live /\ ~Doomed(request[r].id)
        BY <2>1, <2>2, Zenon
      <3>2. request[r].id \notin closer \cup UNION {request[q].victims : q \in Requests}
        BY <3>1, Zenon DEF Doomed
      <3>3. \A q \in Requests : At(q, "hold") /\ request[q].key = request[r].key
                                  => request[q].id = request[r].id
        BY <2>1, <2>2, Zenon DEF GInv, OneEntryPerKey
      <3> QED
        BY <3>1, <3>2, <3>3, Zenon
    <2>3. ASSUME NEW id \in Ids
          PROVE  LET closers == {r \in Requests : id \in request[r].victims}
                 IN /\ Cardinality(closers) + Cardinality(closer \cap {id}) <= 1
                    /\ id \in live =>
                         \/ id \in Range(lru) \cup closer
                         \/ closers # {}
                         \/ \E r \in Requests : request[r].id = id
      <3> DEFINE closers == {r \in Requests : id \in request[r].victims}
      <3>1. \A r, q \in closers : r = q
        BY Zenon DEF GInv, OneOwner
      <3>2. closers = {} \/ closer \cap {id} = {}
        BY Zenon DEF GInv, OneOwner
      <3>3. Cardinality({}) = 0
        BY FS_EmptySet, Zenon
      <3>4. id \in live =>
              \/ id \in Range(lru) \cup closer
              \/ closers # {}
              \/ \E r \in Requests : request[r].id = id
        <4>1. EntrySound(id)
          BY Zenon DEF GInv
        <4>2. entry[id].refs > 0 => \E r \in Requests : request[r].id = id
          BY <4>1, CountFacts, Zenon DEF Holders
        <4> QED
          BY <4>1, <4>2, Zenon DEF EntrySound, Listed, Doomed
      <3> DEFINE own == closer \cap {id}
      <3>9. \A x, y \in own : x = y
        BY Zenon
      <3> HIDE DEF closers, own
      <3>5. Cardinality(closers) \in Nat /\ Cardinality(closers) <= 1
        BY <3>1, AtMostOne, Zenon
      <3>6. Cardinality(own) \in Nat /\ Cardinality(own) <= 1
        BY <3>9, AtMostOne, Zenon
      <3>7. closers = {} \/ own = {}
        BY <3>2, Zenon DEF own
      <3>8. Cardinality(closers) + Cardinality(own) <= 1
        BY <3>3, <3>5, <3>6, <3>7
      <3> QED
        BY <3>4, <3>8, Zenon DEF closers, own
    <2> QED
      BY <2>2, <2>3, Zenon DEF StoresAreOwned
  <1> QED
    BY <1>1, RegistryInitInv, RegistryStepInv, PTL DEF RegistrySpec

-----------------------------------------------------------------------------
(***************************************************************************)
(* An interrupted setup converges and a card that was handed out holds,    *)
(* for any number of commands and addresses.                               *)
(***************************************************************************)

\* The steps a command takes under the provision lock.
Making == {"identity", "key", "publish", "cas", "open", "schema", "principal"}
Configuring == {"config", "address", "settle"}

CommandRow ==
    [at : {"rest", "prepared"} \cup Making \cup Configuring,
     does : {"none", "setup", "prepare"}, addr : Nat, had : BOOLEAN]

PTypes ==
    /\ keyPending \in Nat \cup {Torn} /\ keyFinal \in Nat /\ keys \in Nat
    /\ confPending \in Nat \cup {Torn} /\ confFinal \in Nat
    /\ ensureLock \in BOOLEAN /\ cas \in BOOLEAN /\ route \in BOOLEAN
    /\ db \in {"absent", "files", "ready"} /\ principal \in Nat
    /\ cmd \in [Owners -> CommandRow]

\* What is on the disk, whoever left it there: the authority comes last, its
\* Principal is the identity, and what a card or a route names is final.
Node ==
    /\ authorityStatePresent => keyFinal # 0 /\ ensureLock /\ cas
    /\ principal \in {0, keyFinal}
    /\ writer = "daemon" => Provisioned /\ principal = keyFinal
    /\ cards \subseteq {<<keyFinal, confFinal>>}
    /\ cards # {} \/ route => keyFinal # 0 /\ confFinal # 0

\* What a command has made sure of when it is at a step.
Stage(o) ==
    /\ cmd[o].at \in Making \cup Configuring => provLock = o
    /\ cmd[o].at \in Making => ensureLock
    /\ cmd[o].at \in {"key", "publish"} => keyFinal = 0
    /\ cmd[o].at = "key" => keys # 0
    /\ cmd[o].at = "publish" => keyPending > 0
    /\ cmd[o].at \in {"cas", "open", "schema", "principal"} \cup Configuring => keyFinal # 0
    /\ cmd[o].at \in {"open", "schema", "principal"} => cas
    /\ cmd[o].does = "prepare" \/ cmd[o].at \in {"prepared"} \cup Configuring => cmd[o].addr # 0
    /\ cmd[o].at \in {"address", "settle"} => confFinal = 0
    /\ cmd[o].at = "settle" => confPending > 0

PInv == PTypes /\ Node /\ \A o \in Owners : Stage(o)

LEMMA RestRow == AtRest \in CommandRow /\ AtRest.at = "rest" /\ AtRest.does = "none"
  BY Zenon DEF AtRest, CommandRow

LEMMA PInitInv == PInit => PInv
  <1> USE RestRow, ProvisioningAssumption DEF Making, Configuring, Torn, Free
  <1> SUFFICES ASSUME PInit PROVE PInv
    BY Zenon
  <1>1. PTypes
    BY Zenon DEF PInit, PTypes
  <1>2. Node
    BY Zenon DEF PInit, Node, authorityStatePresent
  <1>3. \A o \in Owners : Stage(o)
    BY Zenon DEF PInit, Stage
  <1> QED
    BY <1>1, <1>2, <1>3, Zenon DEF PInv

\* Whoever has the lock, or finds it free, is alone.
LEMMA Alone ==
    ASSUME PInv, NEW o \in Owners, provLock \in {o, Free}, NEW p \in Owners \ {o}
    PROVE  cmd[p].at \notin Making \cup Configuring
  BY ProvisioningAssumption, Zenon DEF PInv, Stage, Free

\* A step of one command under the lock: the others only keep their address.
LEMMA LockedStep ==
    ASSUME PInv, NEW o \in Owners, provLock \in {o, Free}, NEW row \in CommandRow,
           cmd' = [cmd EXCEPT ![o] = row], PTypes', Node', Stage(o)'
    PROVE  PInv'
  <1>1. ASSUME NEW p \in Owners \ {o} PROVE Stage(p)'
    <2>1. cmd'[p] = cmd[p] /\ Stage(p)
      BY Zenon DEF PInv, PTypes
    <2>2. cmd[p].at \notin Making \cup Configuring
      BY Alone, Zenon
    <2> QED
      BY <2>1, <2>2, Zenon DEF Stage, Making, Configuring
  <1> QED
    BY <1>1, Zenon DEF PInv

\* A command that goes to another step keeps its request.
LEMMA StepRow ==
    ASSUME PInv, NEW o \in Owners, NEW at \in {"rest", "prepared"} \cup Making \cup Configuring, ToStep(o, at)
    PROVE  LET row == [cmd[o] EXCEPT !.at = at] IN
           /\ row \in CommandRow /\ cmd' = [cmd EXCEPT ![o] = row] /\ cmd' \in [Owners -> CommandRow]
           /\ cmd'[o].at = at /\ cmd'[o].does = cmd[o].does /\ cmd'[o].addr = cmd[o].addr
  BY Zenon DEF PInv, PTypes, CommandRow, ToStep

LEMMA ProvisionInv ==
    ASSUME PInv, NEW o \in Owners, NEW what \in {"setup", "prepare"}, NEW a \in Nat,
           what = "prepare" => a # 0, Provision(o, what, a)
    PROVE  PInv'
  <1> USE ProvisioningAssumption DEF Making, Configuring, Torn, Free
  <1> DEFINE row == [at |-> "identity", does |-> what, addr |-> a, had |-> authorityStatePresent]
  <1>1. row \in CommandRow /\ cmd' = [cmd EXCEPT ![o] = row] /\ provLock \in {o, Free}
    BY Zenon DEF Provision, CommandRow, authorityStatePresent
  <1>2. /\ provLock' = o /\ ensureLock' = TRUE
        /\ UNCHANGED <<keyPending, keyFinal, keys, confPending, confFinal, cas, db, principal, route, writer, cards>>
    BY Zenon DEF Provision, identity, config, authority
  <1>3. PTypes'
    BY <1>1, <1>2, Zenon DEF PInv, PTypes
  <1>4. Node'
    BY <1>2, Zenon DEF PInv, Node, authorityStatePresent, Provisioned, Linked
  <1>5. cmd'[o].at = "identity" /\ cmd'[o].does = what /\ cmd'[o].addr = a
    BY <1>1, Zenon DEF PInv, PTypes
  <1>6. Stage(o)'
    BY <1>2, <1>5, Zenon DEF Stage
  <1> QED
    BY <1>1, <1>3, <1>4, <1>6, LockedStep, Zenon

\* A step under the lock that leaves the configuration, the authority and the
\* cards alone.
LEMMA IdentityInv ==
    ASSUME PInv, NEW o \in Owners,
           Identity(o) \/ WritesKey(o) \/ publishTransportIdentity(o) \/ openProvisionCAS(o)
    PROVE  PInv'
  <1> USE ProvisioningAssumption DEF Making, Configuring, Torn, Free
  <1>0. PTypes /\ Node /\ Stage(o)
    BY Zenon DEF PInv
  <1>1. /\ provLock = o /\ provLock' = o
        /\ UNCHANGED <<confPending, confFinal, ensureLock, db, principal, route, writer, cards>>
    BY Zenon DEF Identity, WritesKey, publishTransportIdentity, openProvisionCAS, Holds, config, layout, authority
  <1>2. CASE Identity(o) /\ keyPending' = 0 /\ UNCHANGED <<keyFinal, keys, cmd, cas>>
    <2>1. cmd[o] \in CommandRow /\ cmd' = [cmd EXCEPT ![o] = cmd[o]] /\ cmd[o].at = "identity"
      BY <1>0, <1>2, Zenon DEF PTypes, Identity, Holds
    <2>2. PTypes'
      BY <1>0, <1>1, <1>2, Zenon DEF PTypes
    <2>3. Node'
      BY <1>0, <1>1, <1>2, Zenon DEF Node, authorityStatePresent, Provisioned, Linked
    <2>4. Stage(o)'
      BY <1>0, <1>1, <1>2, <2>1, Zenon DEF Stage
    <2> QED
      BY <1>1, <2>1, <2>2, <2>3, <2>4, LockedStep, Zenon
  <1>3. CASE Identity(o) /\ ~(keyPending' = 0 /\ UNCHANGED <<keyFinal, keys, cmd, cas>>)
    <2>1. /\ cmd[o].at = "identity" /\ UNCHANGED <<keyFinal, cas>>
          /\ \/ /\ keyFinal # 0
                /\ ToStep(o, "cas") /\ UNCHANGED <<keyPending, keys>>
             \/ /\ keyFinal = 0 /\ keyPending > 0
                /\ ToStep(o, "publish") /\ UNCHANGED <<keyPending, keys>>
             \/ /\ keyFinal = 0 /\ keyPending' = Torn /\ keys' = keys + 1
                /\ ToStep(o, "key")
      BY <1>3, Zenon DEF Identity, Holds, identity, layout
    <2>2. PICK at \in {"cas", "publish", "key"} : ToStep(o, at)
      BY <2>1, Zenon
    <2> DEFINE row == [cmd[o] EXCEPT !.at = at]
    <2>3. /\ row \in CommandRow /\ cmd' = [cmd EXCEPT ![o] = row] /\ cmd' \in [Owners -> CommandRow]
          /\ cmd'[o].at = at /\ cmd'[o].does = cmd[o].does /\ cmd'[o].addr = cmd[o].addr
      BY <2>2, StepRow, Zenon
    <2>4. \A b \in {"cas", "publish", "key"} : ToStep(o, b) => cmd'[o].at = b
      BY StepRow, Zenon
    <2>5. PTypes'
      BY <1>0, <1>1, <2>1, <2>3 DEF PTypes
    <2>6. Node'
      BY <1>0, <1>1, <2>1, Zenon DEF PTypes, Node, authorityStatePresent, Provisioned, Linked
    <2>7. keyPending \in Nat \cup {Torn} /\ keys \in Nat
      BY <1>0, Zenon DEF PTypes
    <2>8. Stage(o)'
      BY <1>0, <1>1, <2>1, <2>3, <2>4, <2>7 DEF Stage
    <2> QED
      BY <1>1, <2>3, <2>5, <2>6, <2>8, LockedStep, Zenon
  <1>4. CASE WritesKey(o)
    <2> DEFINE row == [cmd[o] EXCEPT !.at = "publish"]
    <2>1. /\ cmd[o].at = "key" /\ keyPending' = keys /\ UNCHANGED <<keyFinal, keys, cas>>
          /\ ToStep(o, "publish")
      BY <1>4, Zenon DEF WritesKey, Holds, layout
    <2>2. /\ row \in CommandRow /\ cmd' = [cmd EXCEPT ![o] = row] /\ cmd' \in [Owners -> CommandRow]
          /\ cmd'[o].at = "publish" /\ cmd'[o].does = cmd[o].does /\ cmd'[o].addr = cmd[o].addr
      BY <2>1, StepRow, Zenon
    <2>3. PTypes'
      BY <1>0, <1>1, <2>1, <2>2, Zenon DEF PTypes
    <2>4. keyFinal = 0 /\ keys # 0 /\ keys \in Nat
      BY <1>0, <2>1, Zenon DEF Stage, PTypes
    <2>5. Node'
      BY <1>0, <1>1, <2>1, <2>4, Zenon DEF PTypes, Node, authorityStatePresent, Provisioned, Linked
    <2>6. Stage(o)'
      BY <1>0, <1>1, <2>1, <2>2, <2>4 DEF Stage
    <2> QED
      BY <1>1, <2>2, <2>3, <2>5, <2>6, LockedStep, Zenon
  <1>5. CASE publishTransportIdentity(o)
    <2> DEFINE row == [cmd[o] EXCEPT !.at = "identity"]
    <2>1. /\ cmd[o].at = "publish" /\ keyFinal' = keyPending /\ UNCHANGED <<keyPending, keys, cas>>
          /\ ToStep(o, "identity")
      BY <1>5, Zenon DEF publishTransportIdentity, Holds, layout
    <2>2. /\ row \in CommandRow /\ cmd' = [cmd EXCEPT ![o] = row] /\ cmd' \in [Owners -> CommandRow]
          /\ cmd'[o].at = "identity" /\ cmd'[o].does = cmd[o].does /\ cmd'[o].addr = cmd[o].addr
      BY <2>1, StepRow, Zenon
    <2>4. keyFinal = 0 /\ keyPending > 0 /\ keyPending \in Nat
      BY <1>0, <2>1 DEF Stage, PTypes
    <2>3. PTypes'
      BY <1>0, <1>1, <2>1, <2>2, <2>4, Zenon DEF PTypes
    <2>5. Node'
      BY <1>0, <1>1, <2>1, <2>4, Zenon DEF PTypes, Node, authorityStatePresent, Provisioned, Linked
    <2>6. Stage(o)'
      BY <1>0, <1>1, <2>1, <2>2, <2>4, Zenon DEF Stage
    <2> QED
      BY <1>1, <2>2, <2>3, <2>5, <2>6, LockedStep, Zenon
  <1>6. CASE openProvisionCAS(o)
    <2> DEFINE row == [cmd[o] EXCEPT !.at = "open"]
    <2>1. /\ cmd[o].at = "cas" /\ cas' = TRUE /\ UNCHANGED <<keyFinal, keyPending, keys>>
          /\ ToStep(o, "open")
      BY <1>6, Zenon DEF openProvisionCAS, Holds, identity
    <2>2. /\ row \in CommandRow /\ cmd' = [cmd EXCEPT ![o] = row] /\ cmd' \in [Owners -> CommandRow]
          /\ cmd'[o].at = "open" /\ cmd'[o].does = cmd[o].does /\ cmd'[o].addr = cmd[o].addr
      BY <2>1, StepRow, Zenon
    <2>3. PTypes'
      BY <1>0, <1>1, <2>1, <2>2, Zenon DEF PTypes
    <2>5. Node'
      BY <1>0, <1>1, <2>1, Zenon DEF PTypes, Node, authorityStatePresent, Provisioned, Linked
    <2>6. Stage(o)'
      BY <1>0, <1>1, <2>1, <2>2, Zenon DEF Stage
    <2> QED
      BY <1>1, <2>2, <2>3, <2>5, <2>6, LockedStep, Zenon
  <1> QED
    BY <1>2, <1>3, <1>4, <1>5, <1>6, Zenon

\* The authority is opened, given its schema and its Principal.
LEMMA AuthorityInv ==
    ASSUME PInv, NEW o \in Owners,
           openAuthority(o) \/ CreatesSchema(o) \/ ProvisionInitialPrincipal(o)
    PROVE  PInv'
  <1> USE ProvisioningAssumption DEF Making, Configuring, Torn, Free
  <1>0. PTypes /\ Node /\ Stage(o)
    BY Zenon DEF PInv
  <1>1. /\ provLock = o
        /\ writer' # "daemon" \/ writer' = writer
        /\ UNCHANGED <<keyPending, keyFinal, keys, confPending, confFinal, ensureLock, cas, route, cards>>
    BY Zenon DEF openAuthority, CreatesSchema, ProvisionInitialPrincipal, Holds, identity, config, layout
  <1>2. CASE openAuthority(o) \/ CreatesSchema(o)
    <2>1. PICK at \in {"schema", "principal"} : ToStep(o, at)
      BY <1>2, Zenon DEF openAuthority, CreatesSchema
    <2> DEFINE row == [cmd[o] EXCEPT !.at = at]
    <2>2. /\ row \in CommandRow /\ cmd' = [cmd EXCEPT ![o] = row] /\ cmd' \in [Owners -> CommandRow]
          /\ cmd'[o].at = at /\ cmd'[o].does = cmd[o].does /\ cmd'[o].addr = cmd[o].addr
      BY <2>1, StepRow, Zenon
    <2>3. /\ cmd[o].at \in {"open", "schema"} /\ provLock = o /\ provLock' = o
          /\ db' \in {"files", "ready"} /\ principal' = principal
          /\ writer' # "daemon" \/ writer' = writer
      BY <1>0, <1>2, Zenon DEF openAuthority, CreatesSchema, Holds, PTypes
    <2>4. PTypes'
      BY <1>0, <1>1, <2>2, <2>3, Zenon DEF PTypes
    <2>5. keyFinal # 0 /\ ensureLock /\ cas
      BY <1>0, <2>3, Zenon DEF Stage
    <2>6. Node'
      BY <1>0, <1>1, <2>3, <2>5, Zenon DEF Node, authorityStatePresent, Provisioned, Linked
    <2>7. Stage(o)'
      BY <1>0, <1>1, <2>2, <2>3, <2>5, Zenon DEF Stage
    <2> QED
      BY <2>2, <2>3, <2>4, <2>6, <2>7, LockedStep, Zenon
  <1>3. CASE ProvisionInitialPrincipal(o)
    <2> DEFINE row == IF cmd[o].does = "prepare" THEN [cmd[o] EXCEPT !.at = "prepared"] ELSE AtRest
    <2>1. /\ cmd[o].at = "principal" /\ provLock' = Free /\ writer' = Free
          /\ principal' = keyFinal /\ db' = db /\ provLock = o
      BY <1>3, Zenon DEF ProvisionInitialPrincipal, Holds
    <2>2. cmd' = [cmd EXCEPT ![o] = row] /\ cmd[o] \in CommandRow
      BY <1>0, <1>3, Zenon DEF ProvisionInitialPrincipal, PTypes
    <2>3. /\ row \in CommandRow /\ row.at \in {"rest", "prepared"}
          /\ row.at = "prepared" \/ row.does = "prepare" => cmd[o].does = "prepare" /\ row.addr = cmd[o].addr
      BY <2>2, RestRow, Zenon DEF CommandRow
    <2> HIDE DEF row
    <2>4. cmd'[o] = row
      BY <1>0, <2>2, Zenon DEF PTypes
    <2>5. PTypes'
      BY <1>0, <1>1, <2>1, <2>2, <2>3, Zenon DEF PTypes
    <2>6. Node'
      BY <1>0, <1>1, <2>1, Zenon DEF Node, authorityStatePresent, Provisioned, Linked
    <2>7. cmd[o].does = "prepare" => cmd[o].addr # 0
      BY <1>0, Zenon DEF Stage
    <2>8. Stage(o)'
      BY <2>3, <2>4, <2>7, Zenon DEF Stage
    <2> QED
      BY <2>1, <2>2, <2>3, <2>5, <2>6, <2>8, LockedStep, Zenon
  <1> QED
    BY <1>2, <1>3, Zenon

\* The exchange configuration is recovered, compared, written and published.
LEMMA ConfigureInv ==
    ASSUME PInv, NEW o \in Owners,
           \/ ConfigureExchange(o) \/ recoverExchangeConfigLocked(o)
           \/ WritesAddress(o) \/ publishPendingExchangeConfig(o)
    PROVE  PInv'
  <1> USE ProvisioningAssumption DEF Making, Configuring, Torn, Free
  <1>0. PTypes /\ Node /\ Stage(o)
    BY Zenon DEF PInv
  <1>1. UNCHANGED <<keyPending, keyFinal, keys, ensureLock, cas, db, principal, route, writer>>
    BY Zenon DEF ConfigureExchange, recoverExchangeConfigLocked, WritesAddress, publishPendingExchangeConfig,
           identity, layout, authority
  <1>2. CASE ConfigureExchange(o)
    <2> DEFINE row == [cmd[o] EXCEPT !.at = "config"]
    <2>1. /\ cmd[o].at = "prepared" /\ provLock = Free /\ provLock' = o /\ keyFinal # 0
          /\ ToStep(o, "config") /\ UNCHANGED <<confPending, confFinal, cards>>
      BY <1>2, Zenon DEF ConfigureExchange, Provisioned, config
    <2>2. /\ row \in CommandRow /\ cmd' = [cmd EXCEPT ![o] = row] /\ cmd' \in [Owners -> CommandRow]
          /\ cmd'[o].at = "config" /\ cmd'[o].does = cmd[o].does /\ cmd'[o].addr = cmd[o].addr
      BY <2>1, StepRow, Zenon
    <2>3. PTypes'
      BY <1>0, <1>1, <2>1, <2>2, Zenon DEF PTypes
    <2>4. Node'
      BY <1>0, <1>1, <2>1, Zenon DEF Node, authorityStatePresent, Provisioned, Linked
    <2>5. Stage(o)'
      BY <1>0, <1>1, <2>1, <2>2, Zenon DEF Stage
    <2> QED
      BY <2>1, <2>2, <2>3, <2>4, <2>5, LockedStep, Zenon
  <1>3. CASE recoverExchangeConfigLocked(o)
    <2>0. provLock = o /\ cmd[o].at = "config" /\ keyFinal # 0 /\ cmd[o].addr # 0
      BY <1>0, <1>3, Zenon DEF recoverExchangeConfigLocked, Holds, Stage
    <2>1. CASE confPending' = 0 /\ UNCHANGED <<confFinal, provLock, cmd, cards>>
      <3>1. cmd[o] \in CommandRow /\ cmd' = [cmd EXCEPT ![o] = cmd[o]]
        BY <1>0, <2>1, Zenon DEF PTypes
      <3>2. PTypes'
        BY <1>0, <1>1, <2>1, Zenon DEF PTypes
      <3>3. Node'
        BY <1>0, <1>1, <2>1, Zenon DEF Node, authorityStatePresent, Provisioned, Linked
      <3>4. Stage(o)'
        BY <1>0, <1>1, <2>0, <2>1, Zenon DEF Stage
      <3> QED
        BY <2>0, <3>1, <3>2, <3>3, <3>4, LockedStep, Zenon
    <2>2. CASE /\ confFinal # 0 /\ cards' = cards \cup {<<keyFinal, confFinal>>}
               /\ provLock' = Free /\ cmd' = [cmd EXCEPT ![o] = AtRest] /\ UNCHANGED config
      <3>1. AtRest \in CommandRow /\ cmd'[o] = AtRest /\ UNCHANGED <<confPending, confFinal>>
        BY <1>0, <2>2, RestRow, Zenon DEF PTypes, config
      <3>2. PTypes'
        BY <1>0, <1>1, <2>2, <3>1, Zenon DEF PTypes
      <3>3. Node'
        BY <1>0, <1>1, <2>0, <2>2, <3>1, Zenon DEF Node, authorityStatePresent, Provisioned, Linked
      <3>4. Stage(o)'
        BY <3>1, RestRow, Zenon DEF Stage
      <3> QED
        BY <2>0, <2>2, <3>1, <3>2, <3>3, <3>4, LockedStep, Zenon
    <2>3. CASE /\ confFinal = 0 /\ UNCHANGED <<confFinal, provLock, cards>>
               /\ \/ confPending > 0 /\ ToStep(o, "settle") /\ UNCHANGED confPending
                  \/ confPending' = Torn /\ ToStep(o, "address")
      <3>1. PICK at \in {"settle", "address"} :
              ToStep(o, at) /\ (at = "settle" => confPending > 0 /\ UNCHANGED confPending)
                            /\ (at = "address" => confPending' = Torn)
        BY <2>3, Zenon
      <3> DEFINE row == [cmd[o] EXCEPT !.at = at]
      <3>2. /\ row \in CommandRow /\ cmd' = [cmd EXCEPT ![o] = row] /\ cmd' \in [Owners -> CommandRow]
            /\ cmd'[o].at = at /\ cmd'[o].does = cmd[o].does /\ cmd'[o].addr = cmd[o].addr
        BY <3>1, StepRow, Zenon
      <3>3. PTypes'
        BY <1>0, <1>1, <2>3, <3>1, <3>2, Zenon DEF PTypes
      <3>4. Node'
        BY <1>0, <1>1, <2>3, Zenon DEF Node, authorityStatePresent, Provisioned, Linked
      <3>5. Stage(o)'
        BY <1>0, <1>1, <2>0, <2>3, <3>1, <3>2, Zenon DEF Stage
      <3> QED
        BY <2>0, <3>2, <3>3, <3>4, <3>5, LockedStep, Zenon
    <2> QED
      BY <1>3, <2>1, <2>2, <2>3, Zenon DEF recoverExchangeConfigLocked, config
  <1>4. CASE WritesAddress(o)
    <2> DEFINE row == [cmd[o] EXCEPT !.at = "settle"]
    <2>1. /\ provLock = o /\ cmd[o].at = "address" /\ confPending' = cmd[o].addr
          /\ ToStep(o, "settle") /\ UNCHANGED <<confFinal, provLock, cards>>
      BY <1>4, Zenon DEF WritesAddress, Holds
    <2>2. /\ row \in CommandRow /\ cmd' = [cmd EXCEPT ![o] = row] /\ cmd' \in [Owners -> CommandRow]
          /\ cmd'[o].at = "settle" /\ cmd'[o].does = cmd[o].does /\ cmd'[o].addr = cmd[o].addr
      BY <2>1, StepRow, Zenon
    <2>3. cmd[o].addr \in Nat /\ cmd[o].addr # 0 /\ keyFinal # 0 /\ confFinal = 0
      BY <1>0, <2>1, Zenon DEF PTypes, CommandRow, Stage
    <2>4. PTypes'
      BY <1>0, <1>1, <2>1, <2>2, <2>3, Zenon DEF PTypes
    <2>5. Node'
      BY <1>0, <1>1, <2>1, Zenon DEF Node, authorityStatePresent, Provisioned, Linked
    <2>6. Stage(o)'
      BY <1>0, <1>1, <2>1, <2>2, <2>3 DEF Stage
    <2> QED
      BY <2>1, <2>2, <2>4, <2>5, <2>6, LockedStep, Zenon
  <1>5. CASE publishPendingExchangeConfig(o)
    <2> DEFINE row == [cmd[o] EXCEPT !.at = "config"]
    <2>1. /\ provLock = o /\ cmd[o].at = "settle" /\ confFinal' = confPending
          /\ ToStep(o, "config") /\ UNCHANGED <<confPending, provLock, cards>>
      BY <1>5, Zenon DEF publishPendingExchangeConfig, Holds
    <2>2. /\ row \in CommandRow /\ cmd' = [cmd EXCEPT ![o] = row] /\ cmd' \in [Owners -> CommandRow]
          /\ cmd'[o].at = "config" /\ cmd'[o].does = cmd[o].does /\ cmd'[o].addr = cmd[o].addr
      BY <2>1, StepRow, Zenon
    <2>3. confPending \in Nat /\ confPending > 0 /\ keyFinal # 0 /\ confFinal = 0
      BY <1>0, <2>1 DEF PTypes, Stage
    <2>4. cards = {} /\ ~route
      BY <1>0, <2>3, Zenon DEF Node
    <2>5. PTypes'
      BY <1>0, <1>1, <2>1, <2>2, <2>3, Zenon DEF PTypes
    <2>6. Node'
      BY <1>0, <1>1, <2>1, <2>4, Zenon DEF Node, authorityStatePresent, Provisioned, Linked
    <2>7. Stage(o)'
      BY <1>0, <1>1, <2>1, <2>2, <2>3, Zenon DEF Stage
    <2> QED
      BY <2>1, <2>2, <2>5, <2>6, <2>7, LockedStep, Zenon
  <1> QED
    BY <1>2, <1>3, <1>4, <1>5, Zenon

\* A command is killed, another enrols a peer, a daemon comes and goes.
LEMMA OtherInv ==
    ASSUME PInv,
           \/ \E o \in Owners : Killed(o) \/ EnrollPeer(o)
           \/ OpenProvisioned \/ DaemonEnds
    PROVE  PInv'
  <1> USE ProvisioningAssumption DEF Making, Configuring, Torn, Free
  <1>0. PTypes /\ Node /\ \A o \in Owners : Stage(o)
    BY Zenon DEF PInv
  <1>1. ASSUME NEW o \in Owners, Killed(o) PROVE PInv'
    <2>1. /\ cmd' = [cmd EXCEPT ![o] = AtRest] /\ provLock' = (IF provLock = o THEN Free ELSE provLock)
          /\ writer' = (IF writer = o THEN Free ELSE writer)
          /\ UNCHANGED <<keyPending, keyFinal, keys, confPending, confFinal, ensureLock, cas,
                         db, principal, route, cards>>
      BY <1>1, Zenon DEF Killed, identity, config, layout, authority
    <2>2. PTypes'
      BY <1>0, <2>1, RestRow, Zenon DEF PTypes
    <2>3. Node'
      BY <1>0, <2>1, Zenon DEF Node, authorityStatePresent, Provisioned, Linked
    <2>4. ASSUME NEW p \in Owners PROVE Stage(p)'
      <3>1. CASE p = o
        <4>1. cmd'[p] = AtRest
          BY <1>0, <2>1, <3>1, Zenon DEF PTypes
        <4> QED
          BY <4>1, RestRow, Zenon DEF Stage
      <3>2. CASE p # o
        <4>1. cmd'[p] = cmd[p] /\ Stage(p)
          BY <1>0, <2>1, <3>2, Zenon DEF PTypes
        <4>2. provLock = p => provLock' = p
          BY <2>1, <3>2, Zenon
        <4> QED
          BY <2>1, <4>1, <4>2, Zenon DEF Stage
      <3> QED
        BY <3>1, <3>2, Zenon
    <2> QED
      BY <2>2, <2>3, <2>4, Zenon DEF PInv
  <1>2. ASSUME NEW o \in Owners, EnrollPeer(o) PROVE PInv'
    <2>1. /\ keyFinal # 0 /\ confFinal # 0 /\ route' = TRUE
          /\ UNCHANGED <<keyPending, keyFinal, keys, confPending, confFinal, ensureLock, cas,
                         db, principal, provLock, writer, cmd, cards>>
      BY <1>2, Zenon DEF EnrollPeer, Provisioned, identity, config, layout
    <2>2. PTypes' /\ Node'
      BY <1>0, <2>1, Zenon DEF PTypes, Node, authorityStatePresent, Provisioned, Linked
    <2>3. \A p \in Owners : Stage(p)'
      BY <1>0, <2>1, Zenon DEF Stage
    <2> QED
      BY <2>2, <2>3, Zenon DEF PInv
  <1>3. CASE OpenProvisioned \/ DaemonEnds
    <2>1. /\ writer' = "daemon" => Provisioned /\ principal = keyFinal
          /\ UNCHANGED <<keyPending, keyFinal, keys, confPending, confFinal, ensureLock, cas,
                         db, principal, route, provLock, cmd, cards>>
      BY <1>3, Zenon DEF OpenProvisioned, DaemonEnds, identity, config, layout, authority
    <2>2. PTypes' /\ Node'
      BY <1>0, <2>1, Zenon DEF PTypes, Node, authorityStatePresent, Provisioned, Linked
    <2>3. \A p \in Owners : Stage(p)'
      BY <1>0, <2>1, Zenon DEF Stage
    <2> QED
      BY <2>2, <2>3, Zenon DEF PInv
  <1> QED
    BY <1>1, <1>2, <1>3, Zenon

LEMMA PNextInv == PInv /\ [PNext]_pvars => PInv'
  <1> SUFFICES ASSUME PInv, [PNext]_pvars PROVE PInv'
    BY Zenon
  <1>1. CASE UNCHANGED pvars
    BY <1>1, Zenon DEF pvars, PInv, PTypes, Node, Stage, authorityStatePresent, Provisioned, Linked
  <1>2. ASSUME NEW o \in Owners, Provision(o, "setup", 0) PROVE PInv'
    BY <1>2, ProvisionInv, Zenon
  <1>3. ASSUME NEW o \in Owners, NEW a \in Addresses, Provision(o, "prepare", a) PROVE PInv'
    <2>1. a \in Nat /\ a # 0
      BY ProvisioningAssumption, Zenon
    <2> QED
      BY <1>3, <2>1, ProvisionInv, Zenon
  <1>4. ASSUME NEW o \in Owners,
               Identity(o) \/ WritesKey(o) \/ publishTransportIdentity(o) \/ openProvisionCAS(o)
        PROVE  PInv'
    BY <1>4, IdentityInv, Zenon
  <1>5. ASSUME NEW o \in Owners, openAuthority(o) \/ CreatesSchema(o) \/ ProvisionInitialPrincipal(o)
        PROVE  PInv'
    BY <1>5, AuthorityInv, Zenon
  <1>6. ASSUME NEW o \in Owners,
               \/ ConfigureExchange(o) \/ recoverExchangeConfigLocked(o)
               \/ WritesAddress(o) \/ publishPendingExchangeConfig(o)
        PROVE  PInv'
    BY <1>6, ConfigureInv, Zenon
  <1>7. ASSUME \/ \E o \in Owners : Killed(o) \/ EnrollPeer(o)
               \/ OpenProvisioned \/ DaemonEnds
        PROVE  PInv'
    BY <1>7, OtherInv, Zenon
  <1> QED
    BY <1>1, <1>2, <1>3, <1>4, <1>5, <1>6, <1>7, Zenon DEF PNext

(***************************************************************************)
(* Wherever commands of any number are killed, the next Provision is not   *)
(* refused for what they left, and a daemon opens no half-made node        *)
(* (provisionLocked, OpenProvisioned).                                     *)
(***************************************************************************)
THEOREM SetupConverges == PInit /\ [][PNext]_pvars => []ConvergesForward
  <1>1. PInv => ConvergesForward
    BY Zenon DEF PInv, Node, ConvergesForward
  <1> QED
    BY <1>1, PInitInv, PNextInv, PTL

(***************************************************************************)
(* Every card handed out names the one identity and address still on the   *)
(* disk, and a route is enrolled only beside them                          *)
(* (provisionExchangeConfigLocked, enrollPeerLocked).                      *)
(***************************************************************************)
THEOREM CardsStayTrue == PInit /\ [][PNext]_pvars => []CardsHold
  <1>1. PInv => CardsHold
    BY Zenon DEF PInv, Node, CardsHold
  <1> QED
    BY <1>1, PInitInv, PNextInv, PTL

=============================================================================
