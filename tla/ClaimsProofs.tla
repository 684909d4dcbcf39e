---------------------------- MODULE ClaimsProofs ----------------------------
(***************************************************************************)
(* The properties of Claims, for every set of Principals, attachments and  *)
(* operation keys and every bound: the inductive invariant, the attachment *)
(* lifecycle and Current, then the admissions, then the theorems.          *)
(***************************************************************************)
EXTENDS ClaimsProperties, TLAPS

\* Rows point only backwards: no Handling is numbered past the clock, and no
\* Event, disposition or View names a fence that was not granted yet.
RowsAgree ==
    /\ \A h \in Handlings :
         /\ hnd[h].state = "absent" =>
              hnd[h].fence = 0 /\ hnd[h].holder = NoAttachment /\ hnd[h].revision = 0
         /\ h > seq => hnd[h].state = "absent"
    /\ \A e \in events :
         /\ e.seq <= seq
         /\ e.handling # 0 => e.handling \in 1..seq /\ e.fence \in 1..hnd[e.handling].fence
    /\ \A d \in disp : d.handling <= seq /\ d.fence \in 1..hnd[d.handling].fence
    /\ \A v \in views :
         v.handling # 0 => v.handling \in 1..seq /\ v.fence \in 1..hnd[v.handling].fence

\* The inductive invariant.
IInv ==
    /\ TypeOK
    /\ RowsAgree
    /\ OneLiveBoundary
    /\ ClaimsBelongToLiveBoundary
    /\ OneClaimPerBoundary
    /\ ExpirySweepFindsNothing
    /\ EveryFenceEndsOnce
    /\ ResolvedWithEveryReplySeen
    /\ HeldViewIsFresh

\* Clearing a claim (claim_attachment_id and claim_until set to NULL) changes
\* nothing else of the row.
LEMMA UnclaimedRow ==
    ASSUME NEW row \in HandlingRow
    PROVE  /\ Unclaimed(row) \in HandlingRow
           /\ Unclaimed(row).holder = NoAttachment
           /\ Unclaimed(row).state = row.state
           /\ Unclaimed(row).owner = row.owner
           /\ Unclaimed(row).head = row.head
           /\ Unclaimed(row).fence = row.fence
           /\ Unclaimed(row).revision = row.revision
  BY Zenon DEF HandlingRow, Unclaimed

\* A claim raises the fence by one and leaves the responsibility alone.
LEMMA ClaimedRowFields ==
    ASSUME NEW row \in HandlingRow, NEW a \in Attachments, att[a].expires \in Nat
    PROVE  /\ ClaimedRow(row, a) \in HandlingRow
           /\ ClaimedRow(row, a).state = row.state
           /\ ClaimedRow(row, a).owner = row.owner
           /\ ClaimedRow(row, a).head = row.head
           /\ ClaimedRow(row, a).revision = row.revision
           /\ ClaimedRow(row, a).fence = row.fence + 1
           /\ ClaimedRow(row, a).holder = a
           /\ ClaimedRow(row, a).until = att[a].expires
  <1> DEFINE next == row.fence + 1
             limit == att[a].expires
             new == [row EXCEPT !.holder = a, !.fence = next, !.until = limit]
  <1>1. next \in Nat
    BY DEF HandlingRow
  <1>2. ClaimedRow(row, a) = new
    BY Zenon DEF ClaimedRow
  <1> HIDE DEF next, limit
  <1>3. new \in HandlingRow
    BY <1>1, Zenon DEF HandlingRow, limit
  <1>4. /\ new.state = row.state /\ new.owner = row.owner /\ new.head = row.head
        /\ new.revision = row.revision /\ new.fence = next /\ new.holder = a
        /\ new.until = limit
    BY Zenon DEF HandlingRow
  <1> QED
    BY <1>2, <1>3, <1>4, Zenon DEF next, limit

\* An empty authority satisfies the invariant.
LEMMA InitInv == Init => IInv
  <1> SUFFICES ASSUME Init PROVE IInv
    BY Zenon
  <1> USE PrincipalsAssumption, AttachmentsAssumption, OwnerAssumption, BoundsAssumption
  <1>1. (CHOOSE p \in Principals : TRUE) \in Principals
    BY Zenon
  <1>2. TypeOK
    BY <1>1 DEF Init, TypeOK, AttachmentRow, HandlingRow, Handlings
  <1>3. RowsAgree /\ ExpirySweepFindsNothing /\ HeldViewIsFresh
    BY Zenon DEF Init, RowsAgree, ExpirySweepFindsNothing, HeldViewIsFresh
  <1>4. OneLiveBoundary
    BY Zenon DEF Init, OneLiveBoundary
  <1>5. ClaimsBelongToLiveBoundary /\ OneClaimPerBoundary
    BY Zenon DEF Init, ClaimsBelongToLiveBoundary, OneClaimPerBoundary
  <1>6. EveryFenceEndsOnce /\ ResolvedWithEveryReplySeen
    BY DEF Init, EveryFenceEndsOnce, ResolvedWithEveryReplySeen
  <1> QED
    BY <1>2, <1>3, <1>4, <1>5, <1>6, Zenon DEF IInv

\* Releasing the claims of a set of ended boundaries: rows keep everything but
\* the claim, and each released fence gets its one disposition.
LEMMA ReleaseClaimsInv ==
    ASSUME IInv, NEW B \in SUBSET Attachments, ReleaseClaims(B),
           UNCHANGED <<seq, events, views>>
    PROVE  /\ hnd' \in [Handlings -> HandlingRow]
           /\ disp' \subseteq DispositionRow
           /\ RowsAgree'
           /\ ExpirySweepFindsNothing'
           /\ EveryFenceEndsOnce'
           /\ ResolvedWithEveryReplySeen'
           /\ HeldViewIsFresh'
           /\ \A h \in Handlings :
                /\ hnd'[h].holder = IF hnd[h].holder \in B THEN NoAttachment ELSE hnd[h].holder
                /\ hnd'[h].holder # NoAttachment => hnd'[h] = hnd[h]
  <1> USE AttachmentsAssumption, BoundsAssumption DEF Handlings
  <1>1. TypeOK /\ hnd \in [Handlings -> HandlingRow]
    BY Zenon DEF IInv, TypeOK
  <1>2. \A h \in Handlings : hnd'[h] = IF hnd[h].holder \in B THEN Unclaimed(hnd[h]) ELSE hnd[h]
    BY Zenon DEF ReleaseClaims
  <1>3. \A h \in Handlings :
          /\ hnd[h] \in HandlingRow
          /\ hnd'[h] \in HandlingRow
          /\ hnd'[h].state = hnd[h].state
          /\ hnd'[h].owner = hnd[h].owner
          /\ hnd'[h].head = hnd[h].head
          /\ hnd'[h].fence = hnd[h].fence
          /\ hnd'[h].revision = hnd[h].revision
          /\ hnd'[h].holder = IF hnd[h].holder \in B THEN NoAttachment ELSE hnd[h].holder
          /\ hnd'[h].holder # NoAttachment => hnd'[h] = hnd[h]
    BY <1>1, <1>2, UnclaimedRow
  <1>4. hnd' \in [Handlings -> HandlingRow]
    BY <1>3, Zenon DEF ReleaseClaims
  <1>5. disp' \subseteq DispositionRow
    BY <1>1 DEF TypeOK, ReleaseClaims, DispositionRow, HandlingRow
  <1>6. \A d \in disp' :
          \/ d \in disp
          \/ \E h \in Handlings :
               /\ hnd[h].holder \in B
               /\ d = [handling |-> h, fence |-> hnd[h].fence, att |-> hnd[h].holder,
                       kind |-> "boundary_end"]
    BY Zenon DEF ReleaseClaims
  <1>7. ExpirySweepFindsNothing'
    BY <1>6 DEF ExpirySweepFindsNothing, IInv
  <1>8. RowsAgree'
    <2>1. \A d \in disp' : d.handling <= seq /\ d.fence \in 1..hnd'[d.handling].fence
      <3> SUFFICES ASSUME NEW d \in disp'
                   PROVE  d.handling <= seq /\ d.fence \in 1..hnd'[d.handling].fence
        BY Zenon
      <3>1. CASE d \in disp
        <4>1. d.handling \in Handlings /\ d.handling <= seq /\ d.fence \in 1..hnd[d.handling].fence
          BY <1>1, <3>1, Zenon DEF IInv, TypeOK, RowsAgree, DispositionRow
        <4> QED
          BY <1>3, <4>1, Zenon
      <3>2. CASE d \notin disp
        <4>1. PICK h \in Handlings :
                /\ hnd[h].holder \in B
                /\ d = [handling |-> h, fence |-> hnd[h].fence, att |-> hnd[h].holder,
                        kind |-> "boundary_end"]
          BY <1>6, <3>2, Zenon
        <4>2. hnd[h].holder # NoAttachment /\ hnd[h].fence \in Nat /\ h \in Nat /\ seq \in Nat
          <5>1. hnd[h].holder # NoAttachment
            BY <4>1, Zenon
          <5>2. hnd[h].fence \in Nat /\ h \in Nat /\ seq \in Nat
            BY DEF IInv, TypeOK, HandlingRow, Handlings
          <5> QED
            BY <5>1, <5>2, Zenon
        <4>3. hnd[h].state = "open" /\ hnd[h].fence > 0
          BY <4>2, Zenon DEF IInv, ClaimsBelongToLiveBoundary
        <4>4. h <= seq
          BY <4>2, <4>3 DEF IInv, RowsAgree
        <4>5. d.handling = h /\ d.fence = hnd[h].fence /\ hnd'[h].fence = hnd[h].fence
          BY <1>3, <4>1, Zenon
        <4> QED
          BY <4>2, <4>3, <4>4, <4>5
      <3> QED
        BY <3>1, <3>2, Zenon
    <2>2. \A h \in Handlings :
             /\ hnd'[h].state = "absent" =>
                  hnd'[h].fence = 0 /\ hnd'[h].holder = NoAttachment /\ hnd'[h].revision = 0
             /\ h > seq => hnd'[h].state = "absent"
      BY <1>3 DEF IInv, RowsAgree
    <2>3. \A h \in 1..seq : h \in Handlings /\ hnd'[h].fence = hnd[h].fence
      BY <1>1, <1>3 DEF TypeOK
    <2> QED
      BY <2>1, <2>2, <2>3, Zenon DEF IInv, RowsAgree
  <1>9. ResolvedWithEveryReplySeen'
    BY <1>3 DEF IInv, ResolvedWithEveryReplySeen
  <1>10. HeldViewIsFresh'
    BY <1>1, <1>3 DEF IInv, HeldViewIsFresh, TypeOK, ViewRow
  <1>11. EveryFenceEndsOnce'
    <2> SUFFICES ASSUME NEW h \in Handlings, NEW f \in 1..hnd[h].fence
                 PROVE  IF f = hnd[h].fence /\ hnd'[h].holder # NoAttachment
                        THEN Endings(h, f)' = {}
                        ELSE \E x \in Endings(h, f)' : Endings(h, f)' = {x}
      BY <1>3 DEF EveryFenceEndsOnce
    <2>1. IF f = hnd[h].fence /\ hnd[h].holder # NoAttachment
          THEN Endings(h, f) = {}
          ELSE \E x \in Endings(h, f) : Endings(h, f) = {x}
      BY Zenon DEF IInv, EveryFenceEndsOnce
    <2>2. CASE f = hnd[h].fence /\ hnd[h].holder \in B
      <3> DEFINE d == [handling |-> h, fence |-> hnd[h].fence, att |-> hnd[h].holder,
                       kind |-> "boundary_end"]
      <3>1. d \in disp' /\ d.handling = h /\ d.fence = f
        BY <2>2, Zenon DEF ReleaseClaims
      <3>2. Endings(h, f) = {}
        BY <2>1, <2>2, Zenon
      <3>3. \A x \in disp' : x.handling = h /\ x.fence = f => x = d
        BY <1>6, <3>2 DEF Endings, Releases
      <3>4. Endings(h, f)' = {d}
        BY <3>1, <3>2, <3>3, Zenon DEF Endings, Releases, Settlements
      <3> QED
        BY <1>3, <2>2, <3>4, Zenon
    <2>3. CASE ~(f = hnd[h].fence /\ hnd[h].holder \in B)
      <3>1. \A x \in disp' : x.handling = h /\ x.fence = f => x \in disp
        BY <1>6, <2>3
      <3>2. Endings(h, f)' = Endings(h, f)
        BY <3>1, Zenon DEF Endings, Releases, Settlements, ReleaseClaims
      <3> QED
        BY <1>3, <2>1, <2>3, <3>2, Zenon
    <2> QED
      BY <2>2, <2>3, Zenon
  <1> QED
    BY <1>3, <1>4, <1>5, <1>7, <1>8, <1>9, <1>10, <1>11, Zenon

\* A fresh boundary replaces the live one of its Principal.
LEMMA IssueInv ==
    ASSUME IInv, NEW a \in Attachments, IssueInteractiveAttachment(a)
    PROVE  IInv'
  <1> USE AttachmentsAssumption, OwnerAssumption, BoundsAssumption
  <1>1. Predecessors(a) \in SUBSET Attachments /\ a \notin Predecessors(a)
    BY Zenon DEF Predecessors, IssueInteractiveAttachment
  <1>2. ReleaseClaims(Predecessors(a)) /\ UNCHANGED <<seq, events, views>>
    BY Zenon DEF IssueInteractiveAttachment
  <1>3. /\ hnd' \in [Handlings -> HandlingRow]
        /\ disp' \subseteq DispositionRow
        /\ RowsAgree'
        /\ ExpirySweepFindsNothing'
        /\ EveryFenceEndsOnce'
        /\ ResolvedWithEveryReplySeen'
        /\ HeldViewIsFresh'
        /\ \A h \in Handlings :
             /\ hnd'[h].holder = IF hnd[h].holder \in Predecessors(a)
                                 THEN NoAttachment ELSE hnd[h].holder
             /\ hnd'[h].holder # NoAttachment => hnd'[h] = hnd[h]
    BY <1>1, <1>2, ReleaseClaimsInv, Zenon
  <1>4. \A b \in Attachments :
          att'[b] = IF b = a
                    THEN [state |-> "live", issued |-> now, expires |-> now + Lifetime]
                    ELSE IF b \in Predecessors(a)
                    THEN [att[b] EXCEPT !.state = "ended"]
                    ELSE att[b]
    BY Zenon DEF IssueInteractiveAttachment
  <1>5. now \in Nat /\ att \in [Attachments -> AttachmentRow]
    BY DEF IInv, TypeOK
  <1>6. att' \in [Attachments -> AttachmentRow]
    <2>1. [state |-> "live", issued |-> now, expires |-> now + Lifetime] \in AttachmentRow
      BY <1>5 DEF AttachmentRow
    <2>2. \A b \in Attachments :
            att[b] \in AttachmentRow /\ [att[b] EXCEPT !.state = "ended"] \in AttachmentRow
      BY <1>5, Zenon DEF AttachmentRow
    <2>3. \A b \in Attachments : att'[b] \in AttachmentRow
      BY <1>4, <2>1, <2>2, Zenon
    <2> QED
      BY <2>3, Zenon DEF IssueInteractiveAttachment
  <1>7. TypeOK'
    BY <1>3, <1>6, Zenon DEF IInv, TypeOK, IssueInteractiveAttachment
  <1>8. \A b \in Attachments : att'[b].state = "live" =>
          b = a \/ (att'[b] = att[b] /\ b \notin Predecessors(a))
    BY <1>4, <1>5, Zenon DEF AttachmentRow
  <1>9. OneLiveBoundary'
    BY <1>8, Zenon DEF IInv, OneLiveBoundary, Predecessors
  <1>10. ClaimsBelongToLiveBoundary'
    <2> SUFFICES ASSUME NEW h \in Handlings, hnd'[h].holder # NoAttachment
                 PROVE  /\ hnd'[h].state = "open"
                        /\ att'[hnd'[h].holder].state = "live"
                        /\ Owner[hnd'[h].holder] = hnd'[h].owner
                        /\ hnd'[h].until = att'[hnd'[h].holder].expires
                        /\ hnd'[h].fence > 0
      BY Zenon DEF ClaimsBelongToLiveBoundary
    <2>1. hnd'[h] = hnd[h] /\ hnd[h].holder \notin Predecessors(a)
      BY <1>3, Zenon
    <2>2. hnd[h].holder \in Attachments
      BY <2>1, Zenon DEF IInv, TypeOK, HandlingRow
    <2>3. hnd[h].holder # a
      BY <2>1, Zenon DEF IInv, ClaimsBelongToLiveBoundary, IssueInteractiveAttachment
    <2>4. att'[hnd[h].holder] = att[hnd[h].holder]
      BY <1>4, <2>1, <2>2, <2>3, Zenon
    <2> QED
      BY <2>1, <2>4 DEF IInv, ClaimsBelongToLiveBoundary
  <1>11. OneClaimPerBoundary'
    BY <1>3, Zenon DEF IInv, OneClaimPerBoundary
  <1> QED
    BY <1>3, <1>7, <1>9, <1>10, <1>11, Zenon DEF IInv

\* An explicit end releases the boundary's own claim.
LEMMA EndInv ==
    ASSUME IInv, NEW a \in Attachments, EndInteractiveAttachment(a)
    PROVE  IInv'
  <1> USE AttachmentsAssumption, OwnerAssumption, BoundsAssumption
  <1>2. ReleaseClaims({a}) /\ UNCHANGED <<seq, events, views>>
    BY Zenon DEF EndInteractiveAttachment
  <1>3. /\ hnd' \in [Handlings -> HandlingRow]
        /\ disp' \subseteq DispositionRow
        /\ RowsAgree'
        /\ ExpirySweepFindsNothing'
        /\ EveryFenceEndsOnce'
        /\ ResolvedWithEveryReplySeen'
        /\ HeldViewIsFresh'
        /\ \A h \in Handlings :
             /\ hnd'[h].holder = IF hnd[h].holder \in {a} THEN NoAttachment ELSE hnd[h].holder
             /\ hnd'[h].holder # NoAttachment => hnd'[h] = hnd[h]
    BY <1>2, ReleaseClaimsInv, Zenon
  <1>4. att \in [Attachments -> AttachmentRow]
    BY Zenon DEF IInv, TypeOK
  <1>5. /\ att' \in [Attachments -> AttachmentRow]
        /\ att'[a].state = "ended"
        /\ \A b \in Attachments : b # a => att'[b] = att[b]
    BY <1>4, Zenon DEF EndInteractiveAttachment, AttachmentRow
  <1>6. TypeOK'
    BY <1>3, <1>5, Zenon DEF IInv, TypeOK, EndInteractiveAttachment
  <1>7. OneLiveBoundary'
    BY <1>5, Zenon DEF IInv, OneLiveBoundary
  <1>8. ClaimsBelongToLiveBoundary'
    <2> SUFFICES ASSUME NEW h \in Handlings, hnd'[h].holder # NoAttachment
                 PROVE  /\ hnd'[h].state = "open"
                        /\ att'[hnd'[h].holder].state = "live"
                        /\ Owner[hnd'[h].holder] = hnd'[h].owner
                        /\ hnd'[h].until = att'[hnd'[h].holder].expires
                        /\ hnd'[h].fence > 0
      BY Zenon DEF ClaimsBelongToLiveBoundary
    <2>1. hnd'[h] = hnd[h] /\ hnd[h].holder # a
      BY <1>3, Zenon
    <2>2. hnd[h].holder \in Attachments
      BY <2>1, Zenon DEF IInv, TypeOK, HandlingRow
    <2> QED
      BY <1>5, <2>1, <2>2 DEF IInv, ClaimsBelongToLiveBoundary
  <1>9. OneClaimPerBoundary'
    BY <1>3, Zenon DEF IInv, OneClaimPerBoundary
  <1> QED
    BY <1>3, <1>6, <1>7, <1>8, <1>9, Zenon DEF IInv

\* The sweep of a Current whose boundary is live finds no expired claim: the
\* only live boundary of the Principal is the caller, and its claim runs to the
\* caller's own expiry.
LEMMA SweepIsEmpty ==
    ASSUME IInv, NEW a \in Attachments, NEW t \in Readings(a), requireLiveAttachment(a, t)
    PROVE  /\ settleExpiredClaimsTx(Owner[a], t) = hnd
           /\ ExpiryDispositions(Owner[a], t) = {}
  <1> USE AttachmentsAssumption, OwnerAssumption, BoundsAssumption
  <1>1. t \in Int /\ att[a].expires \in Nat /\ hnd \in [Handlings -> HandlingRow]
    BY DEF IInv, TypeOK, AttachmentRow, Readings
  <1>2. ASSUME NEW h \in Expired(Owner[a], t)
        PROVE  FALSE
    <2>1. /\ h \in Handlings /\ hnd[h].owner = Owner[a]
          /\ hnd[h].holder # NoAttachment /\ hnd[h].until <= t
      BY <1>2, Zenon DEF Expired, Open
    <2>2. hnd[h].holder \in Attachments
      BY <2>1, Zenon DEF IInv, TypeOK, HandlingRow
    <2>3. att[hnd[h].holder].state = "live" /\ Owner[hnd[h].holder] = Owner[a]
      BY <2>1, Zenon DEF IInv, ClaimsBelongToLiveBoundary
    <2>4. hnd[h].holder = a
      BY <2>2, <2>3, Zenon DEF IInv, OneLiveBoundary, requireLiveAttachment
    <2>5. hnd[h].until = att[a].expires
      BY <2>1, <2>4, Zenon DEF IInv, ClaimsBelongToLiveBoundary
    <2> QED
      BY <1>1, <2>1, <2>5 DEF requireLiveAttachment
  <1>3. Expired(Owner[a], t) = {}
    BY <1>2, Zenon
  <1> QED
    BY <1>1, <1>3, Zenon DEF settleExpiredClaimsTx, ExpiryDispositions

\* Freezing a View of the tables as they are, with a claim the caller holds.
LEMMA ViewInv ==
    ASSUME IInv, NEW v \in ViewRow,
           UNCHANGED <<now, att, seq, hnd, events, disp>>, views' = views \cup {v},
           v.handling # 0 => /\ v.handling \in 1..seq
                             /\ v.fence \in 1..hnd[v.handling].fence
                             /\ v.head = hnd[v.handling].head
                             /\ v.revision = hnd[v.handling].revision
    PROVE  IInv'
  <1> USE AttachmentsAssumption, BoundsAssumption
  <1>1. TypeOK'
    BY Zenon DEF IInv, TypeOK
  <1>2. RowsAgree'
    BY Zenon DEF IInv, RowsAgree
  <1>3. OneLiveBoundary' /\ ClaimsBelongToLiveBoundary' /\ OneClaimPerBoundary'
    BY DEF IInv, OneLiveBoundary, ClaimsBelongToLiveBoundary, OneClaimPerBoundary
  <1>4. ExpirySweepFindsNothing' /\ EveryFenceEndsOnce' /\ ResolvedWithEveryReplySeen'
    BY DEF IInv, ExpirySweepFindsNothing, EveryFenceEndsOnce, Endings, Settlements,
           Releases, ResolvedWithEveryReplySeen
  <1>5. HeldViewIsFresh'
    <2> SUFFICES ASSUME NEW w \in views', NEW h \in Handlings, h = w.handling,
                        hnd[h].holder = w.att, hnd[h].fence = w.fence
                 PROVE  hnd[h].head = w.head /\ w.revision <= hnd[h].revision
      BY Zenon DEF HeldViewIsFresh
    <2>1. CASE w \in views
      BY <2>1, Zenon DEF IInv, HeldViewIsFresh
    <2>2. CASE w = v
      <3>1. h # 0 /\ hnd[h].revision \in Nat
        BY SMTT(30) DEF IInv, TypeOK, HandlingRow, Handlings
      <3> QED
        BY <2>2, <3>1
    <2> QED
      BY <2>1, <2>2, Zenon
  <1> QED
    BY <1>1, <1>2, <1>3, <1>4, <1>5, Zenon DEF IInv

\* Taking a claim on an unclaimed open Handling under the next fence.
LEMMA ClaimInv ==
    ASSUME IInv, NEW a \in Attachments, NEW k \in CurrentOps, NEW h \in Handlings,
           att[a].state = "live", hnd[h].state = "open", hnd[h].owner = Owner[a],
           hnd[h].holder = NoAttachment, existingClaimTx(a, hnd) = {},
           hnd' = claimNextTx(a, hnd, h),
           views' = views \cup {ClaimView(a, k, h, claimNextTx(a, hnd, h)[h])},
           UNCHANGED <<now, att, seq, events, disp>>
    PROVE  IInv'
  <1> USE AttachmentsAssumption, OwnerAssumption, BoundsAssumption
  <1>1. /\ TypeOK /\ hnd \in [Handlings -> HandlingRow] /\ hnd[h] \in HandlingRow
        /\ att[a].expires \in Nat /\ seq \in Nat /\ h \in Nat \ {0} /\ h <= seq
    BY DEF IInv, TypeOK, AttachmentRow, Handlings, RowsAgree
  <1>2. /\ hnd' \in [Handlings -> HandlingRow]
        /\ \A g \in Handlings : g # h => hnd'[g] = hnd[g]
        /\ hnd'[h].state = "open" /\ hnd'[h].owner = Owner[a]
        /\ hnd'[h].head = hnd[h].head /\ hnd'[h].revision = hnd[h].revision
        /\ hnd'[h].fence = hnd[h].fence + 1
        /\ hnd'[h].holder = a /\ hnd'[h].until = att[a].expires
    <2>1. hnd' = [hnd EXCEPT ![h] = ClaimedRow(hnd[h], a)]
      BY Zenon DEF claimNextTx
    <2> QED
      BY <1>1, <2>1, ClaimedRowFields
  <1> DEFINE w == ClaimView(a, k, h, claimNextTx(a, hnd, h)[h])
  <1>3. /\ w \in ViewRow /\ w.att = a /\ w.handling = h /\ w.fence = hnd[h].fence + 1
        /\ w.head = hnd[h].head /\ w.revision = hnd[h].revision
    BY <1>1, <1>2, Zenon DEF ClaimView, ViewRow, HandlingRow
  <1>4. TypeOK'
    BY <1>2, <1>3, SMTT(30) DEF IInv, TypeOK
  <1>5. \A g \in Handlings : hnd[g].fence \in Nat /\ hnd'[g].fence \in Nat /\ hnd[g].fence <= hnd'[g].fence
    <2>1. \A g \in Handlings : hnd[g].fence \in Nat /\ hnd'[g].fence \in Nat
      BY <1>1, <1>2, Zenon DEF HandlingRow
    <2>2. \A g \in Handlings : hnd'[g].fence = hnd[g].fence \/ hnd'[g].fence = hnd[g].fence + 1
      BY <1>2, Zenon
    <2> QED
      BY <2>1, <2>2, SMTT(30)
  <1>6. \A g \in 1..seq : g \in Handlings
    BY <1>1 DEF TypeOK, Handlings
  <1>7. RowsAgree'
    <2>1. \A g \in Handlings :
             /\ hnd'[g].state = "absent" =>
                  hnd'[g].fence = 0 /\ hnd'[g].holder = NoAttachment /\ hnd'[g].revision = 0
             /\ g > seq => hnd'[g].state = "absent"
      BY <1>1, <1>2 DEF IInv, RowsAgree
    <2>2. \A e \in events :
             /\ e.seq <= seq
             /\ e.handling # 0 => e.handling \in 1..seq /\ e.fence \in 1..hnd'[e.handling].fence
      BY <1>5, <1>6, SMTT(30) DEF IInv, RowsAgree
    <2>3. \A d \in disp : d.handling <= seq /\ d.fence \in 1..hnd'[d.handling].fence
      <3>1. \A d \in disp : /\ d.handling \in Handlings /\ d.handling <= seq
                            /\ d.fence \in 1..hnd[d.handling].fence
        BY Zenon DEF IInv, RowsAgree, TypeOK, DispositionRow
      <3> QED
        BY <1>5, <3>1
    <2>4. \A v \in views' :
             v.handling # 0 => v.handling \in 1..seq /\ v.fence \in 1..hnd'[v.handling].fence
      <3>1. \A v \in views :
               v.handling # 0 => v.handling \in 1..seq /\ v.fence \in 1..hnd'[v.handling].fence
        BY <1>5, <1>6 DEF IInv, RowsAgree
      <3>2. w.handling \in 1..seq /\ w.fence \in 1..hnd'[w.handling].fence
        BY <1>1, <1>2, <1>3, <1>5, SMTT(30)
      <3> QED
        BY <3>1, <3>2, Zenon
    <2> QED
      BY <2>1, <2>2, <2>3, <2>4, Zenon DEF RowsAgree
  <1>8. OneLiveBoundary'
    BY Zenon DEF IInv, OneLiveBoundary
  <1>9. ClaimsBelongToLiveBoundary'
    BY <1>1, <1>2, <1>5, SMTT(30) DEF IInv, ClaimsBelongToLiveBoundary
  <1>10. OneClaimPerBoundary'
    <2>1. \A g \in Handlings : hnd[g].holder # a
      BY DEF IInv, ClaimsBelongToLiveBoundary, existingClaimTx, Open
    <2> QED
      BY <1>2, <2>1, SMTT(30) DEF IInv, OneClaimPerBoundary
  <1>11. ExpirySweepFindsNothing' /\ ResolvedWithEveryReplySeen'
    BY <1>2, SMTT(30) DEF IInv, ExpirySweepFindsNothing, ResolvedWithEveryReplySeen
  <1>12. HeldViewIsFresh'
    BY <1>1, <1>2, <1>3, <1>5, SMTT(30) DEF IInv, HeldViewIsFresh, RowsAgree, TypeOK, ViewRow, HandlingRow
  <1>13. EveryFenceEndsOnce'
    <2>0. \A g, f : Endings(g, f)' = Endings(g, f)
      BY Zenon DEF Endings, Settlements, Releases
    <2> SUFFICES ASSUME NEW g \in Handlings, NEW f \in 1..hnd'[g].fence
                 PROVE  IF f = hnd'[g].fence /\ hnd'[g].holder # NoAttachment
                        THEN Endings(g, f)' = {}
                        ELSE \E x \in Endings(g, f)' : Endings(g, f)' = {x}
      BY Zenon DEF EveryFenceEndsOnce
    <2> SUFFICES IF f = hnd'[g].fence /\ hnd'[g].holder # NoAttachment
                 THEN Endings(g, f) = {}
                 ELSE \E x \in Endings(g, f) : Endings(g, f) = {x}
      BY <2>0, Zenon
    <2>1. CASE g # h
      BY <1>2, <2>1, SMTT(30) DEF IInv, EveryFenceEndsOnce
    <2>2. CASE g = h /\ f = hnd'[h].fence
      <3>1. Settlements(h, f) = {}
        BY <1>1, <1>2, <1>5, <2>2, SMTT(30) DEF Settlements, IInv, RowsAgree
      <3>2. Releases(h, f) = {}
        BY <1>1, <1>2, <1>5, <2>2, SMTT(30) DEF Releases, IInv, RowsAgree
      <3> QED
        BY <1>2, <2>2, <3>1, <3>2, Zenon DEF Endings
    <2>3. CASE g = h /\ f # hnd'[h].fence
      <3>1. f \in 1..hnd[h].fence
        BY <1>2, <1>5, <2>3
      <3> QED
        BY <2>3, <3>1, Zenon DEF IInv, EveryFenceEndsOnce
    <2> QED
      BY <2>1, <2>2, <2>3, SMTT(30)
  <1> QED
    BY <1>4, <1>7, <1>8, <1>9, <1>10, <1>11, <1>12, <1>13, Zenon DEF IInv

\* Current keeps or takes one claim and freezes a View.
LEMMA CurrentInv ==
    ASSUME IInv, NEW a \in Attachments, NEW k \in CurrentOps, Current(a, k)
    PROVE  IInv'
  <1> USE AttachmentsAssumption, OwnerAssumption, BoundsAssumption
  <1>1. PICK t \in Readings(a) :
          /\ requireLiveAttachment(a, t)
          /\ disp' = disp \cup ExpiryDispositions(Owner[a], t)
          /\ \/ \E h \in existingClaimTx(a, settleExpiredClaimsTx(Owner[a], t)) :
                  /\ hnd' = settleExpiredClaimsTx(Owner[a], t)
                  /\ views' = views \cup
                       {ClaimView(a, k, h, settleExpiredClaimsTx(Owner[a], t)[h])}
             \/ /\ existingClaimTx(a, settleExpiredClaimsTx(Owner[a], t)) = {}
                /\ \E h \in LeastAttended(settleExpiredClaimsTx(Owner[a], t), Owner[a]) :
                     /\ hnd' = claimNextTx(a, settleExpiredClaimsTx(Owner[a], t), h)
                     /\ views' = views \cup
                          {ClaimView(a, k, h,
                             claimNextTx(a, settleExpiredClaimsTx(Owner[a], t), h)[h])}
             \/ /\ hnd' = settleExpiredClaimsTx(Owner[a], t)
                /\ views' = views \cup {EmptyView(a, k)}
    BY Zenon DEF Current
  <1>2. settleExpiredClaimsTx(Owner[a], t) = hnd /\ disp' = disp
    BY <1>1, SweepIsEmpty, Zenon
  <1>3. UNCHANGED <<now, att, seq, events, disp>> /\ att[a].state = "live"
    BY <1>1, <1>2, SMTT(30) DEF Current, requireLiveAttachment
  <1>4. CASE \E h \in existingClaimTx(a, hnd) :
               hnd' = hnd /\ views' = views \cup {ClaimView(a, k, h, hnd[h])}
    <2>1. PICK h \in existingClaimTx(a, hnd) :
            hnd' = hnd /\ views' = views \cup {ClaimView(a, k, h, hnd[h])}
      BY <1>4, Zenon
    <2>2. /\ h \in Handlings /\ hnd[h].holder = a /\ hnd[h].state = "open"
          /\ hnd[h].fence > 0 /\ hnd[h] \in HandlingRow /\ seq \in Nat
      BY <2>1 DEF existingClaimTx, Open, IInv, TypeOK, ClaimsBelongToLiveBoundary
    <2>3. h \in 1..seq /\ h \in Nat
      BY <2>2 DEF IInv, RowsAgree, Handlings
    <2> DEFINE v == ClaimView(a, k, h, hnd[h])
    <2>4. /\ v \in ViewRow /\ v.handling = h /\ v.fence = hnd[h].fence
          /\ v.head = hnd[h].head /\ v.revision = hnd[h].revision
          /\ v.fence \in 1..hnd[h].fence
      BY <2>2, <2>3, SMTT(30) DEF ClaimView, ViewRow, HandlingRow
    <2> HIDE DEF v
    <2>5. views' = views \cup {v}
      BY <2>1, Zenon DEF v
    <2> QED
      BY <1>3, <2>1, <2>3, <2>4, <2>5, ViewInv, Zenon
  <1>5. CASE /\ existingClaimTx(a, hnd) = {}
             /\ \E h \in LeastAttended(hnd, Owner[a]) :
                  /\ hnd' = claimNextTx(a, hnd, h)
                  /\ views' = views \cup {ClaimView(a, k, h, claimNextTx(a, hnd, h)[h])}
    <2>1. PICK h \in LeastAttended(hnd, Owner[a]) :
            /\ hnd' = claimNextTx(a, hnd, h)
            /\ views' = views \cup {ClaimView(a, k, h, claimNextTx(a, hnd, h)[h])}
      BY <1>5, Zenon
    <2>2. /\ h \in Handlings /\ hnd[h].state = "open" /\ hnd[h].owner = Owner[a]
          /\ hnd[h].holder = NoAttachment
      BY <2>1, Zenon DEF LeastAttended, Claimable, Open
    <2> QED
      BY <1>3, <1>5, <2>1, <2>2, ClaimInv, Zenon
  <1>6. CASE hnd' = hnd /\ views' = views \cup {EmptyView(a, k)}
    <2>1. EmptyView(a, k) \in ViewRow /\ EmptyView(a, k).handling = 0
      BY Zenon DEF EmptyView, ViewRow
    <2> QED
      BY <1>3, <1>6, <2>1, ViewInv, Zenon
  <1> QED
    BY <1>1, <1>2, <1>4, <1>5, <1>6, Zenon

-----------------------------------------------------------------------------
\* The admissions preserve the inductive invariant.

\* An Event without a subject settles no claim: it may open the Handling it is
\* numbered after, or raise the revision of an open one.
LEMMA PlainEventInv ==
    ASSUME IInv, InsertEvent(0, 0, 0), UNCHANGED <<now, att, disp, views>>,
           hnd' \in [Handlings -> HandlingRow],
           \A h \in Handlings :
             /\ hnd'[h].fence = hnd[h].fence
             /\ hnd'[h].holder = hnd[h].holder
             /\ hnd'[h].revision >= hnd[h].revision
             /\ h # seq + 1 => /\ hnd'[h].state = hnd[h].state
                               /\ hnd'[h].owner = hnd[h].owner
                               /\ hnd'[h].head = hnd[h].head
                               /\ hnd'[h].until = hnd[h].until
             /\ hnd'[h].state # "open" => hnd'[h] = hnd[h]
    PROVE  IInv'
  <1> USE AttachmentsAssumption, OwnerAssumption, BoundsAssumption DEF Handlings
  <1>1. /\ TypeOK /\ seq \in Nat /\ seq' = seq + 1 /\ seq' \in 0..MaxEvents
        /\ hnd \in [Handlings -> HandlingRow]
    BY DEF IInv, TypeOK, InsertEvent
  <1> DEFINE e == [seq |-> seq + 1, handling |-> 0, fence |-> 0, revision |-> 0]
  <1>2. /\ events' = events \cup {e} /\ e \in EventRow
        /\ e.handling = 0 /\ e.seq = seq + 1
    BY <1>1 DEF InsertEvent, EventRow
  <1> HIDE DEF e
  <1>3. TypeOK'
    BY <1>1, <1>2, Zenon DEF TypeOK
  <1>4. \A h \in Handlings : h = seq + 1 =>
           hnd[h].state = "absent" /\ hnd[h].holder = NoAttachment
    BY <1>1 DEF IInv, RowsAgree
  <1>5. \A h \in 1..seq : h \in Handlings
    BY <1>1 DEF TypeOK
  <1>6. RowsAgree'
    <2>1. \A h \in Handlings :
             /\ hnd'[h].state = "absent" =>
                  hnd'[h].fence = 0 /\ hnd'[h].holder = NoAttachment /\ hnd'[h].revision = 0
             /\ h > seq + 1 => hnd'[h].state = "absent"
      BY <1>1, <1>4 DEF IInv, RowsAgree
    <2>2. \A x \in events' :
             /\ x.seq <= seq + 1
             /\ x.handling # 0 => x.handling \in 1..(seq + 1) /\ x.fence \in 1..hnd'[x.handling].fence
      BY <1>1, <1>2, <1>5 DEF IInv, RowsAgree, TypeOK, EventRow
    <2>3. \A d \in disp : d.handling <= seq + 1 /\ d.fence \in 1..hnd'[d.handling].fence
      <3>1. \A d \in disp : /\ d.handling \in Handlings /\ d.handling <= seq
                            /\ d.fence \in 1..hnd[d.handling].fence
        BY Zenon DEF IInv, RowsAgree, TypeOK, DispositionRow
      <3> QED
        BY <1>1, <3>1
    <2>4. \A v \in views :
             v.handling # 0 => v.handling \in 1..(seq + 1) /\ v.fence \in 1..hnd'[v.handling].fence
      <3>1. \A v \in views :
               v.handling # 0 => v.handling \in 1..seq /\ v.fence \in 1..hnd[v.handling].fence
        BY Zenon DEF IInv, RowsAgree
      <3> QED
        BY <1>1, <1>5, <3>1
    <2> QED
      BY <1>1, <2>1, <2>2, <2>3, <2>4, Zenon DEF RowsAgree
  <1>7. OneLiveBoundary' /\ OneClaimPerBoundary' /\ ExpirySweepFindsNothing'
    BY DEF IInv, OneLiveBoundary, OneClaimPerBoundary, ExpirySweepFindsNothing
  <1>8. ClaimsBelongToLiveBoundary'
    BY <1>4 DEF IInv, ClaimsBelongToLiveBoundary
  <1>9. ResolvedWithEveryReplySeen'
    BY <1>1, <1>2, <1>4 DEF IInv, ResolvedWithEveryReplySeen
  <1>10. HeldViewIsFresh'
    <2> SUFFICES ASSUME NEW v \in views, NEW h \in Handlings, h = v.handling,
                        hnd'[h].holder = v.att, hnd'[h].fence = v.fence
                 PROVE  hnd'[h].head = v.head /\ v.revision <= hnd'[h].revision
      BY Zenon DEF HeldViewIsFresh
    <2>1. v.att # NoAttachment /\ v.revision \in Nat
      BY Zenon DEF IInv, TypeOK, ViewRow
    <2>2. h # seq + 1 /\ hnd[h].revision \in Nat /\ hnd'[h].revision \in Nat
      BY <1>1, <1>4, <2>1, Zenon DEF HandlingRow
    <2>3. hnd[h].head = v.head /\ v.revision <= hnd[h].revision
      BY DEF IInv, HeldViewIsFresh
    <2> QED
      BY <2>1, <2>2, <2>3
  <1>11. EveryFenceEndsOnce'
    <2> SUFFICES ASSUME NEW h \in Handlings, NEW f \in 1..hnd[h].fence
                 PROVE  IF f = hnd[h].fence /\ hnd[h].holder # NoAttachment
                        THEN Endings(h, f)' = {}
                        ELSE \E x \in Endings(h, f)' : Endings(h, f)' = {x}
      BY DEF EveryFenceEndsOnce
    <2>1. Endings(h, f)' = Endings(h, f)
      BY <1>2, SMTT(30) DEF Endings, Settlements, Releases
    <2> QED
      BY <2>1 DEF IInv, EveryFenceEndsOnce
  <1> QED
    BY <1>3, <1>6, <1>7, <1>8, <1>9, <1>10, <1>11, Zenon DEF IInv

\* Opening the Handling numbered seq + 1 replaces an absent row.
LEMMA SuccessorRows ==
    ASSUME IInv, seq < MaxEvents, NEW p \in Principals, NEW self \in BOOLEAN,
           NEW rows \in [Handlings -> HandlingRow]
    PROVE  LET made == createSuccessorHandlingsTx(rows, p, self) IN
           /\ made \in [Handlings -> HandlingRow]
           /\ \A h \in Handlings : h # seq + 1 => made[h] = rows[h]
           /\ made[seq + 1] = IF self THEN NewHandling(p) ELSE rows[seq + 1]
  <1> USE AttachmentsAssumption, BoundsAssumption DEF Handlings
  <1>1. seq + 1 \in Handlings
    BY DEF IInv, TypeOK
  <1>2. NewHandling(p) \in HandlingRow
    BY DEF IInv, TypeOK, NewHandling, HandlingRow
  <1> QED
    BY <1>1, <1>2, Zenon DEF createSuccessorHandlingsTx

\* Root and peer requests open one Handling.
LEMMA OpenHandlingInv ==
    ASSUME IInv, NEW p \in Principals, InsertEvent(0, 0, 0),
           UNCHANGED <<now, att, disp, views>>,
           hnd' \in [Handlings -> HandlingRow],
           \A h \in Handlings : h # seq + 1 => hnd'[h] = hnd[h],
           hnd'[seq + 1] = NewHandling(p)
    PROVE  IInv'
  <1> USE AttachmentsAssumption, BoundsAssumption DEF Handlings
  <1>1. /\ seq < MaxEvents /\ seq \in Nat /\ hnd \in [Handlings -> HandlingRow]
        /\ seq + 1 \in Handlings
    BY DEF InsertEvent, IInv, TypeOK, Handlings
  <1>2. /\ \A h \in Handlings : h # seq + 1 => hnd'[h] = hnd[h]
        /\ hnd'[seq + 1] = NewHandling(p)
    BY Zenon
  <1>3. /\ hnd[seq + 1].fence = 0 /\ hnd[seq + 1].holder = NoAttachment
        /\ hnd[seq + 1].revision = 0
    BY <1>1 DEF IInv, RowsAgree
  <1>4. \A h \in Handlings : hnd[h].revision \in Nat
    BY <1>1, Zenon DEF HandlingRow
  <1>5. /\ NewHandling(p).state = "open" /\ NewHandling(p).fence = 0
        /\ NewHandling(p).holder = NoAttachment /\ NewHandling(p).revision = 0
    BY Zenon DEF NewHandling
  <1>6. \A h \in Handlings : h = seq + 1 =>
          /\ hnd'[h].state = "open" /\ hnd'[h].fence = hnd[h].fence
          /\ hnd'[h].holder = hnd[h].holder /\ hnd'[h].revision = hnd[h].revision
    BY <1>2, <1>3, <1>5, Zenon
  <1>7. \A h \in Handlings :
          /\ hnd'[h].fence = hnd[h].fence
          /\ hnd'[h].holder = hnd[h].holder
          /\ hnd'[h].revision >= hnd[h].revision
          /\ h # seq + 1 => /\ hnd'[h].state = hnd[h].state
                            /\ hnd'[h].owner = hnd[h].owner
                            /\ hnd'[h].head = hnd[h].head
                            /\ hnd'[h].until = hnd[h].until
          /\ hnd'[h].state # "open" => hnd'[h] = hnd[h]
    <2> TAKE h \in Handlings
    <2>1. CASE h = seq + 1
      BY <1>4, <1>6, <2>1
    <2>2. CASE h # seq + 1
      <3>1. hnd'[h] = hnd[h] /\ hnd[h].revision \in Nat
        BY <1>2, <1>4, <2>2, Zenon
      <3> QED
        BY <2>2, <3>1
    <2> QED
      BY <2>1, <2>2, Zenon
  <1> QED
    BY <1>2, <1>7, PlainEventInv, Zenon

\* A terminal reply raises the revision of an open Handling.
LEMMA PeerReplyInv ==
    ASSUME IInv, NEW h \in Handlings, AdmitPeerReply(h)
    PROVE  IInv'
  <1> USE AttachmentsAssumption, BoundsAssumption
  <1>1. /\ hnd \in [Handlings -> HandlingRow] /\ hnd[h] \in HandlingRow
        /\ seq \in Nat /\ hnd[h].revision \in Nat
    BY DEF IInv, TypeOK, HandlingRow
  <1> DEFINE r == hnd[h].revision + 1
             row == [hnd[h] EXCEPT !.revision = r]
  <1>2. r \in Nat /\ r >= hnd[h].revision
    BY <1>1
  <1>3. /\ row \in HandlingRow
        /\ row.state = hnd[h].state /\ row.owner = hnd[h].owner /\ row.head = hnd[h].head
        /\ row.fence = hnd[h].fence /\ row.holder = hnd[h].holder
        /\ row.until = hnd[h].until /\ row.revision = r
    <2> HIDE DEF r
    <2> QED
      BY <1>1, <1>2, Zenon DEF HandlingRow
  <1>4. hnd' = [hnd EXCEPT ![h] = row] /\ hnd[h].state = "open"
    BY Zenon DEF AdmitPeerReply
  <1> HIDE DEF r, row
  <1>5. hnd' \in [Handlings -> HandlingRow] /\ hnd'[h] = row
        /\ \A g \in Handlings : g # h => hnd'[g] = hnd[g]
    BY <1>1, <1>3, <1>4, Zenon
  <1>6. \A g \in Handlings :
          /\ hnd'[g].fence = hnd[g].fence
          /\ hnd'[g].holder = hnd[g].holder
          /\ hnd'[g].revision >= hnd[g].revision
          /\ g # seq + 1 => /\ hnd'[g].state = hnd[g].state
                            /\ hnd'[g].owner = hnd[g].owner
                            /\ hnd'[g].head = hnd[g].head
                            /\ hnd'[g].until = hnd[g].until
          /\ hnd'[g].state # "open" => hnd'[g] = hnd[g]
    <2> TAKE g \in Handlings
    <2>1. CASE g = h
      BY <1>2, <1>3, <1>4, <1>5, <2>1, Zenon
    <2>2. CASE g # h
      <3>1. hnd'[g] = hnd[g] /\ hnd[g].revision \in Nat
        BY <1>1, <1>5, <2>2, Zenon DEF HandlingRow
      <3> QED
        BY <3>1
    <2> QED
      BY <2>1, <2>2, Zenon
  <1>7. InsertEvent(0, 0, 0) /\ UNCHANGED <<now, att, disp, views>>
    BY Zenon DEF AdmitPeerReply
  <1> QED
    BY <1>5, <1>6, <1>7, PlainEventInv, Zenon

\* Settling a subject moves its head, ends its claim and leaves the rest.
LEMMA SettledRowFields ==
    ASSUME NEW row \in HandlingRow, NEW state \in {"open", "terminal"}, seq \in Nat
    PROVE  /\ SettledRow(row, state) \in HandlingRow
           /\ SettledRow(row, state).state = state
           /\ SettledRow(row, state).owner = row.owner
           /\ SettledRow(row, state).head = seq + 1
           /\ SettledRow(row, state).fence = row.fence
           /\ SettledRow(row, state).holder = NoAttachment
           /\ SettledRow(row, state).revision = row.revision
  <1> DEFINE e == seq + 1
             new == [row EXCEPT !.head = e, !.state = state, !.holder = NoAttachment, !.until = 0]
  <1>1. e \in Nat
    OBVIOUS
  <1>2. SettledRow(row, state) = new
    BY Zenon DEF SettledRow
  <1> HIDE DEF e
  <1>3. new \in HandlingRow
    BY <1>1, ZenonT(30) DEF HandlingRow
  <1>4. /\ new.state = state /\ new.owner = row.owner /\ new.head = e
        /\ new.fence = row.fence /\ new.holder = NoAttachment /\ new.revision = row.revision
    BY Zenon DEF HandlingRow
  <1> QED
    BY <1>2, <1>3, <1>4, Zenon DEF e

\* advance and resolve: the new Event ends exactly the fence the View was
\* granted, and a resolving Event carries the revision the row has.
LEMMA SubjectInv ==
    ASSUME IInv, NEW v \in views, NEW state \in {"open", "terminal"},
           NEW self \in BOOLEAN, NEW t, AdmitSubject(v, state, self, t)
    PROVE  IInv'
  <1> USE AttachmentsAssumption, OwnerAssumption, BoundsAssumption
  <1>1. /\ TypeOK /\ seq \in Nat /\ seq < MaxEvents /\ seq' = seq + 1
        /\ seq' \in 0..MaxEvents /\ hnd \in [Handlings -> HandlingRow]
        /\ UNCHANGED <<now, att, disp, views>>
        /\ seq + 1 \in Handlings
    BY SMTT(30) DEF IInv, TypeOK, AdmitSubject, InsertEvent, Handlings
  <1>2. PICK h \in Handlings :
          /\ h = v.handling /\ hnd[h].state = "open" /\ hnd[h].owner = Owner[v.att]
          /\ hnd[h].holder = v.att /\ hnd[h].fence = v.fence
          /\ hnd[h].revision = v.revision
    BY Zenon DEF AdmitSubject, validateBoundSubject, Open
  <1>3. /\ v \in ViewRow /\ v.att \in Attachments /\ v.att # NoAttachment
        /\ Owner[v.att] \in Principals /\ v.fence \in Nat /\ v.revision \in Nat
    BY <1>1, Zenon DEF TypeOK, ViewRow
  <1>4. h \in 1..seq /\ h # seq + 1 /\ hnd[h].fence \in 1..hnd[h].fence /\ h # 0
    BY <1>1, <1>2, <1>3, SMTT(30) DEF IInv, RowsAgree, Handlings, ClaimsBelongToLiveBoundary
  <1> DEFINE e == [seq |-> seq + 1, handling |-> h, fence |-> v.fence,
                   revision |-> v.revision]
  <1>5. /\ events' = events \cup {e} /\ e \in EventRow
        /\ e.handling = h /\ e.seq = seq + 1
        /\ e.fence = hnd[h].fence /\ e.revision = hnd[h].revision
    <2>1. events' = events \cup {e}
      BY <1>2, SMTT(30) DEF AdmitSubject, InsertEvent
    <2>2. e \in EventRow
      BY <1>1, <1>3, <1>4, SMTT(30) DEF EventRow
    <2> QED
      BY <1>2, <2>1, <2>2, SMTT(30)
  <1> HIDE DEF e
  <1> DEFINE mid == settleSubjectTx(h, state)
  <1>6. /\ mid \in [Handlings -> HandlingRow]
        /\ \A g \in Handlings : g # h => mid[g] = hnd[g]
        /\ mid[h] = SettledRow(hnd[h], state)
    BY <1>1, SettledRowFields, Zenon DEF settleSubjectTx
  <1>7. hnd' = createSuccessorHandlingsTx(mid, Owner[v.att], self)
    BY <1>2, Zenon DEF AdmitSubject
  <1> HIDE DEF mid
  <1>8. /\ hnd' \in [Handlings -> HandlingRow]
        /\ \A g \in Handlings : g # seq + 1 => hnd'[g] = mid[g]
        /\ hnd'[seq + 1] = IF self THEN NewHandling(Owner[v.att]) ELSE mid[seq + 1]
    BY <1>1, <1>3, <1>6, <1>7, SuccessorRows, SMTT(30)
  <1>9. /\ hnd'[h] \in HandlingRow
        /\ hnd'[h].state = state /\ hnd'[h].owner = hnd[h].owner
        /\ hnd'[h].head = seq + 1 /\ hnd'[h].fence = hnd[h].fence
        /\ hnd'[h].holder = NoAttachment /\ hnd'[h].revision = hnd[h].revision
    <2>1. hnd'[h] = SettledRow(hnd[h], state) /\ hnd[h] \in HandlingRow
      BY <1>1, <1>4, <1>6, <1>8, Zenon
    <2> QED
      BY <1>1, <2>1, SettledRowFields
  <1>10. \A g \in Handlings : g # h /\ g # seq + 1 => hnd'[g] = hnd[g]
    BY <1>6, <1>8, Zenon
  <1>11. \A g \in Handlings : g = seq + 1 =>
           /\ hnd[g].state = "absent" /\ hnd[g].fence = 0
           /\ hnd[g].holder = NoAttachment /\ hnd[g].revision = 0
    BY <1>1 DEF IInv, RowsAgree, Handlings
  <1>12. \A g \in Handlings : g = seq + 1 =>
           /\ hnd'[g].fence = 0 /\ hnd'[g].holder = NoAttachment
           /\ hnd'[g].revision = 0 /\ hnd'[g].state # "terminal"
    <2>1. /\ NewHandling(Owner[v.att]).state = "open" /\ NewHandling(Owner[v.att]).fence = 0
          /\ NewHandling(Owner[v.att]).holder = NoAttachment
          /\ NewHandling(Owner[v.att]).revision = 0
      BY Zenon DEF NewHandling
    <2>2. CASE self = TRUE
      BY <1>8, <2>1, <2>2, Zenon
    <2>3. CASE self = FALSE
      BY <1>1, <1>4, <1>6, <1>8, <1>11, <2>3, SMTT(30)
    <2> QED
      BY <2>2, <2>3, ZenonT(30)
  <1>13. \A g \in Handlings :
           /\ hnd[g].fence \in Nat /\ hnd'[g].fence = hnd[g].fence
           /\ hnd'[g].holder = IF g = h THEN NoAttachment ELSE hnd[g].holder
           /\ hnd'[g].revision = hnd[g].revision
           /\ hnd'[g].holder # NoAttachment => hnd'[g] = hnd[g]
    <2> TAKE g \in Handlings
    <2>1. hnd[g].fence \in Nat
      BY <1>1, Zenon DEF HandlingRow
    <2>2. CASE g = h
      BY <1>9, <2>1, <2>2, Zenon
    <2>3. CASE g = seq + 1
      BY <1>4, <1>11, <1>12, <2>1, <2>3, Zenon
    <2>4. CASE g # h /\ g # seq + 1
      BY <1>10, <2>1, <2>4, Zenon
    <2> QED
      BY <2>2, <2>3, <2>4, SMTT(30)
  <1>14. TypeOK'
    BY <1>1, <1>5, <1>8, Zenon DEF TypeOK
  <1>15. \A g \in 1..seq : g \in Handlings
    BY <1>1 DEF Handlings
  <1>16. RowsAgree'
    <2>1. \A g \in Handlings :
             /\ hnd'[g].state = "absent" =>
                  hnd'[g].fence = 0 /\ hnd'[g].holder = NoAttachment /\ hnd'[g].revision = 0
             /\ g > seq + 1 => hnd'[g].state = "absent"
      <3> TAKE g \in Handlings
      <3>1. CASE g = h
        BY <1>1, <1>4, <1>9, <3>1
      <3>2. CASE g = seq + 1
        BY <1>1, <1>12, <3>2
      <3>3. CASE g # h /\ g # seq + 1
        <4>1. hnd'[g] = hnd[g] /\ g \in Int
          BY <1>10, <3>3, SMTT(30) DEF Handlings
        <4> QED
          BY <1>1, <4>1 DEF IInv, RowsAgree
      <3> QED
        BY <3>1, <3>2, <3>3, Zenon
    <2>2. \A x \in events' :
             /\ x.seq <= seq + 1
             /\ x.handling # 0 => x.handling \in 1..(seq + 1) /\ x.fence \in 1..hnd'[x.handling].fence
      <3>1. \A x \in events :
               /\ x.seq \in Nat /\ x.seq <= seq
               /\ x.handling # 0 => x.handling \in 1..seq /\ x.fence \in 1..hnd[x.handling].fence
        BY Zenon DEF IInv, RowsAgree, TypeOK, EventRow
      <3>2. \A x \in events :
             /\ x.seq <= seq + 1
             /\ x.handling # 0 => x.handling \in 1..(seq + 1) /\ x.fence \in 1..hnd'[x.handling].fence
        <4> SUFFICES ASSUME NEW x \in events
                     PROVE  /\ x.seq <= seq + 1
                            /\ x.handling # 0 => /\ x.handling \in 1..(seq + 1)
                                                 /\ x.fence \in 1..hnd'[x.handling].fence
          BY Zenon
        <4>1. x.seq <= seq + 1
          BY <1>1, <3>1
        <4>2. CASE x.handling # 0
          BY <1>1, <1>13, <1>15, <3>1, <4>1, <4>2
        <4> QED
          BY <4>1, <4>2, Zenon
      <3>3. e.handling \in 1..(seq + 1) /\ e.fence \in 1..hnd'[e.handling].fence /\ e.seq <= seq + 1
        BY <1>1, <1>4, <1>5, <1>13
      <3> QED
        BY <1>5, <3>2, <3>3, Zenon
    <2>3. \A d \in disp : d.handling <= seq + 1 /\ d.fence \in 1..hnd'[d.handling].fence
      <3>1. \A d \in disp : /\ d.handling \in Handlings /\ d.handling <= seq /\ d.handling \in Nat
                            /\ d.fence \in 1..hnd[d.handling].fence
        BY DEF IInv, RowsAgree, TypeOK, DispositionRow, Handlings
      <3> QED
        BY <1>1, <1>13, <3>1
    <2>4. \A w \in views :
             w.handling # 0 => w.handling \in 1..(seq + 1) /\ w.fence \in 1..hnd'[w.handling].fence
      <3>1. \A w \in views :
               w.handling # 0 => w.handling \in 1..seq /\ w.fence \in 1..hnd[w.handling].fence
        BY Zenon DEF IInv, RowsAgree
      <3> QED
        BY <1>1, <1>13, <1>15, <3>1
    <2> QED
      BY <1>1, <2>1, <2>2, <2>3, <2>4, Zenon DEF RowsAgree
  <1>17. OneLiveBoundary' /\ ExpirySweepFindsNothing'
    BY <1>1, Zenon DEF IInv, OneLiveBoundary, ExpirySweepFindsNothing
  <1>18. ClaimsBelongToLiveBoundary'
    BY <1>1, <1>13 DEF IInv, ClaimsBelongToLiveBoundary
  <1>19. OneClaimPerBoundary'
    <2> SUFFICES ASSUME NEW g \in Handlings, NEW i \in Handlings,
                        hnd'[g].holder # NoAttachment, hnd'[g].holder = hnd'[i].holder
                 PROVE  g = i
      BY Zenon DEF OneClaimPerBoundary
    <2>1. hnd'[g] = hnd[g] /\ hnd'[i] = hnd[i]
      BY <1>13, Zenon
    <2>2. OneClaimPerBoundary
      BY Zenon DEF IInv
    <2> QED
      BY <2>1, <2>2, Zenon DEF OneClaimPerBoundary
  <1>20. HeldViewIsFresh'
    <2> SUFFICES ASSUME NEW w \in views, NEW g \in Handlings, g = w.handling,
                        hnd'[g].holder = w.att, hnd'[g].fence = w.fence
                 PROVE  hnd'[g].head = w.head /\ w.revision <= hnd'[g].revision
      BY <1>1, Zenon DEF HeldViewIsFresh
    <2>1. w.att # NoAttachment
      BY <1>1, SMTT(30) DEF TypeOK, ViewRow
    <2>2. hnd'[g] = hnd[g]
      BY <1>13, <2>1, Zenon
    <2> QED
      BY <2>2 DEF IInv, HeldViewIsFresh
  <1>21. ResolvedWithEveryReplySeen'
    <2> SUFFICES ASSUME NEW g \in Handlings, hnd'[g].state = "terminal"
                 PROVE  \E x \in events' : /\ x.seq = hnd'[g].head /\ x.handling = g
                                           /\ x.fence = hnd'[g].fence
                                           /\ x.revision = hnd'[g].revision
      BY Zenon DEF ResolvedWithEveryReplySeen
    <2>1. CASE g = h
      BY <1>5, <1>9, <2>1, Zenon
    <2>2. CASE g # h
      <3>1. g # seq + 1
        BY <1>12, Zenon
      <3>2. hnd'[g] = hnd[g]
        BY <1>10, <2>2, <3>1, SMTT(30)
      <3> QED
        BY <1>5, <3>2 DEF IInv, ResolvedWithEveryReplySeen
    <2> QED
      BY <2>1, <2>2, Zenon
  <1>22. EveryFenceEndsOnce'
    <2> SUFFICES ASSUME NEW g \in Handlings, NEW f \in 1..hnd[g].fence
                 PROVE  IF f = hnd[g].fence /\ hnd'[g].holder # NoAttachment
                        THEN Endings(g, f)' = {}
                        ELSE \E x \in Endings(g, f)' : Endings(g, f)' = {x}
      BY <1>13 DEF EveryFenceEndsOnce
    <2>1. IF f = hnd[g].fence /\ hnd[g].holder # NoAttachment
          THEN Endings(g, f) = {}
          ELSE \E x \in Endings(g, f) : Endings(g, f) = {x}
      BY SMTT(30) DEF IInv, EveryFenceEndsOnce
    <2>2. CASE g = h /\ f = hnd[h].fence
      <3>1. Endings(h, f) = {}
        BY <1>2, <1>3, <2>1, <2>2, Zenon
      <3>2. Endings(h, f)' = {e}
        BY <1>1, <1>5, <2>2, <3>1, SMTT(30) DEF Endings, Settlements, Releases
      <3> QED
        BY <1>13, <2>2, <3>2, SMTT(30)
    <2>3. CASE ~(g = h /\ f = hnd[h].fence)
      <3>1. Endings(g, f)' = Endings(g, f)
        BY <1>1, <1>5, <2>3, Zenon DEF Endings, Settlements, Releases
      <3> QED
        BY <1>13, <2>1, <2>3, <3>1, Zenon
    <2> QED
      BY <2>2, <2>3, Zenon
  <1> QED
    BY <1>14, <1>16, <1>17, <1>18, <1>19, <1>20, <1>21, <1>22, Zenon DEF IInv

-----------------------------------------------------------------------------
\* The clock moves and nothing else.
LEMMA UnchangedTablesInv ==
    ASSUME IInv, now' \in 0..MaxTime, UNCHANGED <<att, seq, hnd, events, disp, views>>
    PROVE  IInv'
  <1>1. TypeOK' /\ RowsAgree' /\ OneLiveBoundary' /\ ClaimsBelongToLiveBoundary'
    <2>1. TypeOK'
      BY Zenon DEF IInv, TypeOK
    <2>2. RowsAgree'
      BY Zenon DEF IInv, RowsAgree
    <2>3. OneLiveBoundary' /\ ClaimsBelongToLiveBoundary'
      BY Zenon DEF IInv, OneLiveBoundary, ClaimsBelongToLiveBoundary
    <2> QED
      BY <2>1, <2>2, <2>3, Zenon
  <1>2. OneClaimPerBoundary' /\ ExpirySweepFindsNothing'
    BY Zenon DEF IInv, OneClaimPerBoundary, ExpirySweepFindsNothing
  <1>4. EveryFenceEndsOnce'
    <2>1. \A h, f : Endings(h, f)' = Endings(h, f)
      BY Zenon DEF Endings, Settlements, Releases
    <2> QED
      BY <2>1, Zenon DEF IInv, EveryFenceEndsOnce
  <1>3. ResolvedWithEveryReplySeen' /\ HeldViewIsFresh'
    BY Zenon DEF IInv, ResolvedWithEveryReplySeen, HeldViewIsFresh
  <1> QED
    BY <1>1, <1>2, <1>3, <1>4, Zenon DEF IInv

\* Every step of the authority preserves the invariant.
LEMMA NextInv == IInv /\ [Next]_vars => IInv'
  <1> SUFFICES ASSUME IInv, [Next]_vars PROVE IInv'
    BY Zenon
  <1> USE OwnerAssumption, BoundsAssumption
  <1>1. CASE Tick
    <2>1. now' \in 0..MaxTime /\ UNCHANGED <<att, seq, hnd, events, disp, views>>
      BY <1>1 DEF Tick, IInv, TypeOK
    <2> QED
      BY <2>1, UnchangedTablesInv, Zenon
  <1>2. ASSUME NEW a \in Attachments, IssueInteractiveAttachment(a) PROVE IInv'
    BY <1>2, IssueInv, Zenon
  <1>3. ASSUME NEW a \in Attachments, EndInteractiveAttachment(a) PROVE IInv'
    BY <1>3, EndInv, Zenon
  <1>4. ASSUME NEW a \in Attachments, NEW k \in CurrentOps, Current(a, k) PROVE IInv'
    BY <1>4, CurrentInv, Zenon
  <1>5. ASSUME NEW v \in views, NEW t \in Readings(v.att), NEW state \in {"open", "terminal"},
               NEW self \in BOOLEAN, AdmitSubject(v, state, self, t)
        PROVE  IInv'
    BY <1>5, SubjectInv, Zenon
  <1>6. ASSUME NEW p \in Principals, InsertEvent(0, 0, 0), UNCHANGED <<now, att, disp, views>>,
               hnd' = createSuccessorHandlingsTx(hnd, p, TRUE)
        PROVE  IInv'
    <2>1. seq < MaxEvents /\ hnd \in [Handlings -> HandlingRow]
      BY <1>6, Zenon DEF InsertEvent, IInv, TypeOK
    <2>2. LET made == createSuccessorHandlingsTx(hnd, p, TRUE) IN
          /\ made \in [Handlings -> HandlingRow]
          /\ \A h \in Handlings : h # seq + 1 => made[h] = hnd[h]
          /\ made[seq + 1] = IF TRUE THEN NewHandling(p) ELSE hnd[seq + 1]
      BY <2>1, SuccessorRows, Zenon
    <2>3. /\ hnd' \in [Handlings -> HandlingRow]
          /\ \A h \in Handlings : h # seq + 1 => hnd'[h] = hnd[h]
          /\ hnd'[seq + 1] = NewHandling(p)
      BY <1>6, <2>2, Zenon
    <2> QED
      BY <1>6, <2>3, OpenHandlingInv, Zenon
  <1>7. ASSUME NEW v \in views, NEW t \in Readings(v.att), AdmitRoot(v, t) PROVE IInv'
    <2>1. Owner[v.att] \in Principals
      BY Zenon DEF IInv, TypeOK, ViewRow
    <2> QED
      BY <1>6, <1>7, <2>1, Zenon DEF AdmitRoot
  <1>8. ASSUME NEW v \in views, NEW t \in Readings(v.att), AdmitReference(v, t) PROVE IInv'
    <2>1. /\ InsertEvent(0, 0, 0) /\ UNCHANGED <<now, att, disp, views>> /\ hnd' = hnd
          /\ hnd \in [Handlings -> HandlingRow]
      BY <1>8, Zenon DEF AdmitReference, IInv, TypeOK
    <2>2. \A h \in Handlings : hnd[h].revision \in Nat
      BY <2>1, Zenon DEF HandlingRow
    <2>3. \A h \in Handlings : hnd'[h] = hnd[h] /\ hnd'[h].revision >= hnd[h].revision
      BY <2>1, <2>2
    <2> QED
      BY <2>1, <2>3, PlainEventInv, Zenon
  <1>9. ASSUME NEW p \in Principals, AdmitPeerRequest(p) PROVE IInv'
    BY <1>6, <1>9, ZenonT(30) DEF AdmitPeerRequest
  <1>10. ASSUME NEW h \in Handlings, AdmitPeerReply(h) PROVE IInv'
    BY <1>10, PeerReplyInv, Zenon
  <1>11. CASE UNCHANGED vars
    <2>1. now' \in 0..MaxTime /\ UNCHANGED <<att, seq, hnd, events, disp, views>>
      BY <1>11, SMTT(30) DEF vars, IInv, TypeOK
    <2> QED
      BY <2>1, UnchangedTablesInv, Zenon
  <1> QED
    BY <1>1, <1>2, <1>3, <1>4, <1>5, <1>7, <1>8, <1>9, <1>10, <1>11, Zenon DEF Next

-----------------------------------------------------------------------------
(* What one step may do to a row, for the action properties. *)

RowStep(h) ==
    /\ hnd[h].state = "terminal" => hnd'[h] = hnd[h]
    /\ hnd'[h].fence \in {hnd[h].fence, hnd[h].fence + 1}
    /\ hnd'[h].revision >= hnd[h].revision

\* The only step that raises a fence is a claim of the least attended Handling.
FenceStep(h) ==
    hnd'[h].fence > hnd[h].fence =>
        \A g \in Handlings :
            hnd[g].state = "open" /\ hnd[g].owner = hnd[h].owner => hnd[h].fence <= hnd[g].fence

\* A row that keeps its fence takes such a step.
LEMMA KeptFenceStep ==
    ASSUME IInv, NEW h \in Handlings, hnd'[h].fence = hnd[h].fence
    PROVE  FenceStep(h) /\ hnd[h].fence \in Nat /\ hnd[h].revision \in Nat
  BY SMTT(30) DEF IInv, TypeOK, HandlingRow, FenceStep

\* Releasing claims touches the claim columns of claimed, hence open, rows only.
LEMMA ReleaseStep ==
    ASSUME IInv, NEW B \in SUBSET Attachments, ReleaseClaims(B), NEW h \in Handlings
    PROVE  RowStep(h) /\ FenceStep(h) /\ disp \subseteq disp'
  <1> USE AttachmentsAssumption
  <1>1. hnd[h] \in HandlingRow
    BY SMTT(30) DEF IInv, TypeOK
  <1>2. hnd'[h] = IF hnd[h].holder \in B THEN Unclaimed(hnd[h]) ELSE hnd[h]
    BY Zenon DEF ReleaseClaims
  <1>3. hnd'[h].fence = hnd[h].fence /\ hnd'[h].revision = hnd[h].revision
    BY <1>1, <1>2, UnclaimedRow, Zenon
  <1>4. hnd[h].state = "terminal" => hnd'[h] = hnd[h]
    BY <1>2, SMTT(30) DEF IInv, ClaimsBelongToLiveBoundary
  <1>5. disp \subseteq disp'
    BY Zenon DEF ReleaseClaims
  <1>6. FenceStep(h) /\ hnd[h].fence \in Nat /\ hnd[h].revision \in Nat
    BY <1>3, KeptFenceStep, Zenon
  <1> QED
    BY <1>3, <1>4, <1>5, <1>6, SMTT(30) DEF RowStep

\* Current grants at most the least attended Handling of the Principal.
LEMMA CurrentStep ==
    ASSUME IInv, NEW a \in Attachments, NEW k \in CurrentOps, Current(a, k), NEW h \in Handlings
    PROVE  RowStep(h) /\ FenceStep(h) /\ disp \subseteq disp' /\ views \subseteq views'
  <1> USE AttachmentsAssumption, OwnerAssumption, BoundsAssumption
  <1>1. PICK t \in Readings(a) :
          /\ requireLiveAttachment(a, t)
          /\ disp' = disp \cup ExpiryDispositions(Owner[a], t)
          /\ views \subseteq views'
          /\ \/ hnd' = settleExpiredClaimsTx(Owner[a], t)
             \/ /\ existingClaimTx(a, settleExpiredClaimsTx(Owner[a], t)) = {}
                /\ \E g \in LeastAttended(settleExpiredClaimsTx(Owner[a], t), Owner[a]) :
                     hnd' = claimNextTx(a, settleExpiredClaimsTx(Owner[a], t), g)
    BY Zenon DEF Current
  <1>2. settleExpiredClaimsTx(Owner[a], t) = hnd
    BY <1>1, SweepIsEmpty, Zenon
  <1>3. hnd[h] \in HandlingRow /\ hnd[h].fence \in Nat /\ hnd[h].revision \in Nat
    BY Zenon DEF IInv, TypeOK, HandlingRow
  <1>4. ASSUME hnd' = hnd PROVE RowStep(h) /\ FenceStep(h)
    <2>1. FenceStep(h)
      BY <1>4, KeptFenceStep, Zenon
    <2>2. RowStep(h)
      <3>1. hnd'[h] = hnd[h] /\ hnd[h].fence \in Nat /\ hnd[h].revision \in Nat
        BY <1>3, <1>4, Zenon
      <3>2. hnd[h].revision >= hnd[h].revision
        BY <3>1
      <3> QED
        BY <3>1, <3>2, Zenon DEF RowStep
    <2> QED
      BY <2>1, <2>2, Zenon
  <1>5. ASSUME existingClaimTx(a, hnd) = {}, NEW g \in LeastAttended(hnd, Owner[a]),
               hnd' = claimNextTx(a, hnd, g)
        PROVE  RowStep(h) /\ FenceStep(h)
    <2>1. /\ g \in Handlings /\ hnd[g].state = "open" /\ hnd[g].owner = Owner[a]
          /\ hnd[g] \in HandlingRow /\ hnd[g].fence \in Nat /\ hnd[g].revision \in Nat
      BY <1>5, Zenon DEF LeastAttended, Claimable, Open, IInv, TypeOK, HandlingRow
    <2>2. hnd'[h] = IF h = g THEN ClaimedRow(hnd[g], a) ELSE hnd[h]
      BY <1>5, <2>1, Zenon DEF claimNextTx, IInv, TypeOK
    <2>3. CASE h # g
      <3>1. hnd'[h] = hnd[h]
        BY <2>2, <2>3, Zenon
      <3>2. FenceStep(h)
        BY <3>1, KeptFenceStep, Zenon
      <3>3. RowStep(h)
        BY <1>3, <3>1 DEF RowStep
      <3> QED
        BY <3>2, <3>3, Zenon
    <2>4. CASE h = g
      <3>1. att[a].expires \in Nat
        BY SMTT(30) DEF IInv, TypeOK, AttachmentRow
      <3>2. hnd'[g].fence = hnd[g].fence + 1 /\ hnd'[g].revision = hnd[g].revision
        <4>1. hnd'[g] = ClaimedRow(hnd[g], a)
          BY <2>2, <2>4, Zenon
        <4> QED
          BY <2>1, <3>1, <4>1, ClaimedRowFields, SMTT(30)
      <3>3. ASSUME NEW x \in Handlings, hnd[x].state = "open", hnd[x].owner = Owner[a]
            PROVE  hnd[x].holder = NoAttachment
        <4>1. hnd[x].holder # a
          BY <1>5, <3>3, SMTT(30) DEF existingClaimTx, Open
        <4>2. att[a].state = "live"
          BY <1>1, Zenon DEF requireLiveAttachment
        <4>3. hnd[x].holder \in Attachments \cup {NoAttachment}
          BY <3>3, Zenon DEF IInv, TypeOK, HandlingRow
        <4>4. ASSUME NEW b \in Attachments, b = hnd[x].holder PROVE b = a
          <5>1. att[b].state = "live" /\ Owner[b] = Owner[a]
            BY <3>3, <4>4, SMTT(30) DEF IInv, ClaimsBelongToLiveBoundary
          <5> QED
            BY <4>2, <5>1, SMTT(30) DEF IInv, OneLiveBoundary
        <4> QED
          BY <4>1, <4>3, <4>4, Zenon
      <3>4. ASSUME NEW x \in Handlings, hnd[x].state = "open", hnd[x].owner = Owner[a]
            PROVE  hnd[g].fence <= hnd[x].fence
        <4>1. x \in Claimable(hnd, Owner[a]) /\ hnd[x].fence \in Nat
          BY <3>3, <3>4, Zenon DEF Claimable, Open, IInv, TypeOK, HandlingRow
        <4>2. hnd[g].fence < hnd[x].fence \/ hnd[g].fence = hnd[x].fence
          BY <1>5, <4>1, Zenon DEF LeastAttended
        <4> QED
          BY <2>1, <4>1, <4>2, SMTT(30)
      <3> QED
        <4>1. RowStep(h)
          BY <2>1, <2>4, <3>2 DEF RowStep
        <4>2. FenceStep(h)
          BY <2>1, <2>4, <3>4, Zenon DEF FenceStep
        <4> QED
          BY <4>1, <4>2, SMTT(30)
    <2> QED
      BY <2>3, <2>4, Zenon
  <1>6. disp \subseteq disp' /\ views \subseteq views'
    BY <1>1, Zenon
  <1> QED
    BY <1>1, <1>2, <1>4, <1>5, <1>6, Zenon

\* An admission settles at most its own open subject, and creates a Handling
\* only where there was none.
LEMMA AdmissionStep ==
    ASSUME IInv, NEW rows \in [Handlings -> HandlingRow], seq < MaxEvents,
           NEW p \in Principals, NEW self \in BOOLEAN, NEW h \in Handlings,
           hnd' = createSuccessorHandlingsTx(rows, p, self),
           rows[h].fence = hnd[h].fence, rows[h].revision = hnd[h].revision,
           hnd[h].state # "open" => rows[h] = hnd[h]
    PROVE  RowStep(h) /\ FenceStep(h)
  <1> USE BoundsAssumption
  <1>1. /\ \A g \in Handlings : g # seq + 1 => hnd'[g] = rows[g]
        /\ hnd'[seq + 1] = IF self THEN NewHandling(p) ELSE rows[seq + 1]
    BY SuccessorRows
  <1>2. hnd[h].fence \in Nat /\ hnd[h].revision \in Nat /\ seq \in Nat
    BY SMTT(30) DEF IInv, TypeOK, HandlingRow
  <1>3. CASE h = seq + 1
    <2>1. hnd[h].state = "absent" /\ hnd[h].fence = 0 /\ hnd[h].revision = 0
      BY <1>2, <1>3, SMTT(30) DEF IInv, RowsAgree, Handlings
    <2>2. hnd'[h].fence = 0 /\ hnd'[h].revision = 0
      BY <1>1, <1>3, <2>1, SMTT(30) DEF NewHandling
    <2>3. FenceStep(h)
      BY <2>1, <2>2, KeptFenceStep, SMTT(30)
    <2> QED
      BY <2>1, <2>2, <2>3, SMTT(30) DEF RowStep
  <1>4. CASE h # seq + 1
    <2>1. hnd'[h] = rows[h]
      BY <1>1, <1>4, Zenon
    <2>2. FenceStep(h)
      BY <2>1, KeptFenceStep, SMTT(30)
    <2> QED
      BY <1>2, <2>1, <2>2, SMTT(30) DEF RowStep
  <1> QED
    BY <1>3, <1>4, Zenon

\* Every step of the authority.
LEMMA NextStep ==
    ASSUME IInv, [Next]_vars
    PROVE  /\ \A h \in Handlings : RowStep(h) /\ FenceStep(h)
           /\ events \subseteq events' /\ disp \subseteq disp' /\ views \subseteq views'
  <1> USE OwnerAssumption, BoundsAssumption
  <1>1. \A h \in Handlings : /\ hnd[h].fence \in Nat /\ hnd[h].revision \in Nat
                             /\ hnd[h] \in HandlingRow
    BY Zenon DEF IInv, TypeOK, HandlingRow
  <1>2. CASE UNCHANGED <<hnd, disp, views>> /\ events \subseteq events'
    <2>1. \A h \in Handlings : FenceStep(h)
      BY <1>2, KeptFenceStep, Zenon
    <2>2. \A h \in Handlings : RowStep(h)
      BY <1>1, <1>2 DEF RowStep
    <2> QED
      BY <1>2, <2>1, <2>2, Zenon
  <1>3. ASSUME NEW B \in SUBSET Attachments, ReleaseClaims(B), UNCHANGED <<events, views>>
        PROVE  /\ \A h \in Handlings : RowStep(h) /\ FenceStep(h)
               /\ events \subseteq events' /\ disp \subseteq disp' /\ views \subseteq views'
    <2>1. disp \subseteq disp'
      BY <1>3, Zenon DEF ReleaseClaims
    <2> QED
      BY <1>3, <2>1, ReleaseStep, Zenon
  <1>4. ASSUME NEW a \in Attachments, NEW k \in CurrentOps, Current(a, k)
        PROVE  /\ \A h \in Handlings : RowStep(h) /\ FenceStep(h)
               /\ events \subseteq events' /\ disp \subseteq disp' /\ views \subseteq views'
    <2>1. events \subseteq events' /\ disp \subseteq disp' /\ views \subseteq views'
      BY <1>4, Zenon DEF Current
    <2> QED
      BY <1>4, <2>1, CurrentStep, SMTT(30)
  <1>5. ASSUME NEW v \in views, NEW state \in {"open", "terminal"}, NEW self \in BOOLEAN,
               NEW t, AdmitSubject(v, state, self, t)
        PROVE  /\ \A h \in Handlings : RowStep(h) /\ FenceStep(h)
               /\ events \subseteq events' /\ disp \subseteq disp' /\ views \subseteq views'
    <2>1. /\ hnd \in [Handlings -> HandlingRow] /\ seq \in Nat /\ seq < MaxEvents
          /\ Owner[v.att] \in Principals
      BY <1>5 DEF IInv, TypeOK, ViewRow, AdmitSubject, InsertEvent
    <2>2. v.handling \in Handlings /\ hnd[v.handling].state = "open"
      BY <1>5, ZenonT(30) DEF AdmitSubject, validateBoundSubject, Open
    <2> DEFINE mid == settleSubjectTx(v.handling, state)
    <2>3. /\ mid \in [Handlings -> HandlingRow]
          /\ \A g \in Handlings : g # v.handling => mid[g] = hnd[g]
          /\ mid[v.handling] = SettledRow(hnd[v.handling], state)
      BY <2>1, <2>2, SettledRowFields, Zenon DEF settleSubjectTx
    <2>4. hnd' = createSuccessorHandlingsTx(mid, Owner[v.att], self)
      BY <1>5, Zenon DEF AdmitSubject
    <2> HIDE DEF mid
    <2>5. \A h \in Handlings : /\ mid[h].fence = hnd[h].fence
                               /\ mid[h].revision = hnd[h].revision
                               /\ hnd[h].state # "open" => mid[h] = hnd[h]
      BY <1>1, <2>1, <2>2, <2>3, SettledRowFields
    <2>6. events \subseteq events' /\ disp \subseteq disp' /\ views \subseteq views'
      BY <1>5, Zenon DEF AdmitSubject, InsertEvent
    <2> QED
      BY <2>1, <2>3, <2>4, <2>5, <2>6, AdmissionStep, SMTT(30)
  <1>6. ASSUME NEW p \in Principals, InsertEvent(0, 0, 0), UNCHANGED <<disp, views>>,
               hnd' = createSuccessorHandlingsTx(hnd, p, TRUE)
        PROVE  /\ \A h \in Handlings : RowStep(h) /\ FenceStep(h)
               /\ events \subseteq events' /\ disp \subseteq disp' /\ views \subseteq views'
    <2>1. hnd \in [Handlings -> HandlingRow] /\ seq < MaxEvents /\ events \subseteq events'
      BY <1>6, Zenon DEF IInv, TypeOK, InsertEvent
    <2>2. \A h \in Handlings : RowStep(h) /\ FenceStep(h)
      BY <1>6, <2>1, AdmissionStep, Zenon
    <2> QED
      BY <1>6, <2>1, <2>2, Zenon
  <1>7. ASSUME NEW g \in Handlings, AdmitPeerReply(g)
        PROVE  /\ \A h \in Handlings : RowStep(h) /\ FenceStep(h)
               /\ events \subseteq events' /\ disp \subseteq disp' /\ views \subseteq views'
    <2> DEFINE r == hnd[g].revision + 1
    <2>1. r \in Nat /\ r >= hnd[g].revision
      BY <1>1
    <2>2. /\ hnd' = [hnd EXCEPT ![g] = [hnd[g] EXCEPT !.revision = r]]
          /\ hnd[g].state = "open" /\ events \subseteq events'
          /\ UNCHANGED <<disp, views>>
      BY <1>7, Zenon DEF AdmitPeerReply, InsertEvent
    <2> HIDE DEF r
    <2>3. \A h \in Handlings : /\ hnd'[h].fence = hnd[h].fence
                               /\ hnd'[h].revision >= hnd[h].revision
                               /\ hnd[h].state # "open" => hnd'[h] = hnd[h]
      BY <1>1, <2>1, <2>2 DEF IInv, TypeOK, HandlingRow
    <2>4. \A h \in Handlings : FenceStep(h)
      BY <2>3, KeptFenceStep, SMTT(30)
    <2>5. \A h \in Handlings : RowStep(h)
      BY <1>1, <2>3, Zenon DEF RowStep
    <2> QED
      BY <2>2, <2>4, <2>5, Zenon
  <1>8. ASSUME NEW v \in views, NEW t, AdmitRoot(v, t)
        PROVE  /\ \A h \in Handlings : RowStep(h) /\ FenceStep(h)
               /\ events \subseteq events' /\ disp \subseteq disp' /\ views \subseteq views'
    <2>1. Owner[v.att] \in Principals
      BY Zenon DEF IInv, TypeOK, ViewRow
    <2> QED
      BY <1>6, <1>8, <2>1, Zenon DEF AdmitRoot
  <1>9. ASSUME NEW a \in Attachments, IssueInteractiveAttachment(a)
        PROVE  \E B \in SUBSET Attachments : ReleaseClaims(B) /\ UNCHANGED <<events, views>>
    BY <1>9, Zenon DEF IssueInteractiveAttachment, Predecessors
  <1>10. ASSUME NEW a \in Attachments, EndInteractiveAttachment(a)
         PROVE  \E B \in SUBSET Attachments : ReleaseClaims(B) /\ UNCHANGED <<events, views>>
    BY <1>10, Zenon DEF EndInteractiveAttachment
  <1>11. ASSUME NEW p \in Principals, AdmitPeerRequest(p)
         PROVE  /\ \A h \in Handlings : RowStep(h) /\ FenceStep(h)
                /\ events \subseteq events' /\ disp \subseteq disp' /\ views \subseteq views'
    BY <1>6, <1>11, ZenonT(30) DEF AdmitPeerRequest
  <1>12. ASSUME Tick \/ UNCHANGED vars
         PROVE  UNCHANGED <<hnd, disp, views>> /\ events \subseteq events'
    BY <1>12, Zenon DEF Tick, vars
  <1>13. CASE \E a \in Attachments :
                \/ IssueInteractiveAttachment(a)
                \/ EndInteractiveAttachment(a)
                \/ \E k \in CurrentOps : Current(a, k)
    BY <1>3, <1>4, <1>9, <1>10, <1>13, Zenon
  <1>14. CASE \E v \in views : \E t \in Readings(v.att) :
                \/ \E state \in {"open", "terminal"}, self \in BOOLEAN :
                     AdmitSubject(v, state, self, t)
                \/ AdmitRoot(v, t)
                \/ AdmitReference(v, t)
    <2>1. ASSUME NEW v \in views, NEW t \in Readings(v.att), AdmitReference(v, t)
          PROVE  UNCHANGED <<hnd, disp, views>> /\ events \subseteq events'
      BY <2>1, Zenon DEF AdmitReference, InsertEvent
    <2> QED
      BY <1>2, <1>5, <1>8, <1>14, <2>1, Zenon
  <1> QED
    BY <1>2, <1>7, <1>11, <1>12, <1>13, <1>14, Zenon DEF Next

-----------------------------------------------------------------------------
(* The theorems. *)

\* The invariant holds in every reachable state of the authority.
THEOREM Invariance == Spec => []IInv
  BY InitInv, NextInv, PTL DEF Spec

\* Every table of the store keeps rows of its type.
THEOREM TypeCorrect == Spec => []TypeOK
  BY Invariance, PTL DEF IInv

\* Each fence a claim was granted under (claimNextTx) is spent by exactly one
\* settlement (settleSubjectTx) or one disposition (insertClaimExpiryTx,
\* settleClaimBoundaryEndTx), unless it is the claim occupied now.
THEOREM FencesEndOnce == Spec => []EveryFenceEndsOnce
  BY Invariance, PTL DEF IInv

\* Issue, replacement and end keep one boundary per Principal (the unique index
\* on live attachments), and claims only in its hands, one at most.
THEOREM ClaimOccupancy == Spec => []OccupancyIsExclusive
  <1>1. IInv => OccupancyIsExclusive
    BY Zenon DEF IInv, OccupancyIsExclusive
  <1> QED BY <1>1, Invariance, PTL

\* The sweep at the head of Current (settleExpiredClaimsTx) never settles a
\* claim: replacing and ending boundaries always comes first.
THEOREM NoExpiryDisposition == Spec => []ExpirySweepFindsNothing
  BY Invariance, PTL DEF IInv

\* A resolving Event was bound to a View that had seen every accepted reply
\* (validateBoundSubject), and no reply is accepted after it.
THEOREM RepliesSeenBeforeResolution == Spec => []ResolvedWithEveryReplySeen
  BY Invariance, PTL DEF IInv

\* As long as the boundary of a View holds the View's fence, the subject's head
\* is the one the View froze.
THEOREM FenceProtectsHead == Spec => []HeldViewIsFresh
  BY Invariance, PTL DEF IInv

\* Terminal Handlings, fences, revisions, Events, dispositions and Views are
\* never rewritten by any transaction.
THEOREM AppendOnly == Spec => NothingIsRewritten
  <1>1. IInv /\ [Next]_vars =>
          [/\ \A h \in Handlings :
                /\ hnd[h].state = "terminal" => hnd'[h] = hnd[h]
                /\ hnd'[h].fence \in {hnd[h].fence, hnd[h].fence + 1}
                /\ hnd'[h].revision >= hnd[h].revision
           /\ events \subseteq events' /\ disp \subseteq disp' /\ views \subseteq views']_vars
    BY NextStep, Zenon DEF RowStep
  <1> QED
    BY <1>1, Invariance, PTL DEF Spec, NothingIsRewritten

\* claimNextTx never grants a further fence while an open Handling of the same
\* Principal, claimed or not, has a lower one.
THEOREM FairAttention == Spec => LeastAttendedFirst
  <1>1. IInv /\ [Next]_vars =>
          [\A g, h \in Handlings :
              /\ hnd'[h].fence > hnd[h].fence
              /\ hnd[g].state = "open"
              /\ hnd[g].owner = hnd[h].owner
              => hnd[h].fence <= hnd[g].fence]_vars
    BY NextStep, Zenon DEF FenceStep
  <1> QED
    BY <1>1, Invariance, PTL DEF Spec, LeastAttendedFirst
=============================================================================
