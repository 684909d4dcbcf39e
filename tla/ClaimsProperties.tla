--------------------------- MODULE ClaimsProperties ---------------------------
(***************************************************************************)
(* What the attachment and claim tables promise.                           *)
(***************************************************************************)
EXTENDS Claims

\* Every table holds rows of its type and numbers no Event past the clock.
TypeOK ==
    /\ now \in 0..MaxTime
    /\ att \in [Attachments -> AttachmentRow]
    /\ seq \in 0..MaxEvents
    /\ hnd \in [Handlings -> HandlingRow]
    /\ events \subseteq EventRow
    /\ disp \subseteq DispositionRow
    /\ views \subseteq ViewRow

\* A Principal has at most one boundary that has not ended, so the unique index
\* on live attachments never refuses an issue (attachment_begin.go).
OneLiveBoundary ==
    \A a, b \in Attachments :
        att[a].state = "live" /\ att[b].state = "live" /\ Owner[a] = Owner[b] => a = b

\* A claim is occupied only on an open Handling, by a boundary of its own
\* Principal that has not ended, up to that boundary's expiry: the errors
\* "ended boundary still occupies a claim" and "exact claim changed before
\* settlement" cannot happen.
ClaimsBelongToLiveBoundary ==
    \A h \in Handlings : hnd[h].holder # NoAttachment =>
        /\ hnd[h].state = "open"
        /\ att[hnd[h].holder].state = "live"
        /\ Owner[hnd[h].holder] = hnd[h].owner
        /\ hnd[h].until = att[hnd[h].holder].expires
        /\ hnd[h].fence > 0

\* A boundary occupies one claim at most (unique claim_attachment_id): Current
\* keeps the claim it has before it takes another.
OneClaimPerBoundary ==
    \A g, h \in Handlings :
        hnd[g].holder # NoAttachment /\ hnd[g].holder = hnd[h].holder => g = h

\* Claims are exclusive through every issue, replacement, end and admission: a
\* Principal has one live boundary, which alone occupies claims, one at most.
OccupancyIsExclusive ==
    OneLiveBoundary /\ ClaimsBelongToLiveBoundary /\ OneClaimPerBoundary

\* Replacing and ending boundaries releases every claim before it can expire
\* in front of a live Current, so the expiry sweep never finds one.
ExpirySweepFindsNothing == \A d \in disp : d.kind # "expiry"

Settlements(h, f) == {e \in events : e.handling = h /\ e.fence = f}
Releases(h, f) == {d \in disp : d.handling = h /\ d.fence = f}

Endings(h, f) == Settlements(h, f) \cup Releases(h, f)

\* Every fence a Handling was ever granted ended in exactly one way: one Event
\* settled the subject under it, or one disposition released it, or it is the
\* claim occupied now.  No fence is used twice and none is forgotten.
EveryFenceEndsOnce ==
    \A h \in Handlings : \A f \in 1..hnd[h].fence :
        IF f = hnd[h].fence /\ hnd[h].holder # NoAttachment
        THEN Endings(h, f) = {}
        ELSE \E x \in Endings(h, f) : Endings(h, f) = {x}

\* The Event that resolved a Handling was bound to a View that had seen every
\* terminal reply ever accepted for it, and none is accepted afterwards
\* (observationRevision in validateBoundSubject).
ResolvedWithEveryReplySeen ==
    \A h \in Handlings : hnd[h].state = "terminal" =>
        \E e \in events : /\ e.seq = hnd[h].head
                          /\ e.handling = h
                          /\ e.fence = hnd[h].fence
                          /\ e.revision = hnd[h].revision

\* While a View's fence is the fence its own boundary still holds, the head it
\* froze is the head: the fence alone already protects the subject.
HeldViewIsFresh ==
    \A v \in views : \A h \in Handlings :
        /\ h = v.handling
        /\ hnd[h].holder = v.att
        /\ hnd[h].fence = v.fence
        => hnd[h].head = v.head /\ v.revision <= hnd[h].revision

\* A terminal Handling never changes again, fences and revisions never
\* decrease, and Events, dispositions and frozen Views are append-only.
NothingIsRewritten ==
    [][/\ \A h \in Handlings :
            /\ hnd[h].state = "terminal" => hnd'[h] = hnd[h]
            /\ hnd'[h].fence \in {hnd[h].fence, hnd[h].fence + 1}
            /\ hnd'[h].revision >= hnd[h].revision
       /\ events \subseteq events' /\ disp \subseteq disp' /\ views \subseteq views']_vars

\* Attention goes to the least attended open Handling of the Principal, the
\* claimed ones included: nobody is granted a further fence while another open
\* Handling has a lower one (claimNextTx).
LeastAttendedFirst ==
    [][\A g, h \in Handlings :
          /\ hnd'[h].fence > hnd[h].fence
          /\ hnd[g].state = "open"
          /\ hnd[g].owner = hnd[h].owner
          => hnd[h].fence <= hnd[g].fence]_vars

\* The number of open Handlings of a Principal stays within the bound that
\* Current requires of it ("current View: open Handling bound violated").
OpenHandlingBound ==
    \A p \in Principals : Cardinality(Open(p)) <= MaxOpenHandlings
=============================================================================
