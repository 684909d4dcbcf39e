----------------------------- MODULE MCAdmission -----------------------------
(***************************************************************************)
(* Instances of Admission for TLC.                                         *)
(***************************************************************************)
EXTENDS AdmissionProperties, TLC

CONSTANTS k1, a1, c1, c2, o1, o2, o3

Intent(cons, key, cite, remote, art) ==
    [cons |-> cons, key |-> key, cite |-> cite, remote |-> remote, art |-> art]

\* Intents that read and write one Reference.
ReferenceShapes ==
    {Intent("publish", k1, NoKey, FALSE, a1),
     Intent("supersede", k1, NoKey, FALSE, a1),
     Intent("retract", k1, NoKey, FALSE, NoArt),
     Intent("create", NoKey, k1, FALSE, NoArt)}

\* Intents that take part in responsibility, with and without a peer.
WorkShapes ==
    {Intent("create", NoKey, NoKey, TRUE, a1),
     Intent("advance", NoKey, NoKey, TRUE, NoArt),
     Intent("complete", NoKey, NoKey, FALSE, a1)}

\* Intents that pin an Artifact, one of them behind the outbox capacity.
ArtifactShapes ==
    {Intent("create", NoKey, NoKey, TRUE, a1), Intent("publish", k1, NoKey, FALSE, a1)}

Corner(shapes, steps, keys, size) ==
    [shapes |-> shapes, steps |-> steps, ops |-> keys, events |-> size]

Pairs == {{o1, o2}, {o1, o3}, {o2, o3}}

\* Three Intents on one Reference, responsibility shared with a peer whose
\* route is revoked or whose claim expires, and Artifacts that are damaged
\* while their attachment ends.
MCWorlds ==
    {Corner(ReferenceShapes, {}, {o1, o2, o3}, 3)}
        \cup {Corner(WorkShapes, {"request", "settle", fault}, p, 2) :
                fault \in {"revoke", "expire"}, p \in Pairs}
        \cup {Corner(ArtifactShapes, {"settle", "damage", "end"}, p, 2) : p \in Pairs}

Symmetries == Permutations({c1, c2}) \cup Permutations({o1, o2, o3})
=============================================================================
