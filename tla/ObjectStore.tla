---------------------------- MODULE ObjectStore ----------------------------
(***************************************************************************)
(* The Artifact store (internal/agency/artifact): one digest of the object *)
(* tree, which stores in several processes read and write at once (the     *)
(* digest guard only orders the calls of one process).  An entry holds an  *)
(* inode; the final and the marker may hold the same one, and a verified   *)
(* read wants an inode with one link.  An inode is named once its bytes    *)
(* are complete and synced, so bytes are left out; the entries themselves  *)
(* reach the disk when their directory is synced and not before.  So does  *)
(* the entry of the shard that holds the final, and that of the digests    *)
(* whose names begin alike.                                                *)
(***************************************************************************)
EXTENDS Integers, FiniteSets

CONSTANTS
    ObjectStores,  \* stores on one root, in processes of their own
    Attempts,      \* rounds of settlePromotion
    MaxInodes      \* bound: markers staged

VARIABLES
    shard, shardDisk,    \* is the shard's directory there; is its entry in the root synced
    final, marker,       \* the two entries: 0 or an inode
    finalDisk, markerDisk,
    made,                \* inodes made so far
    call,                \* what each store is doing
    staged,              \* history: a complete marker reached the disk
    answered,            \* history: some Put or Read was answered with the object, the shard synced
    creators,            \* history: Puts answered as the one that created it
    lost                 \* history: a power failure found a shard that was not synced

ovars == <<shard, shardDisk, final, marker, finalDisk, markerDisk, made, call,
           staged, answered, creators, lost>>

NoCall == [at |-> "none", op |-> "none", round |-> 0, second |-> FALSE, installed |-> FALSE]

\* settlePromotion is called, by a Put a second time once it has staged.
Begun(op, second) == [at |-> "look", op |-> op, round |-> 1, second |-> second, installed |-> FALSE]

OInit ==
    /\ shard = FALSE /\ shardDisk = FALSE
    /\ final = 0 /\ marker = 0 /\ finalDisk = 0 /\ markerDisk = 0 /\ made = 0
    /\ call = [s \in ObjectStores |-> NoCall]
    /\ staged = FALSE /\ answered = FALSE /\ creators = 0 /\ lost = FALSE

linkCount(x) == Cardinality({e \in {<<"final", final>>, <<"marker", marker>>} : e[2] = x})

Turns(s, r) == call' = [call EXCEPT ![s] = r]

Steps(s, at) == Turns(s, [call[s] EXCEPT !.at = at])

Shard == <<shard, shardDisk>>
Entries == <<final, marker, finalDisk, markerDisk, made>>
Told == <<staged, answered, creators, lost>>

\* objectPath: a shard that is there is taken as it is.
PutObject(s) ==
    /\ call[s] = NoCall
    /\ Turns(s, IF shard THEN Begun("put", FALSE) ELSE [Begun("put", FALSE) EXCEPT !.at = "mkdir"])
    /\ UNCHANGED <<Shard, Entries, Told>>

\* ensurePrivateDirectory; whoever made the shard syncs the root.
MakesShard(s) ==
    /\ call[s].at = "mkdir"
    /\ shard' = TRUE
    /\ Steps(s, "root")
    /\ UNCHANGED <<shardDisk, Entries, Told>>

SyncsRoot(s) ==
    /\ call[s].at = "root"
    /\ shardDisk' = TRUE
    /\ Steps(s, "look")
    /\ UNCHANGED <<shard, Entries, Told>>

\* A Put of another digest makes the shard, and syncs the root.
OtherPuts ==
    /\ \/ ~shard /\ shard' = TRUE /\ UNCHANGED shardDisk
       \/ shard /\ ~shardDisk /\ shardDisk' = TRUE /\ UNCHANGED shard
    /\ UNCHANGED <<call, Entries, Told>>

Read(s) ==
    /\ call[s] = NoCall
    /\ Turns(s, Begun("read", FALSE))
    /\ UNCHANGED <<Shard, Entries, Told>>

\* retryablePromotionRace: the next round, or "promotion did not settle".
Again(s, installed) ==
    Turns(s, IF call[s].round = Attempts THEN NoCall
             ELSE [call[s] EXCEPT !.at = "look", !.round = @ + 1, !.installed = installed])

\* settlePromotion: a round starts with the final.
Looks(s) ==
    /\ call[s].at = "look"
    /\ Steps(s, IF final # 0 THEN "sync" ELSE "probe")
    /\ UNCHANGED <<Shard, Entries, Told>>

\* linkPromotion, up to the verified read of the marker.  With no marker a
\* first Put stages one; a Read has nothing to return.
Probes(s) ==
    /\ call[s].at = "probe"
    /\ IF marker = 0
       THEN IF call[s].op = "put" /\ ~call[s].second THEN Steps(s, "stage") ELSE Turns(s, NoCall)
       ELSE IF linkCount(marker) = 1 THEN Steps(s, "link") ELSE Again(s, call[s].installed)
    /\ UNCHANGED <<Shard, Entries, Told>>

\* os.Link never replaces the final, and needs the shard.
Links(s) ==
    /\ call[s].at = "link"
    /\ IF shard /\ final = 0 /\ marker # 0
       THEN final' = marker /\ Again(s, TRUE)
       ELSE UNCHANGED final /\ Again(s, call[s].installed)
    /\ UNCHANGED <<Shard, marker, finalDisk, markerDisk, made, Told>>

\* Mutant: the shard directory is not synced.
SyncsNot(s) ==
    /\ call[s].at = "sync"
    /\ Steps(s, "unmark")
    /\ UNCHANGED <<Shard, Entries, Told>>

\* settleFinal: the shard is synced before the marker goes.
Syncs(s) ==
    /\ call[s].at = "sync"
    /\ finalDisk' = final
    /\ Steps(s, "unmark")
    /\ UNCHANGED <<Shard, final, marker, markerDisk, made, Told>>

Unmarks(s) ==
    /\ call[s].at = "unmark"
    /\ marker' = 0
    /\ Steps(s, "forget")
    /\ UNCHANGED <<Shard, final, finalDisk, markerDisk, made, Told>>

Forgets(s) ==
    /\ call[s].at = "forget"
    /\ markerDisk' = marker
    /\ Steps(s, "answer")
    /\ UNCHANGED <<Shard, final, marker, finalDisk, made, Told>>

\* The verified read of the final, and inspectReplay's.
Answers(s) ==
    /\ call[s].at = "answer"
    /\ IF final # 0 /\ linkCount(final) = 1
       THEN /\ Turns(s, NoCall)
            /\ answered' = (answered \/ shardDisk)
            /\ creators' = IF call[s].op = "put" /\ call[s].installed THEN creators + 1 ELSE creators
       ELSE Again(s, call[s].installed) /\ UNCHANGED <<answered, creators>>
    /\ UNCHANGED <<Shard, Entries, staged, lost>>

\* stageMarker: a temporary file, complete, verified and synced, is renamed
\* over whatever marker there is.
StagesMarker(s) ==
    /\ call[s].at = "stage" /\ made < MaxInodes
    /\ made' = made + 1 /\ marker' = made + 1
    /\ Steps(s, "mark")
    /\ UNCHANGED <<Shard, final, finalDisk, markerDisk, Told>>

Marks(s) ==
    /\ call[s].at = "mark"
    /\ markerDisk' = marker
    /\ staged' = (staged \/ marker # 0)
    /\ Turns(s, Begun("put", TRUE))
    /\ UNCHANGED <<Shard, final, marker, finalDisk, made, answered, creators, lost>>

\* A process dies, or its context ends between two steps.
Dies(s) ==
    /\ call[s] # NoCall
    /\ Turns(s, NoCall)
    /\ UNCHANGED <<Shard, Entries, Told>>

\* The machine stops: of an entry that was not synced either value is found, and a shard
\* that is not found takes the final with it.
PowerFails ==
    /\ call' = [s \in ObjectStores |-> NoCall]
    /\ \E found \in {shard, shardDisk} :
        /\ shard' = found /\ shardDisk' = found
        /\ final' \in (IF found THEN {final, finalDisk} ELSE {0}) /\ finalDisk' = final'
        /\ creators' = IF found THEN creators ELSE 0
        /\ lost' = (lost \/ (shard /\ ~found))
    /\ marker' \in {marker, markerDisk} /\ markerDisk' = marker'
    /\ UNCHANGED <<made, staged, answered>>

ONext ==
    \/ \E s \in ObjectStores :
         \/ PutObject(s) \/ MakesShard(s) \/ SyncsRoot(s) \/ Read(s) \/ Looks(s) \/ Probes(s)
         \/ Links(s) \/ Syncs(s) \/ Unmarks(s) \/ Forgets(s) \/ Answers(s)
         \/ StagesMarker(s) \/ Marks(s) \/ Dies(s)
    \/ OtherPuts \/ PowerFails

OSpec == OInit /\ [][ONext]_ovars

\* An object that a Put or a Read was answered with once its shard's own entry was synced
\* is on the disk for good, at most one Put was told it created it, and a complete marker
\* that reached the disk is not lost before its object did (settlePromotion), whichever
\* store settles it and however many do so at once, unless the power failed between the
\* mkdir of the shard and the sync of the root (objectPath).
\* In that case another Put may have linked and synced the final in the new shard and
\* removed the marker, and the power failure takes the shard.
ObjectIsKept ==
    /\ answered => shardDisk /\ final # 0 /\ finalDisk = final
    /\ creators <= 1
    /\ staged /\ ~lost => finalDisk # 0 \/ markerDisk # 0
=============================================================================
