----------------------------- MODULE PiInstall -----------------------------
(***************************************************************************)
(* The installer of the Pi projection (internal/agency/attach).  It takes  *)
(* no lock, so two of them can run at once, and the stage of a target has  *)
(* one fixed name: what is at the stage's name when an installer links it  *)
(* need not be the file it wrote.  An inode is "partial" from its creation *)
(* (mode 0600, bytes missing) until it was written and given its mode.     *)
(***************************************************************************)
EXTENDS Integers, FiniteSets, Sequences

CONSTANTS
    Installers,
    Plan,          \* the ownership journal, then the projected files in order
    MaxStages      \* bound: stage files made

ASSUME PiInstallAssumption == Plan \in Seq(STRING) /\ Plan # <<>>

VARIABLES
    target,        \* of each path of the plan: 0, an inode, or -1 for a user's file
    stageFile,     \* its stage: 0 or an inode
    whole,         \* inodes that are complete
    cut,           \* inodes made so far
    inst,          \* what each installer is doing
    ready,         \* history: an install was answered
    overlapped     \* history: two installers ran at once

ivars == <<target, stageFile, whole, cut, inst, ready, overlapped>>

OfUser == -1
Resting == [at |-> "none", k |-> 0, x |-> 0]

IInit ==
    /\ target = [k \in DOMAIN Plan |-> 0] /\ stageFile = [k \in DOMAIN Plan |-> 0]
    /\ whole = {} /\ cut = 0 /\ ready = FALSE /\ overlapped = FALSE
    /\ inst = [p \in Installers |-> Resting]

\* readExactFile: the mode, the size and the bytes.
readExactFile(x) == x \in whole

Moves(p, r) == inst' = [inst EXCEPT ![p] = r]

\* convergeFile is next for the path after k, verifyFiles after the last.
NextOf(k) == [at |-> IF k = Len(Plan) THEN "verify" ELSE "converge", k |-> k + 1, x |-> 0]

Paths == <<target, stageFile, whole, cut>>

\* InstallPi: a journal that is there must own this revision; without one, any
\* projected file is somebody else's.
InstallPi(p) ==
    /\ inst[p] = Resting
    /\ \/ /\ \A k \in DOMAIN Plan : target[k] = 0
          /\ Moves(p, [at |-> "open", k |-> 1, x |-> 0])
          /\ UNCHANGED stageFile
       \/ /\ readExactFile(target[1])
          /\ stageFile' = [stageFile EXCEPT ![1] = 0]
          /\ Moves(p, NextOf(1))
    /\ overlapped' = (overlapped \/ \E q \in Installers : inst[q] # Resting)
    /\ UNCHANGED <<target, whole, cut, ready>>

\* convergeFile: bytes that differ are drift and end the install.
convergeFile(p) == LET k == inst[p].k IN
    /\ inst[p].at = "converge"
    /\ IF target[k] = 0 THEN Moves(p, [inst[p] EXCEPT !.at = "open"])
       ELSE IF readExactFile(target[k]) THEN Moves(p, [inst[p] EXCEPT !.at = "clean"])
       ELSE Moves(p, Resting)
    /\ UNCHANGED <<Paths, ready, overlapped>>

\* prepareStage: a whole stage is used, an incomplete one discarded.
prepareStage(p) == LET k == inst[p].k IN
    /\ inst[p].at = "open"
    /\ IF stageFile[k] = 0
       THEN /\ cut < MaxStages /\ cut' = cut + 1
            /\ stageFile' = [stageFile EXCEPT ![k] = cut + 1]
            /\ Moves(p, [inst[p] EXCEPT !.at = "write", !.x = cut + 1])
       ELSE /\ Moves(p, [inst[p] EXCEPT !.at =
                 IF readExactFile(stageFile[k]) THEN "link" ELSE "discard"])
            /\ UNCHANGED <<stageFile, cut>>
    /\ UNCHANGED <<target, whole, ready, overlapped>>

\* discardIncompleteStage removes what now has the name; if nothing has, or
\* another stage was made since, publishing fails.
discardIncompleteStage(p) == LET k == inst[p].k IN
    /\ inst[p].at = "discard"
    /\ stageFile' = [stageFile EXCEPT ![k] = 0]
    /\ Moves(p, [inst[p] EXCEPT !.at = IF stageFile[k] = 0 THEN "published" ELSE "reopen"])
    /\ UNCHANGED <<target, whole, cut, ready, overlapped>>

Reopens(p) == LET k == inst[p].k IN
    /\ inst[p].at = "reopen"
    /\ IF stageFile[k] = 0
       THEN /\ cut < MaxStages /\ cut' = cut + 1
            /\ stageFile' = [stageFile EXCEPT ![k] = cut + 1]
            /\ Moves(p, [inst[p] EXCEPT !.at = "write", !.x = cut + 1])
       ELSE Moves(p, [inst[p] EXCEPT !.at = "published"]) /\ UNCHANGED <<stageFile, cut>>
    /\ UNCHANGED <<target, whole, ready, overlapped>>

\* The bytes, the mode and the sync, through the handle.
Writes(p) ==
    /\ inst[p].at = "write"
    /\ whole' = whole \cup {inst[p].x}
    /\ Moves(p, [inst[p] EXCEPT !.at = "link", !.x = 0])
    /\ UNCHANGED <<target, stageFile, cut, ready, overlapped>>

\* publishExclusive: the name is linked, never replaced.
publishExclusive(p) == LET k == inst[p].k IN
    /\ inst[p].at = "link"
    /\ IF target[k] = 0 /\ stageFile[k] # 0
       THEN /\ target' = [target EXCEPT ![k] = stageFile[k]]
            /\ Moves(p, [inst[p] EXCEPT !.at = "clean"])
       ELSE Moves(p, [inst[p] EXCEPT !.at = "published"]) /\ UNCHANGED target
    /\ UNCHANGED <<stageFile, whole, cut, ready, overlapped>>

\* A failed publish is fine when the target is what it should be; the stage of
\* the ownership journal is left to the end.
Rereads(p) == LET k == inst[p].k IN
    /\ inst[p].at = "published"
    /\ Moves(p, IF ~readExactFile(target[k]) THEN Resting
                ELSE IF k = 1 THEN NextOf(k) ELSE [inst[p] EXCEPT !.at = "clean"])
    /\ UNCHANGED <<Paths, ready, overlapped>>

\* cleanupStage, whole or not.
cleanupStage(p) == LET k == inst[p].k IN
    /\ inst[p].at = "clean"
    /\ stageFile' = [stageFile EXCEPT ![k] = 0]
    /\ Moves(p, NextOf(k))
    /\ UNCHANGED <<target, whole, cut, ready, overlapped>>

\* Mutant: the files that were converged are not read again.
verifyFilesNot == TRUE

verifyFiles == \A k \in DOMAIN Plan : k > 1 => readExactFile(target[k])

\* The end of convergeInstall: only exact files are answered as installed.
Verifies(p) ==
    /\ inst[p].at = "verify"
    /\ ready' = (ready \/ verifyFiles)
    /\ stageFile' = IF verifyFiles THEN [stageFile EXCEPT ![1] = 0] ELSE stageFile
    /\ Moves(p, Resting)
    /\ UNCHANGED <<target, whole, cut, overlapped>>

\* An installer is killed, or a write fails: its stage stays.
Breaks(p) ==
    /\ inst[p] # Resting
    /\ Moves(p, Resting)
    /\ UNCHANGED <<Paths, ready, overlapped>>

\* The user puts a file of their own where one is to be projected.
UserWrites(k) ==
    /\ k > 1 /\ target[k] = 0
    /\ target' = [target EXCEPT ![k] = OfUser]
    /\ UNCHANGED <<stageFile, whole, cut, inst, ready, overlapped>>

INext ==
    \/ \E p \in Installers :
         \/ InstallPi(p) \/ convergeFile(p) \/ prepareStage(p) \/ discardIncompleteStage(p)
         \/ Reopens(p) \/ Writes(p) \/ publishExclusive(p) \/ Rereads(p) \/ cleanupStage(p)
         \/ Verifies(p) \/ Breaks(p)
    \/ \E k \in DOMAIN Plan : UserWrites(k)

\* Projected files that were reported as installed are exact and stay so, even
\* when a second installer linked the other one's unfinished stage or one of
\* them was killed (the ownership journal is not read again and may be such a
\* stage); and installers that run one after another, killed wherever
\* they may be, never leave a torn file, which the next one would refuse for
\* good as drift (publishExclusive, convergeFile).
InstalledIsExact ==
    /\ ready => \A k \in DOMAIN Plan : k > 1 => readExactFile(target[k])
    /\ ~overlapped => \A k \in DOMAIN Plan :
         target[k] \in {0, OfUser} \/ readExactFile(target[k])
=============================================================================
