------------------------------ MODULE Journal ------------------------------
(***************************************************************************)
(* The Agent terminal (internal/agency/client) and the control service it  *)
(* calls (internal/daemon/control.go, service.go).                         *)
(*                                                                         *)
(* One command is one process.  A command holds the journal's lock while   *)
(* it loads the one journal file, makes its control calls and publishes    *)
(* the next file; submit lets go of the lock to write the Receipt to       *)
(* stdout, takes it again to mark the Receipt presented, ends the boundary *)
(* without it and takes it a third time to remove the file.                *)
(*                                                                         *)
(* A killed command, a call that is refused, a call that is served and     *)
(* whose answer is lost, and a stdout that cannot be written all end the   *)
(* command where it stands: Stops.  Of the authority there is what a       *)
(* client can tell apart: the boundary's life, the Views frozen by a       *)
(* Current operation and the recorded Receipts (Claims and Admission model *)
(* the rest).  artifact read changes nothing and is left out.              *)
(***************************************************************************)
EXTENDS Integers, FiniteSets

CONSTANTS
    Procs,              \* commands that can run at once
    Boundaries,         \* Host boundaries
    Intents,            \* canonical Intents
    Handles,            \* candidate handles, each given out once
    Artifacts,          \* the candidate handles an Intent names
    NoIntent,           \* of the active file's name
    Nobody,             \* holder of a free lock
    MaxArtifactInputs,
    MaxCurrentOps       \* bound: Current operation keys drawn

ASSUME JournalAssumption == Nobody \notin Procs /\ MaxCurrentOps \in Nat

VARIABLES
    files,     \* journal files in the agency-client directory
    stage,     \* an interrupted journal.stage is there
    lock,      \* holder of the flock and of the process lock
    run,       \* what each process is doing
    drawn,     \* Current operation keys drawn so far
    attached,       \* authority: life of each boundary's attachment
    frozen,    \* authority: Views, <<boundary, Current operation>>
    receipts,  \* authority: Receipt by admission operation
    given,     \* candidate handles given out
    owed,      \* history: candidates captured and neither consumed nor ended
    shown      \* history: admission operations whose Receipt was written

jvars == <<files, stage, lock, run, drawn, attached, frozen, receipts, given, owed, shown>>

\* session.json; terminal-<operation>.json is named by its operation, which is
\* derived from the Current operation, the Intent and the bound candidates (a
\* handle has one digest for good).
Active == <<0, NoIntent>>
deriveAdmissionOperation(cur, i) == <<cur, i>>
Operations == (1..MaxCurrentOps) \X Intents

validTerminalName(name) == name # Active

\* cur = 0 is the zero operation key; seen is CurrentProjection # "".
newClientJournal(b, preserved) ==
    [name |-> Active, b |-> b, cur |-> 0, seen |-> FALSE, cands |-> preserved]

Idle == [at |-> "idle", cmd |-> "none", b |-> "none", i |-> NoIntent, j |-> {}, w |-> {}]

JInit ==
    /\ files = {} /\ stage = FALSE /\ lock = Nobody
    /\ run = [p \in Procs |-> Idle]
    /\ drawn = 0
    /\ attached = [b \in Boundaries |-> "absent"]
    /\ frozen = {} /\ given = {} /\ owed = {} /\ shown = {}
    /\ receipts = [op \in Operations |-> "none"]

-----------------------------------------------------------------------------
(* The control service. *)

service == <<attached, frozen, receipts, given>>

\* "expired" is not ended yet, but no longer before expires_at.
Unended(b) == attached[b] \in {"live", "expired"}

handleAttach(b) == attached[b] # "ended"

\* A fresh boundary ends the Principal's unended one; a known one replays.
attach(b) ==
    attached' = IF attached[b] # "absent" THEN attached
           ELSE [c \in Boundaries |-> IF c = b THEN "live"
                                      ELSE IF Unended(c) THEN "ended" ELSE attached[c]]

endAttachment(b) == attached' = [attached EXCEPT ![b] = "ended"]

handleCurrent(b, n) == <<b, n>> \in frozen \/ attached[b] = "live"

current(b, n) == frozen' = frozen \cup {<<b, n>>}

\* submit replays the View, whatever became of the boundary since.
handleSubmit(b, n) == <<b, n>> \in frozen

\* A recorded Receipt is replayed; a boundary that is not live is rejected.
Outcomes(b, op) ==
    IF receipts[op] # "none" THEN {receipts[op]}
    ELSE IF attached[b] = "live" THEN {"accepted", "rejected"} ELSE {"rejected"}

submit(op, o) == receipts' = [receipts EXCEPT ![op] = o]

\* newCandidateHandle draws a fresh handle whatever the content is.
capture(h) == h \notin given /\ given' = given \cup {h}

Expires(b) ==
    /\ attached[b] = "live"
    /\ attached' = [attached EXCEPT ![b] = "expired"]
    /\ UNCHANGED <<files, stage, lock, run, drawn, frozen, receipts, given, owed, shown>>

-----------------------------------------------------------------------------
(* The journal directory. *)

\* withLock: an interrupted stage is removed before anything is read.
withLock(p) == lock = Nobody /\ lock' = p /\ stage' = FALSE

Unlocks(p) == lock' = Nobody

\* More than one file, or an unknown entry, is an error.
load(j) == files = {j}

Goes(p, r) == run' = [run EXCEPT ![p] = r]

Done(p) == Goes(p, Idle) /\ Unlocks(p)

\* publishJournal: the stage is written and synced, then renamed.
Publishes(p, w) == Goes(p, [run[p] EXCEPT !.at = "stage", !.w = {w}])

Stages(p) ==
    /\ run[p].at = "stage"
    /\ stage' = TRUE
    /\ Goes(p, [run[p] EXCEPT !.at = "rename"])
    /\ UNCHANGED <<files, lock, drawn, service, owed, shown>>

\* Candidates leave a journal when their Receipt was presented, or with it.
Consumed(p) == run[p].cmd = "finish"

Renames(p) == \E w \in run[p].w :
    /\ run[p].at = "rename"
    /\ stage' = FALSE
    /\ files' = {f \in files : f.name # w.name} \cup {w}
    /\ CASE run[p].cmd = "current" /\ ~w.seen ->
              Goes(p, [run[p] EXCEPT !.at = "view", !.j = {w}]) /\ UNCHANGED lock
         [] Consumed(p) ->
              Goes(p, [run[p] EXCEPT !.at = "end", !.j = {w}]) /\ Unlocks(p)
         [] OTHER -> Done(p)
    /\ owed' = IF Consumed(p) THEN {} ELSE IF run[p].cmd = "capture" THEN w.cands ELSE owed
    /\ UNCHANGED <<drawn, service, shown>>

\* remove: only the file the caller loaded.
Removes(p) == \E j \in run[p].j :
    /\ run[p].at = "remove" /\ load(j)
    /\ files' = {} /\ owed' = {}
    /\ IF run[p].cmd = "attach" /\ run[p].b # j.b
       THEN Goes(p, [run[p] EXCEPT !.at = "issue"]) /\ UNCHANGED lock
       ELSE Done(p)
    /\ UNCHANGED <<stage, drawn, service, shown>>

\* Every way a command can end before its last step.
Stops(p) ==
    /\ run[p].at # "idle"
    /\ Goes(p, Idle)
    /\ lock' = IF lock = p THEN Nobody ELSE lock
    /\ UNCHANGED <<files, stage, drawn, service, owed, shown>>

Ready(p) == run[p].at = "idle"

Starts(p, cmd, b, i, at, J) ==
    Goes(p, [at |-> at, cmd |-> cmd, b |-> b, i |-> i, j |-> J, w |-> {}])

-----------------------------------------------------------------------------
(* hook attach and hook end. *)

\* An accepted Receipt that was not presented keeps its boundary.
Pending(j) == validTerminalName(j.name) /\ j.cur # 0

\* Mutant: a terminal journal is retired whether or not it was presented.
retireAnyPredecessor(j, b) == j.b # b

retirePredecessorBoundary(j, b) == j.b # b /\ ~Pending(j)

\* The same boundary again: a presented one is settled, any other is only
\* replayed, which changes nothing.
reconcileSameAttachBoundary(j, b) == j.b = b /\ validTerminalName(j.name) /\ j.cur = 0

runAttach(p, b) ==
    /\ Ready(p) /\ withLock(p)
    /\ \/ files = {} /\ Starts(p, "attach", b, NoIntent, "issue", {})
       \/ \E j \in files :
            /\ load(j)
            /\ retirePredecessorBoundary(j, b) \/ reconcileSameAttachBoundary(j, b)
            /\ Starts(p, "attach", b, NoIntent, "end", {j})
    /\ UNCHANGED <<files, drawn, service, owed, shown>>

\* What a retired predecessor leaves to the boundary that follows it.
Preserved(J) == UNION {IF validTerminalName(j.name) THEN {} ELSE j.cands : j \in J}

\* issueAttachBoundary: a boundary that expired meanwhile is not written.
Issues(p) ==
    /\ run[p].at = "issue" /\ handleAttach(run[p].b)
    /\ attach(run[p].b)
    /\ IF attached'[run[p].b] = "live"
       THEN Publishes(p, newClientJournal(run[p].b, Preserved(run[p].j))) /\ UNCHANGED lock
       ELSE Done(p)
    /\ UNCHANGED <<files, stage, drawn, frozen, receipts, given, owed, shown>>

\* client.End, for hook attach, hook end and a presented submit.
Ends(p) == \E j \in run[p].j :
    /\ run[p].at = "end"
    /\ endAttachment(j.b)
    /\ Goes(p, [run[p] EXCEPT !.at =
         IF run[p].cmd = "finish" THEN "settle"
         ELSE IF run[p].cmd = "attach" /\ ~validTerminalName(j.name) THEN "issue"
         ELSE "remove"])
    /\ UNCHANGED <<files, stage, lock, drawn, frozen, receipts, given, owed, shown>>

runEnd(p, b) ==
    /\ Ready(p) /\ withLock(p)
    /\ \E j \in files :
         /\ load(j) /\ j.b = b /\ ~Pending(j)
         /\ Starts(p, "end", b, NoIntent, "end", {j})
    /\ UNCHANGED <<files, drawn, service, owed, shown>>

-----------------------------------------------------------------------------
(* agent current and artifact capture. *)

\* Mutant: the Current operation is journalled with the View it returned.
runCurrentUnjournalled(p) ==
    /\ Ready(p) /\ withLock(p)
    /\ \E j \in files :
         /\ load(j) /\ ~validTerminalName(j.name)
         /\ drawn < MaxCurrentOps /\ drawn' = drawn + 1
         /\ Starts(p, "current", j.b, NoIntent, "view", {[j EXCEPT !.cur = drawn + 1]})
    /\ UNCHANGED <<files, service, owed, shown>>

\* The operation is drawn once and is durable before the call.
runCurrent(p) ==
    /\ Ready(p) /\ withLock(p)
    /\ \E j \in files :
         /\ load(j) /\ ~validTerminalName(j.name)
         /\ \/ /\ j.cur # 0
               /\ Starts(p, "current", j.b, NoIntent, "view", {j})
               /\ UNCHANGED drawn
            \/ /\ j.cur = 0 /\ drawn < MaxCurrentOps
               /\ drawn' = drawn + 1
               /\ Goes(p, [Idle EXCEPT !.cmd = "current", !.at = "stage", !.j = {j},
                                       !.w = {[j EXCEPT !.cur = drawn + 1]}])
    /\ UNCHANGED <<files, service, owed, shown>>

Views(p) == \E j \in run[p].j :
    /\ run[p].at = "view" /\ handleCurrent(j.b, j.cur)
    /\ current(j.b, j.cur)
    /\ Publishes(p, [j EXCEPT !.seen = TRUE])
    /\ UNCHANGED <<files, stage, lock, drawn, attached, receipts, given, owed, shown>>

runCapture(p) ==
    /\ Ready(p) /\ withLock(p)
    /\ \E j \in files :
         load(j) /\ ~validTerminalName(j.name)
            /\ Starts(p, "capture", j.b, NoIntent, "store", {j})
    /\ UNCHANGED <<files, drawn, service, owed, shown>>

\* addCandidate: the bound is met after the object was stored.
addCandidate(j, h) == [j EXCEPT !.cands = @ \cup {h}]

Stores(p, h) == \E j \in run[p].j :
    /\ run[p].at = "store" /\ capture(h)
    /\ IF Cardinality(j.cands) < MaxArtifactInputs
       THEN Publishes(p, addCandidate(j, h)) /\ UNCHANGED lock
       ELSE Done(p)
    /\ UNCHANGED <<files, stage, drawn, attached, frozen, receipts, owed, shown>>

-----------------------------------------------------------------------------
(* agent submit. *)

bindCandidates(j, i) == Artifacts[i] \subseteq j.cands

\* A terminal journal only takes the Intent its name was derived from.
runSubmit(p, i) ==
    /\ Ready(p) /\ withLock(p)
    /\ \E j \in files :
         /\ load(j) /\ j.cur # 0 /\ bindCandidates(j, i)
         /\ validTerminalName(j.name) => j.name = deriveAdmissionOperation(j.cur, i)
         /\ Starts(p, "submit", j.b, i, "admit", {j})
    /\ UNCHANGED <<files, drawn, service, owed, shown>>

\* An accepted Receipt first renames the active file; a replayed one goes on
\* to stdout, and so does a rejected one, which leaves the View as it is.
Admits(p) == \E j \in run[p].j : LET op == deriveAdmissionOperation(j.cur, run[p].i) IN
    /\ run[p].at = "admit" /\ handleSubmit(j.b, j.cur)
    /\ \E o \in Outcomes(j.b, op) :
         /\ submit(op, o)
         /\ IF o = "accepted" /\ validTerminalName(j.name)
            THEN Goes(p, [run[p] EXCEPT !.at = "show"]) /\ Unlocks(p)
            ELSE IF o = "accepted"
            THEN Goes(p, [run[p] EXCEPT !.at = "mark"]) /\ UNCHANGED lock
            ELSE Done(p)
    /\ UNCHANGED <<files, stage, drawn, attached, frozen, given, owed, shown>>

markTerminal(p) == \E j \in run[p].j :
    LET t == [j EXCEPT !.name = deriveAdmissionOperation(j.cur, run[p].i)] IN
    /\ run[p].at = "mark" /\ load(j)
    /\ files' = {t}
    /\ Goes(p, [run[p] EXCEPT !.at = "show", !.j = {t}]) /\ Unlocks(p)
    /\ UNCHANGED <<stage, drawn, service, owed, shown>>

\* writeCanonicalProjection, without the lock.
Shows(p) == \E j \in run[p].j :
    /\ run[p].at = "show"
    /\ shown' = shown \cup {j.name}
    /\ Goes(p, [run[p] EXCEPT !.at = "present"])
    /\ UNCHANGED <<files, stage, lock, drawn, service, owed>>

\* finishPresentedReceipt: another command may have been here in between.
markPresented(p) == \E j \in run[p].j :
    /\ run[p].at = "present" /\ withLock(p)
    /\ load(j) /\ j.cur # 0
    /\ Goes(p, [run[p] EXCEPT !.cmd = "finish", !.at = "stage",
         !.w = {[j EXCEPT !.cur = 0, !.seen = FALSE, !.cands = {}]}])
    /\ UNCHANGED <<files, drawn, service, owed, shown>>

Settles(p) ==
    /\ run[p].at = "settle" /\ withLock(p)
    /\ Goes(p, [run[p] EXCEPT !.at = "remove"])
    /\ UNCHANGED <<files, drawn, service, owed, shown>>

-----------------------------------------------------------------------------
JNext ==
    \/ \E p \in Procs :
         \/ \E b \in Boundaries : runAttach(p, b) \/ runEnd(p, b)
         \/ runCurrent(p) \/ runCapture(p)
         \/ \E i \in Intents : runSubmit(p, i)
         \/ \E h \in Handles : Stores(p, h)
         \/ Stages(p) \/ Renames(p) \/ Removes(p) \/ Stops(p)
         \/ Issues(p) \/ Ends(p) \/ Views(p)
         \/ Admits(p) \/ markTerminal(p) \/ Shows(p) \/ markPresented(p) \/ Settles(p)
    \/ \E b \in Boundaries : Expires(b)

-----------------------------------------------------------------------------
(* Properties. *)

\* A retried Intent has one Effect, and can be retried.  Within a Host boundary
\* the Agent may send the same Intent again after a kill, a timeout or a lost
\* answer, and ask for its View again before that: every attempt reaches the
\* authority under the operation key the first one used (runCurrent draws the
\* Current operation once and journals it before the call;
\* deriveAdmissionOperation).  Whatever two commands and a crash leave behind,
\* the client is not locked out by two journals at once (load), and what was
\* captured stays bindable until its Receipt was presented or the boundary
\* ended, across the boundaries in between (retirePredecessorBoundary).
EffectOnce ==
    /\ \A b \in Boundaries, i \in Intents :
        Cardinality({n \in 1..MaxCurrentOps :
            <<b, n>> \in frozen /\ receipts[<<n, i>>] = "accepted"}) <= 1
    /\ Cardinality(files) <= 1
    /\ \A f \in files : owed \subseteq f.cands
    /\ files = {} => owed = {}

\* An accepted Receipt the terminal recorded is not forgotten before it was
\* written to stdout: no hook, no second command and no crash replaces or
\* removes the terminal journal (runAttach, runEnd, finishPresentedReceipt).
ReceiptShown ==
    [][\A f \in files : Pending(f) /\ f \notin files' => f.name \in shown]_jvars
=============================================================================
