------------------------------ MODULE StoreFile ------------------------------
(***************************************************************************)
(* How a command opens the file of a graph memory store                    *)
(* (internal/memory/store/db.go, cmd/memory/root.go): the move out of the  *)
(* legacy layout, then the schema migrations, statement by statement or    *)
(* transaction by transaction.  Two processes may open the file at once,   *)
(* any of them may die or meet a busy database between two statements, and *)
(* one that is open already writes meanwhile.                              *)
(*                                                                         *)
(* Abstracted: the edges table is the constraint on its types and the      *)
(* types its rows have; a vector is its encoding, which is known from the  *)
(* blob's length and plausible values alone; the rows that a legacy log    *)
(* holds are with their database or not; columns, triggers and indexes     *)
(* made by IF NOT EXISTS statements are one fact, made once.               *)
(***************************************************************************)
EXTENDS Naturals, FiniteSets

CONSTANTS
    Openers,        \* processes
    Names,          \* store names; "default" is one
    FileWorlds      \* [legacy, wal, even (number of components), crashes, together, opens,
                    \*  names (commands on stores)]

VARIABLES
    fileWorld,      \* the instance, chosen once
    layout,         \* where the database and its write-ahead log are
    table,          \* the database's schema and rows
    opener,         \* where each process is
    opens, deaths,
    stores,         \* directories under data/
    active          \* the active file: a name, or "" when missing, empty or torn

fileVars == <<fileWorld, layout, table, opener, opens, deaths, stores, active>>
nameVars == <<stores, active>>

\* The generations of the edges constraint and the types each admits.
Admitted ==
    [narrative |-> {"causal", "narrative"},
     four |-> {"causal"},
     five |-> {"causal", "supersedes"}]

NoTable == [made |-> FALSE]
OldTable ==
    [made |-> TRUE, check |-> "narrative", rows |-> {"causal", "narrative"}, columns |-> FALSE,
     stored |-> FALSE, version |-> 0, vectors |-> {"float64", "malformed"}, narrative |-> TRUE,
     stranded |-> FALSE, logged |-> IF fileWorld.wal THEN "with" ELSE "none"]
\* CREATE TABLE IF NOT EXISTS in an empty file.
NewTable ==
    [made |-> TRUE, check |-> "five", rows |-> {}, columns |-> TRUE,
     stored |-> TRUE, version |-> 0, vectors |-> {}, narrative |-> FALSE,
     stranded |-> FALSE, logged |-> "none"]

FileInit ==
    /\ fileWorld \in FileWorlds
    /\ layout = [db |-> IF fileWorld.legacy THEN "old" ELSE "none",
                 wal |-> IF fileWorld.legacy /\ fileWorld.wal THEN "old" ELSE "none"]
    /\ table = IF fileWorld.legacy THEN OldTable ELSE NoTable
    /\ opener = [p \in Openers |-> "out"]
    /\ opens = 0 /\ deaths = 0
    /\ stores = {} /\ active = ""

At(p, pc) == opener[p] = pc /\ UNCHANGED <<fileWorld, opens, deaths, nameVars>>
GoOn(p, pc) == opener' = [opener EXCEPT ![p] = pc]
Opening(p) == opener[p] \notin {"out", "open"}

FileStart(p) ==
    /\ opener[p] = "out"
    /\ opens < fileWorld.opens
    /\ ~fileWorld.together => \A q \in Openers : ~Opening(q)
    /\ opens' = opens + 1
    /\ GoOn(p, "move_db")
    /\ UNCHANGED <<fileWorld, layout, table, deaths, nameVars>>

\* MigrateIfNeeded: the database, then its log.
MoveDB(p) ==
    /\ At(p, "move_db")
    /\ IF layout.db = "old"
       THEN layout' = [layout EXCEPT !.db = "new"] /\ GoOn(p, "move_wal")
       ELSE UNCHANGED layout /\ GoOn(p, "schema")
    /\ UNCHANGED table

MoveWAL(p) ==
    /\ At(p, "move_wal")
    /\ layout' = IF layout.wal = "old" THEN [layout EXCEPT !.wal = "new"] ELSE layout
    /\ table' = IF table.logged = "without" THEN [table EXCEPT !.logged = "replaced"] ELSE table
    /\ GoOn(p, "schema")

\* Open and the schema script: what is missing is created.  A database whose log was not
\* moved yet is opened without the rows that are in the log only, and starts another; the
\* old one replaces that when it is moved after all.
Schema(p) ==
    /\ At(p, "schema")
    /\ layout' = IF layout.db = "none" THEN [layout EXCEPT !.db = "new"] ELSE layout
    /\ table' = IF ~table.made THEN NewTable
                ELSE IF layout.wal = "old" /\ table.logged = "with"
                     THEN [table EXCEPT !.logged = "without"]
                     ELSE table
    /\ GoOn(p, "columns")

\* addColumnIfNotExists, the backfill of stored_at and its trigger.
Columns(p) ==
    /\ At(p, "columns")
    /\ table' = [table EXCEPT !.columns = TRUE, !.stored = TRUE]
    /\ GoOn(p, "version")
    /\ UNCHANGED layout

\* migrateEmbeddingsToFloat32 reads user_version, then begins its transaction.
Version(p) ==
    /\ At(p, "version")
    /\ GoOn(p, IF table.version >= 1 THEN "probe_narrative" ELSE "vectors")
    /\ UNCHANGED <<layout, table>>

\* Mutant: every blob is read as float64.
looksLikeLegacyVectorAny(v) == v # "garbled"

\* Two float32 values read as one float64 are as plausible as any, and there are pairs to
\* read when the number of components is even; a malformed blob does not parse.
looksLikeLegacyVector(v) == v = "float64" \/ (v = "float32" /\ fileWorld.even)

Float32(v) == IF v = "float64" THEN "float32" ELSE "garbled"

Vectors(p) ==
    /\ At(p, "vectors")
    /\ table' = [table EXCEPT !.version = 1,
                    !.vectors = {IF looksLikeLegacyVector(v) THEN Float32(v) ELSE v : v \in @}]
    /\ GoOn(p, "probe_narrative")
    /\ UNCHANGED layout

\* migrateRemoveNarrativeEdges: a probe that is always rolled back; any error of it is
\* read as a schema that rejects the type.
ProbeNarrative(p) ==
    /\ At(p, "probe_narrative")
    /\ \/ GoOn(p, IF "narrative" \in Admitted[table.check] THEN "remove_narrative" ELSE "probe_supersedes")
       \/ fileWorld.together /\ GoOn(p, "probe_supersedes")
    /\ UNCHANGED <<layout, table>>

\* A table rebuilt under a constraint: a row it rejects rolls the rebuild back and fails
\* the open.
Rebuild(p, rows, check, pc) ==
    IF rows \subseteq Admitted[check]
    THEN table' = [table EXCEPT !.check = check, !.rows = rows] /\ GoOn(p, pc)
    ELSE UNCHANGED table /\ GoOn(p, "out")

RemoveNarrative(p) ==
    /\ At(p, "remove_narrative")
    /\ Rebuild(p, table.rows \ {"narrative"}, "four", "probe_supersedes")
    /\ UNCHANGED layout

ProbeSupersedes(p) ==
    /\ At(p, "probe_supersedes")
    /\ GoOn(p, IF "supersedes" \in Admitted[table.check] THEN "cleanup" ELSE "add_supersedes")
    /\ UNCHANGED <<layout, table>>

AddSupersedes(p) ==
    /\ At(p, "add_supersedes")
    /\ Rebuild(p, table.rows, "five", "cleanup")
    /\ UNCHANGED layout

\* migrateEdgeRecallIndexes, then the insights of the narrative category are deleted; the
\* edges they have of other types stay behind.
Cleanup(p) ==
    /\ At(p, "cleanup")
    /\ table' = [table EXCEPT !.narrative = FALSE, !.stranded = @ \/ table.narrative]
    /\ GoOn(p, "open")
    /\ UNCHANGED layout

\* An open store takes a correction and a new vector; a constraint may still reject.
Writes(p) ==
    /\ At(p, "open")
    /\ table' = [table EXCEPT !.rows = @ \cup ({"causal", "supersedes"} \cap Admitted[table.check]),
                    !.vectors = @ \cup {"float32"}]
    /\ UNCHANGED <<layout, opener>>

Closes(p) ==
    /\ At(p, "open")
    /\ GoOn(p, "out")
    /\ UNCHANGED <<layout, table>>

\* A statement meets a busy database, or the database was moved by another before its
\* own rename, and the open fails.
Busy(p) ==
    /\ Opening(p) /\ opener[p] \notin {"move_wal", "probe_narrative"}
    /\ At(p, opener[p])
    /\ \E q \in Openers \ {p} : opener[q] # "out"
    /\ GoOn(p, "out")
    /\ UNCHANGED <<layout, table>>

Dies(p) ==
    /\ opener[p] # "out"
    /\ deaths < fileWorld.crashes
    /\ deaths' = deaths + 1
    /\ GoOn(p, "out")
    /\ UNCHANGED <<fileWorld, layout, table, opens, nameVars>>

(***************************************************************************)
(* Named stores (cmd/memory/store.go).  A command may be told which store  *)
(* is selected, by a flag or the environment; otherwise the active file    *)
(* says.                                                                   *)
(***************************************************************************)
ReadActive == IF active = "" THEN "default" ELSE active
resolveStoreName(selected) == IF selected # "" THEN selected ELSE ReadActive

NamesStep == opens < fileWorld.names /\ opens' = opens + 1
             /\ UNCHANGED <<fileWorld, layout, table, opener, deaths>>

\* store create, and any command on the store it resolves to (Open makes the directory).
StoreCreate ==
    /\ NamesStep
    /\ \E n \in Names \ stores : stores' = stores \cup {n}
    /\ UNCHANGED active

\* store set: the file is truncated and written in place.
StoreSet ==
    /\ NamesStep
    /\ \E n \in stores : active' \in {n, ""}
    /\ UNCHANGED stores

StoreRemove(selected) ==
    /\ NamesStep
    /\ \E n \in stores \ {resolveStoreName(selected)} : stores' = stores \ {n}
    /\ UNCHANGED active

FileNext ==
    \/ StoreCreate \/ StoreSet \/ StoreRemove("")
    \/ \E p \in Openers :
        \/ FileStart(p) \/ MoveDB(p) \/ MoveWAL(p) \/ Schema(p) \/ Columns(p)
        \/ Version(p) \/ Vectors(p) \/ ProbeNarrative(p) \/ RemoveNarrative(p)
        \/ ProbeSupersedes(p) \/ AddSupersedes(p) \/ Cleanup(p)
        \/ Writes(p) \/ Closes(p) \/ Busy(p) \/ Dies(p)

FileSpec == FileInit /\ [][FileNext]_fileVars

(***************************************************************************)
(* Once a process has the store open and no other is migrating it,         *)
(* narrative rows are gone and causal ones kept, and every vector is       *)
(* encoded as it is read, whatever other processes did or died in          *)
(* (migrate).  Four things are short of that.  The constraint admits       *)
(* every type when opens did not overlap; two that migrate a legacy file   *)
(* together can leave the one without supersedes, which the next open      *)
(* widens.  A vector is converted twice only when opens overlap and its    *)
(* components pair up.  The rows of a legacy log come with their database  *)
(* unless opens overlapped or one died.  And the edges of the narrative    *)
(* insights a legacy file had outlive them in every case.                  *)
(***************************************************************************)
OpenedIsCurrent ==
    (\E p \in Openers : opener[p] = "open") /\ (\A p \in Openers : ~Opening(p)) =>
        /\ table.check \in (IF fileWorld.together THEN {"four", "five"} ELSE {"five"})
        /\ "narrative" \notin table.rows
        /\ fileWorld.legacy => "causal" \in table.rows
        /\ table.columns /\ table.stored /\ ~table.narrative
        /\ table.stranded <=> fileWorld.legacy
        /\ table.version = 1
        /\ "float64" \notin table.vectors
        /\ "garbled" \in table.vectors => fileWorld.together /\ fileWorld.even
        /\ table.logged \in {"without", "replaced"} => fileWorld.together \/ deaths > 0
=============================================================================
