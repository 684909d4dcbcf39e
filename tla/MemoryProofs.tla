---------------------------- MODULE MemoryProofs ----------------------------
(***************************************************************************)
(* The graph memory for any number of processes and rows: opening its      *)
(* file, then its commands.  Last, the daemon, for any number of processes *)
(* that race for the writer's lock.                                        *)
(***************************************************************************)
EXTENDS StoreFile, GraphMemory, Runtime, TLAPS

-----------------------------------------------------------------------------
(* Opening the file of a store. *)

EdgeTypes == {"causal", "narrative", "supersedes"}
Encodings == {"float64", "float32", "malformed", "garbled"}

Table ==
    [made : {TRUE}, check : {"narrative", "four", "five"}, rows : SUBSET EdgeTypes,
     columns : BOOLEAN, stored : BOOLEAN, version : {0, 1},
     vectors : SUBSET Encodings, narrative : BOOLEAN, stranded : BOOLEAN,
     logged : {"none", "with", "without", "replaced"}]

\* Where an open can stand, by what the process has done so far.
Unmade == {"out", "move_db", "move_wal", "schema"}
Probing == {"probe_narrative", "remove_narrative", "probe_supersedes", "add_supersedes"}
Narrowed == {"cleanup", "open"}
Encoded == Probing \cup Narrowed
Stored == {"version", "vectors"} \cup Encoded
Places == {"columns"} \cup Unmade \cup Stored

\* The database agrees with itself whoever migrates it: a row is of a type its
\* constraint admits, the constraint that admits narrative rows has not been
\* replaced exactly when there are such rows, version 0 has no new vector and
\* version 1 no old one, and edges are left behind where insights were deleted.
TableSound ==
    /\ table.rows \subseteq Admitted[table.check]
    /\ "narrative" \in table.rows <=> table.check = "narrative"
    /\ fileWorld.legacy => "causal" \in table.rows
    /\ table.version = 0 => table.vectors \subseteq {"float64", "malformed"}
    /\ table.version = 1 => "float64" \notin table.vectors
    /\ "garbled" \in table.vectors => fileWorld.together /\ fileWorld.even
    /\ table.narrative => fileWorld.legacy
    /\ table.stranded <=> fileWorld.legacy /\ ~table.narrative

\* What a process that got this far knows of the database, for good.
Reached(p) ==
    /\ opener[p] \in Stored => table.columns /\ table.stored
    /\ opener[p] \in Encoded => table.version = 1
    /\ opener[p] \in Narrowed => table.check # "narrative"
    /\ opener[p] = "open" => ~table.narrative

\* One at a time: a version or a probe is still true when it is acted on.
Alone(p) ==
    /\ \A q \in Openers : Opening(p) /\ Opening(q) => p = q
    /\ opener[p] = "vectors" => table.version = 0
    /\ opener[p] = "remove_narrative" => table.check = "narrative"
    /\ opener[p] \in Narrowed => table.check = "five"

FInv ==
    /\ opener \in [Openers -> Places]
    /\ \/ /\ table = NoTable
          /\ ~fileWorld.legacy
          /\ \A p \in Openers : opener[p] \in Unmade
       \/ /\ table \in Table
          /\ TableSound
          /\ \A p \in Openers : Reached(p)
    /\ ~fileWorld.together => \A p \in Openers : Alone(p)

\* NoTable is not a database.
LEMMA NoTableIsNone == NoTable \notin Table
  BY Zenon DEF NoTable, Table

LEMMA AdmittedTypes ==
    /\ Admitted["narrative"] = {"causal", "narrative"}
    /\ Admitted["four"] = {"causal"}
    /\ Admitted["five"] = {"causal", "supersedes"}
  BY Zenon DEF Admitted

\* A legacy file satisfies the invariant, and so does a missing one.
LEMMA FileInitInv == FileInit => FInv
  <1> SUFFICES ASSUME FileInit PROVE FInv
    BY Zenon
  <1>0. /\ opener = [p \in Openers |-> "out"]
        /\ table = IF fileWorld.legacy THEN OldTable ELSE NoTable
    BY Zenon DEF FileInit
  <1>1. \A p \in Openers : opener[p] = "out"
    BY <1>0, Zenon
  <1>2. opener \in [Openers -> Places]
    BY <1>0, Zenon DEF Places, Unmade
  <1>3. \A p \in Openers : Alone(p)
    BY <1>1, Zenon DEF Alone, Opening, Narrowed
  <1>4. \A p \in Openers : Reached(p) /\ opener[p] \in Unmade
    BY <1>1, Zenon DEF Reached, Unmade, Stored, Encoded, Probing, Narrowed
  <1>5. fileWorld.legacy => table \in Table /\ TableSound
    <2>1. OldTable \in Table
      BY Zenon DEF OldTable, Table, EdgeTypes, Encodings
    <2>2. /\ OldTable.rows = {"causal", "narrative"} /\ OldTable.check = "narrative"
          /\ OldTable.version = 0 /\ OldTable.vectors = {"float64", "malformed"}
          /\ OldTable.narrative /\ ~OldTable.stranded
      BY Zenon DEF OldTable
    <2> QED
      BY <1>0, <2>1, <2>2, AdmittedTypes DEF TableSound
  <1> QED
    BY <1>0, <1>2, <1>3, <1>4, <1>5, Zenon DEF FInv

\* A process goes to pc and leaves the database alone.
LEMMA GoOnInv ==
    ASSUME FInv, NEW p \in Openers, NEW pc \in Places, GoOn(p, pc),
           UNCHANGED <<fileWorld, table>>,
           table = NoTable => pc \in Unmade,
           pc \in Stored => table.columns /\ table.stored,
           pc \in Encoded => table.version = 1,
           pc \in Narrowed => table.check # "narrative",
           pc = "open" => ~table.narrative,
           ~fileWorld.together =>
             /\ \/ pc \in {"out", "open"}
                \/ Opening(p)
                \/ \A q \in Openers : ~Opening(q)
             /\ pc = "vectors" => table.version = 0
             /\ pc = "remove_narrative" => table.check = "narrative"
             /\ pc \in Narrowed => table.check = "five"
    PROVE  FInv'
  <1>1. /\ opener' \in [Openers -> Places]
        /\ \A q \in Openers : opener'[q] = IF q = p THEN pc ELSE opener[q]
    BY Zenon DEF FInv, GoOn
  <1>2. CASE table = NoTable
    <2>1. \A q \in Openers : opener'[q] \in Unmade
      BY <1>1, <1>2, NoTableIsNone, Zenon DEF FInv
    <2>2. ~fileWorld.together => \A q \in Openers : Alone(q)'
      BY <1>1 DEF FInv, Alone, Opening
    <2> QED
      BY <1>1, <1>2, <2>1, <2>2, NoTableIsNone, Zenon DEF FInv
  <1>3. CASE table \in Table
    <2>1. TableSound'
      BY <1>3, NoTableIsNone, Zenon DEF FInv, TableSound
    <2>2. \A q \in Openers : Reached(q)'
      BY <1>1, <1>3, NoTableIsNone, Zenon DEF FInv, Reached
    <2>3. ~fileWorld.together => \A q \in Openers : Alone(q)'
      BY <1>1 DEF FInv, Alone, Opening
    <2> QED
      BY <1>1, <1>3, <2>1, <2>2, <2>3, Zenon DEF FInv
  <1> QED
    BY <1>2, <1>3, Zenon DEF FInv

\* A process changes the database and goes to pc; what others reached stays.
LEMMA ChangeInv ==
    ASSUME FInv, NEW p \in Openers, NEW pc \in Places, GoOn(p, pc), UNCHANGED fileWorld,
           table \in Table, table' \in Table, TableSound',
           table.columns => table'.columns,
           table.stored => table'.stored,
           table.version = 1 => table'.version = 1,
           table.check # "narrative" => table'.check # "narrative",
           ~table.narrative => ~table'.narrative,
           pc \in Stored => table'.columns /\ table'.stored,
           pc \in Encoded => table'.version = 1,
           pc \in Narrowed => table'.check # "narrative",
           pc = "open" => ~table'.narrative,
           ~fileWorld.together =>
             /\ pc \in {"out", "open"} \/ Opening(p)
             /\ pc = "vectors" => table'.version = 0
             /\ pc = "remove_narrative" => table'.check = "narrative"
             /\ pc \in Narrowed => table'.check = "five"
             /\ \/ table'.check = table.check
                \/ Opening(p) /\ (\A q \in Openers \ {p} : opener[q] \notin Narrowed)
             /\ table'.version = table.version \/ Opening(p)
    PROVE  FInv'
  <1>1. /\ opener' \in [Openers -> Places]
        /\ \A q \in Openers : opener'[q] = IF q = p THEN pc ELSE opener[q]
    BY Zenon DEF FInv, GoOn
  <1>2. \A q \in Openers : Reached(q)'
    BY <1>1, NoTableIsNone, Zenon DEF FInv, Reached
  <1>3. ~fileWorld.together => \A q \in Openers : Alone(q)'
    BY <1>1 DEF FInv, Alone, Opening
  <1> QED
    BY <1>1, <1>2, <1>3, Zenon DEF FInv

\* The database once the process is past the schema script.
LEMMA MadeTable ==
    ASSUME FInv, NEW p \in Openers, opener[p] \in {"columns"} \cup Stored
    PROVE  /\ table \in Table
           /\ TableSound
           /\ Reached(p)
           /\ table.check \in {"narrative", "four", "five"}
           /\ table.rows \subseteq EdgeTypes
           /\ table.version \in {0, 1}
           /\ table.vectors \subseteq Encodings
  BY Zenon DEF FInv, Unmade, Stored, Encoded, Probing, Narrowed, Table

\* Only what became of the log changes.
LEMMA LoggedInv ==
    ASSUME FInv, NEW p \in Openers, NEW pc \in Places, GoOn(p, pc), UNCHANGED fileWorld,
           table \in Table, NEW l \in {"without", "replaced"},
           table' = table \/ table' = [table EXCEPT !.logged = l],
           Opening(p), pc \notin Stored, pc # "out", pc # "open"
    PROVE  FInv'
  <1> USE DEF Places, Unmade, Stored, Encoded, Probing, Narrowed
  <1>1. /\ table' \in Table /\ table'.columns = table.columns /\ table'.stored = table.stored
        /\ table'.check = table.check /\ table'.rows = table.rows
        /\ table'.version = table.version /\ table'.vectors = table.vectors
        /\ table'.narrative = table.narrative /\ table'.stranded = table.stranded
    BY Zenon DEF Table
  <1>2. TableSound
    BY NoTableIsNone, Zenon DEF FInv
  <1>3. TableSound'
    BY <1>1, <1>2, Zenon DEF TableSound
  <1>4. /\ table.columns => table'.columns
        /\ table.stored => table'.stored
        /\ ~table.narrative => ~table'.narrative
    BY <1>1, Zenon
  <1> QED
    BY <1>1, <1>3, <1>4, ChangeInv, Zenon

LEMMA SchemaInv ==
    ASSUME FInv, NEW p \in Openers, Schema(p)
    PROVE  FInv'
  <1> USE DEF Places, Unmade, Stored, Encoded, Probing, Narrowed
  <1>1. /\ opener[p] = "schema" /\ GoOn(p, "columns") /\ UNCHANGED fileWorld
        /\ table' = IF ~table.made THEN NewTable
                    ELSE IF layout.wal = "old" /\ table.logged = "with"
                         THEN [table EXCEPT !.logged = "without"]
                         ELSE table
    BY Zenon DEF Schema, At
  <1>2. CASE table \in Table
    <2>1. table' = table \/ table' = [table EXCEPT !.logged = "without"]
      BY <1>1, <1>2, Zenon DEF Table
    <2>2. "columns" \in Places /\ "columns" \notin Stored
      BY Zenon
    <2> QED
      BY <1>1, <1>2, <2>1, <2>2, LoggedInv, Zenon DEF Opening
  <1>3. CASE table = NoTable
    <2>1. table' = NewTable
      BY <1>1, <1>3, Zenon DEF NoTable
    <2>2. NewTable \in Table
      BY Zenon DEF NewTable, Table, EdgeTypes, Encodings
    <2>3. TableSound'
      <3>1. /\ NewTable.rows = {} /\ NewTable.check = "five" /\ NewTable.version = 0
            /\ NewTable.vectors = {} /\ ~NewTable.narrative /\ ~NewTable.stranded
        BY Zenon DEF NewTable
      <3> QED
        BY <1>1, <1>3, <2>1, <3>1, NoTableIsNone DEF FInv, TableSound
    <2>4. /\ opener' \in [Openers -> Places]
          /\ \A q \in Openers : opener'[q] = IF q = p THEN "columns" ELSE opener[q]
      BY <1>1, Zenon DEF FInv, GoOn
    <2>5. \A q \in Openers : opener[q] \in Unmade
      BY <1>3, NoTableIsNone, Zenon DEF FInv
    <2>6. \A q \in Openers : Reached(q)'
      BY <2>4, <2>5, Zenon DEF Reached
    <2>7. ~fileWorld.together => \A q \in Openers : Alone(q)'
      BY <1>1, <2>4, <2>5, Zenon DEF FInv, Alone, Opening
    <2> QED
      BY <1>1, <2>1, <2>2, <2>3, <2>4, <2>6, <2>7, Zenon DEF FInv
  <1> QED
    BY <1>2, <1>3, Zenon DEF FInv

LEMMA ColumnsInv ==
    ASSUME FInv, NEW p \in Openers, Columns(p)
    PROVE  FInv'
  <1> USE DEF Places, Unmade, Stored, Encoded, Probing, Narrowed
  <1>1. /\ opener[p] = "columns" /\ GoOn(p, "version") /\ UNCHANGED fileWorld
        /\ table' = [table EXCEPT !.columns = TRUE, !.stored = TRUE]
    BY Zenon DEF Columns, At
  <1>2. table \in Table /\ TableSound
    BY <1>1, MadeTable, Zenon
  <1>3. /\ table' \in Table /\ table'.columns /\ table'.stored
        /\ table'.check = table.check /\ table'.rows = table.rows
        /\ table'.version = table.version /\ table'.vectors = table.vectors
        /\ table'.narrative = table.narrative /\ table'.stranded = table.stranded
    BY <1>1, <1>2, Zenon DEF Table
  <1>4. TableSound'
    BY <1>1, <1>2, <1>3, Zenon DEF TableSound
  <1>5. ~table.narrative => ~table'.narrative
    BY <1>3, Zenon
  <1> QED
    BY <1>1, <1>2, <1>3, <1>4, <1>5, ChangeInv, Zenon DEF Opening

\* A second run of migrateEmbeddingsToFloat32 finds nothing to convert, unless
\* opens overlap and components pair up.
LEMMA VectorsInv ==
    ASSUME FInv, NEW p \in Openers, Vectors(p)
    PROVE  FInv'
  <1> USE DEF Places, Unmade, Stored, Encoded, Probing, Narrowed
  <1> DEFINE now == {IF looksLikeLegacyVector(v) THEN Float32(v) ELSE v : v \in table.vectors}
  <1>1. /\ opener[p] = "vectors" /\ GoOn(p, "probe_narrative") /\ UNCHANGED fileWorld
        /\ table' = [table EXCEPT !.version = 1, !.vectors = now]
    BY Zenon DEF Vectors, At
  <1>2. /\ table \in Table /\ TableSound /\ Reached(p)
        /\ table.vectors \subseteq Encodings
    BY <1>1, MadeTable, Zenon
  <1>3. /\ now \subseteq Encodings /\ "float64" \notin now
        /\ "garbled" \in now => "garbled" \in table.vectors
                               \/ ("float32" \in table.vectors /\ fileWorld.even)
    <2>1. ASSUME NEW x \in now
          PROVE  /\ x \in Encodings /\ x # "float64"
                 /\ x = "garbled" => "garbled" \in table.vectors
                                      \/ ("float32" \in table.vectors /\ fileWorld.even)
      <3>1. PICK v \in table.vectors : x = IF looksLikeLegacyVector(v) THEN Float32(v) ELSE v
        BY <2>1, Zenon
      <3>2. v \in Encodings
        BY <1>2, <3>1, Zenon
      <3> QED
        <4>1. CASE v = "float64"
          BY <3>1, <4>1, Zenon DEF looksLikeLegacyVector, Float32, Encodings
        <4>2. CASE v = "float32"
          BY <3>1, <4>2, Zenon DEF looksLikeLegacyVector, Float32, Encodings
        <4>3. CASE v = "malformed"
          BY <3>1, <4>3, Zenon DEF looksLikeLegacyVector, Encodings
        <4>4. CASE v = "garbled"
          BY <3>1, <4>4, Zenon DEF looksLikeLegacyVector, Encodings
        <4> QED
          BY <3>2, <4>1, <4>2, <4>3, <4>4, Zenon DEF Encodings
    <2> QED
      BY <2>1, Zenon
  <1>7. "float32" \in table.vectors => fileWorld.together
    <2>1. ~fileWorld.together => table.vectors \subseteq {"float64", "malformed"}
      BY <1>1, <1>2, Zenon DEF FInv, Alone, TableSound
    <2> QED
      BY <2>1, Zenon
  <1> HIDE DEF now
  <1>4. /\ table' \in Table /\ table'.version = 1 /\ table'.vectors = now
        /\ table'.columns = table.columns /\ table'.stored = table.stored
        /\ table'.check = table.check /\ table'.rows = table.rows
        /\ table'.narrative = table.narrative /\ table'.stranded = table.stranded
    <2>1. now \in SUBSET Encodings /\ 1 \in {0, 1}
      BY <1>3, Zenon
    <2> QED
      BY <1>1, <1>2, <2>1, Zenon DEF Table
  <1>5. TableSound'
    <2>1. "garbled" \in now => fileWorld.together /\ fileWorld.even
      BY <1>2, <1>3, <1>7, Zenon DEF TableSound
    <2>2. table'.version # 0
      BY <1>4
    <2> QED
      BY <1>1, <1>2, <1>3, <1>4, <2>1, <2>2, Zenon DEF TableSound
  <1>6. /\ table.columns => table'.columns
        /\ table.stored => table'.stored
        /\ ~table.narrative => ~table'.narrative
    BY <1>4, Zenon
  <1> QED
    BY <1>1, <1>2, <1>4, <1>5, <1>6, ChangeInv, Zenon DEF Opening, Reached

\* A rebuild keeps every row but the narrative ones, and never brings back the
\* constraint that admits those.
LEMMA RebuildInv ==
    ASSUME FInv, NEW p \in Openers, NEW rows, NEW check \in {"four", "five"},
           NEW pc \in {"probe_supersedes", "cleanup"},
           opener[p] \in {"remove_narrative", "add_supersedes"},
           rows = table.rows \ {"narrative"} \/ rows = table.rows,
           pc = "cleanup" => check = "five",
           check = "four" => opener[p] = "remove_narrative",
           Rebuild(p, rows, check, pc), UNCHANGED fileWorld
    PROVE  FInv'
  <1> USE DEF Places, Unmade, Stored, Encoded, Probing, Narrowed
  <1>1. /\ table \in Table /\ TableSound /\ Reached(p)
        /\ table.rows \subseteq EdgeTypes
        /\ table.check \in {"narrative", "four", "five"}
    BY MadeTable, Zenon
  <1>2. CASE rows \subseteq Admitted[check]
    <2>1. table' = [table EXCEPT !.check = check, !.rows = rows] /\ GoOn(p, pc)
      BY <1>2, Zenon DEF Rebuild
    <2>2. "narrative" \notin rows /\ rows \in SUBSET EdgeTypes
      BY <1>1, <1>2, AdmittedTypes
    <2>3. /\ table' \in Table /\ table'.check = check /\ table'.rows = rows
          /\ table'.columns = table.columns /\ table'.stored = table.stored
          /\ table'.version = table.version /\ table'.vectors = table.vectors
          /\ table'.narrative = table.narrative /\ table'.stranded = table.stranded
      <3>1. check \in {"narrative", "four", "five"}
        BY Zenon
      <3> QED
        BY <1>1, <2>1, <2>2, <3>1, Zenon DEF Table
    <2>4. TableSound'
      BY <1>1, <1>2, <2>2, <2>3, Zenon DEF TableSound
    <2>5. ~fileWorld.together =>
            \/ table'.check = table.check
            \/ \A q \in Openers \ {p} : opener[q] \notin Narrowed
      BY <2>3, Zenon DEF FInv, Alone
    <2>6. /\ table.columns => table'.columns
          /\ table.stored => table'.stored
          /\ ~table.narrative => ~table'.narrative
      BY <2>3, Zenon
    <2> QED
      BY <1>1, <2>1, <2>3, <2>4, <2>5, <2>6, ChangeInv, Zenon DEF Opening, Reached
  <1>3. CASE ~(rows \subseteq Admitted[check])
    <2>1. UNCHANGED table /\ GoOn(p, "out")
      BY <1>3, Zenon DEF Rebuild
    <2> QED
      BY <1>1, <2>1, GoOnInv, NoTableIsNone, Zenon
  <1> QED
    BY <1>2, <1>3, Zenon

LEMMA CleanupInv ==
    ASSUME FInv, NEW p \in Openers, Cleanup(p)
    PROVE  FInv'
  <1> USE DEF Places, Unmade, Stored, Encoded, Probing, Narrowed
  <1>1. /\ opener[p] = "cleanup" /\ GoOn(p, "open") /\ UNCHANGED fileWorld
        /\ table' = [table EXCEPT !.narrative = FALSE, !.stranded = @ \/ table.narrative]
    BY Zenon DEF Cleanup, At
  <1>2. table \in Table /\ TableSound /\ Reached(p)
    BY <1>1, MadeTable, Zenon
  <1>3. /\ table' \in Table /\ ~table'.narrative
        /\ table'.stranded <=> table.stranded \/ table.narrative
        /\ table'.columns = table.columns /\ table'.stored = table.stored
        /\ table'.check = table.check /\ table'.rows = table.rows
        /\ table'.version = table.version /\ table'.vectors = table.vectors
    BY <1>1, <1>2, Zenon DEF Table
  <1>4. TableSound'
    BY <1>1, <1>2, <1>3, Zenon DEF TableSound
  <1>5. (table.columns => table'.columns) /\ (table.stored => table'.stored)
    BY <1>3, Zenon
  <1>6. ~fileWorld.together => table.check = "five"
    BY <1>1, Zenon DEF FInv, Alone
  <1> QED
    BY <1>1, <1>2, <1>3, <1>4, <1>5, <1>6, ChangeInv, Zenon DEF Opening, Reached

LEMMA WritesInv ==
    ASSUME FInv, NEW p \in Openers, Writes(p)
    PROVE  FInv'
  <1> USE DEF Places, Unmade, Stored, Encoded, Probing, Narrowed
  <1> DEFINE more == table.rows \cup ({"causal", "supersedes"} \cap Admitted[table.check])
             now == table.vectors \cup {"float32"}
  <1>1. /\ opener[p] = "open" /\ UNCHANGED <<opener, fileWorld>>
        /\ table' = [table EXCEPT !.rows = more, !.vectors = now]
    BY Zenon DEF Writes, At
  <1>2. GoOn(p, "open")
    BY <1>1, Zenon DEF FInv, GoOn
  <1>3. /\ table \in Table /\ TableSound /\ Reached(p)
        /\ table.rows \subseteq EdgeTypes
        /\ table.check \in {"narrative", "four", "five"}
        /\ table.vectors \subseteq Encodings
    BY <1>1, MadeTable, Zenon
  <1>4. more \in SUBSET EdgeTypes /\ now \in SUBSET Encodings
    BY <1>3, Zenon DEF EdgeTypes, Encodings
  <1>5. /\ more \subseteq Admitted[table.check]
        /\ "narrative" \in more <=> "narrative" \in table.rows
        /\ table.rows \subseteq more
    BY <1>3, Zenon DEF TableSound
  <1>6. /\ "float64" \in now <=> "float64" \in table.vectors
        /\ "garbled" \in now <=> "garbled" \in table.vectors
    BY Zenon
  <1> HIDE DEF more, now
  <1>7. /\ table' \in Table /\ table'.rows = more /\ table'.vectors = now
        /\ table'.columns = table.columns /\ table'.stored = table.stored
        /\ table'.check = table.check
        /\ table'.version = table.version /\ table'.narrative = table.narrative
        /\ table'.stranded = table.stranded
    BY <1>1, <1>3, <1>4, Zenon DEF Table
  <1>8. TableSound'
    <2>1. table'.version # 0
      BY <1>1, <1>3, <1>7 DEF Reached
    <2> QED
      BY <1>1, <1>3, <1>5, <1>6, <1>7, <2>1, Zenon DEF TableSound
  <1>9. /\ table.columns => table'.columns
        /\ table.stored => table'.stored
        /\ ~table.narrative => ~table'.narrative
    BY <1>7, Zenon
  <1>10. ~fileWorld.together => table.check = "five"
    BY <1>1, Zenon DEF FInv, Alone
  <1> QED
    BY <1>1, <1>2, <1>3, <1>7, <1>8, <1>9, <1>10, ChangeInv, Zenon DEF Opening, Reached

LEMMA FileStepInv ==
    ASSUME FInv, [FileNext]_fileVars
    PROVE  FInv'
  <1> USE DEF Places, Unmade, Stored, Encoded, Probing, Narrowed
  <1>1. CASE UNCHANGED <<fileWorld, table, opener>>
    BY <1>1, Zenon DEF FInv, TableSound, Reached, Alone, Opening
  <1>2. ASSUME NEW p \in Openers, FileStart(p) PROVE FInv'
    BY <1>2, GoOnInv, Zenon DEF FileStart
  <1>3. ASSUME NEW p \in Openers, MoveDB(p) PROVE FInv'
    BY <1>3, GoOnInv, Zenon DEF MoveDB, At, Opening
  <1>11. ASSUME NEW p \in Openers, MoveWAL(p) PROVE FInv'
    <2>1. /\ opener[p] = "move_wal" /\ GoOn(p, "schema") /\ UNCHANGED fileWorld
          /\ table' = table \/ table' = [table EXCEPT !.logged = "replaced"]
      BY <1>11, Zenon DEF MoveWAL, At
    <2>2. CASE table \in Table
      <3>1. /\ "schema" \in Places /\ "schema" \notin Stored /\ "schema" # "out" /\ "schema" # "open"
            /\ "replaced" \in {"without", "replaced"}
        BY Zenon
      <3>2. Opening(p)
        BY <2>1, Zenon DEF Opening
      <3> QED
        BY <2>1, <2>2, <3>1, <3>2, LoggedInv, Zenon
    <2>3. CASE table = NoTable
      <3>1. table' = table
        BY <1>11, <2>3, Zenon DEF MoveWAL, NoTable
      <3> QED
        BY <2>1, <2>3, <3>1, GoOnInv, Zenon DEF Opening
    <2> QED
      BY <2>2, <2>3, Zenon DEF FInv
  <1>4. ASSUME NEW p \in Openers, Version(p) PROVE FInv'
    BY <1>4, GoOnInv, MadeTable, NoTableIsNone DEF Version, At, Opening, Reached
  <1>5. ASSUME NEW p \in Openers, ProbeNarrative(p) PROVE FInv'
    <2>1. /\ table \in Table /\ table # NoTable /\ Reached(p) /\ opener[p] = "probe_narrative"
          /\ UNCHANGED <<fileWorld, table>>
          /\ table.check \in {"narrative", "four", "five"}
      BY <1>5, MadeTable, NoTableIsNone, Zenon DEF ProbeNarrative, At
    <2>2. \/ GoOn(p, "probe_supersedes")
          \/ GoOn(p, "remove_narrative") /\ table.check = "narrative"
      BY <1>5, <2>1, AdmittedTypes DEF ProbeNarrative
    <2> QED
      BY <2>1, <2>2, GoOnInv, Zenon DEF Opening, Reached
  <1>6. ASSUME NEW p \in Openers, RemoveNarrative(p) PROVE FInv'
    BY <1>6, RebuildInv, Zenon DEF RemoveNarrative, At
  <1>7. ASSUME NEW p \in Openers, ProbeSupersedes(p) PROVE FInv'
    <2>1. /\ table \in Table /\ table # NoTable /\ Reached(p) /\ opener[p] = "probe_supersedes"
          /\ UNCHANGED <<fileWorld, table>>
          /\ table.check \in {"narrative", "four", "five"}
      BY <1>7, MadeTable, NoTableIsNone, Zenon DEF ProbeSupersedes, At
    <2>2. \/ GoOn(p, "add_supersedes")
          \/ GoOn(p, "cleanup") /\ table.check = "five"
      BY <1>7, <2>1, AdmittedTypes, Zenon DEF ProbeSupersedes
    <2> QED
      BY <2>1, <2>2, GoOnInv, Zenon DEF Opening, Reached
  <1>8. ASSUME NEW p \in Openers, AddSupersedes(p) PROVE FInv'
    BY <1>8, RebuildInv, Zenon DEF AddSupersedes, At
  <1>9. ASSUME NEW p \in Openers, Closes(p) \/ Busy(p) \/ Dies(p) PROVE FInv'
    BY <1>9, GoOnInv, Zenon DEF Closes, Busy, Dies, At
  <1>10. CASE StoreCreate \/ StoreSet \/ StoreRemove("")
    BY <1>1, <1>10, Zenon DEF StoreCreate, StoreSet, StoreRemove, NamesStep
  <1> QED
    BY <1>1, <1>2, <1>3, <1>4, <1>5, <1>6, <1>7, <1>8, <1>9, <1>10, <1>11,
       SchemaInv, ColumnsInv, VectorsInv, CleanupInv, WritesInv, Zenon DEF FileNext, fileVars

\* Opens that neither overlap nor die: the log is only behind its database while
\* the process that moves both is between the two renames.
LogMoves ==
    /\ table \in Table => table.logged \in {"none", "with"}
    /\ layout.wal = "old" => layout.db = "old" \/ \E p \in Openers : opener[p] = "move_wal"
    /\ layout.db = "old" => \A p \in Openers : opener[p] \in {"out", "move_db"}

LInv == layout \in [db : {"none", "old", "new"}, wal : {"none", "old", "new"}]

LogInv ==
    /\ deaths \in Nat
    /\ LInv
    /\ ~fileWorld.together /\ deaths = 0 => LogMoves

\* A step of a process that is not between the renames, and leaves the log alone.
LEMMA LogStays ==
    ASSUME FInv, LogMoves, NEW p \in Openers, NEW pc, GoOn(p, pc), UNCHANGED layout,
           opener[p] # "move_wal",
           layout.db = "old" => pc \in {"out", "move_db"},
           table' \in Table => table'.logged \in {"none", "with"}
    PROVE  LogMoves'
  <1>1. \A q \in Openers : opener'[q] = IF q = p THEN pc ELSE opener[q]
    BY Zenon DEF FInv, GoOn
  <1> QED
    BY <1>1, Zenon DEF LogMoves

\* What the statements of migrate do not change.
LEMMA LogKept ==
    ASSUME FInv, FInv', NEW p \in Openers,
           Columns(p) \/ Vectors(p) \/ RemoveNarrative(p) \/ AddSupersedes(p) \/ Cleanup(p)
             \/ Writes(p)
    PROVE  table'.logged = table.logged /\ table \in Table
  <1>1. opener[p] \in {"columns"} \cup Stored
    BY Zenon DEF Columns, Vectors, RemoveNarrative, AddSupersedes, Cleanup, Writes, At,
                 Stored, Encoded, Probing, Narrowed
  <1>2. table \in Table
    BY <1>1, MadeTable, Zenon
  <1>3. CASE Columns(p)
    BY <1>2, <1>3, Zenon DEF Columns, Table
  <1>4. CASE Vectors(p)
    BY <1>2, <1>4, Zenon DEF Vectors, Table
  <1>5. CASE RemoveNarrative(p)
    BY <1>2, <1>5, Zenon DEF RemoveNarrative, Rebuild, Table
  <1>6. CASE AddSupersedes(p)
    BY <1>2, <1>6, Zenon DEF AddSupersedes, Rebuild, Table
  <1>7. CASE Cleanup(p)
    BY <1>2, <1>7, Zenon DEF Cleanup, Table
  <1>8. CASE Writes(p)
    BY <1>2, <1>8, Zenon DEF Writes, Table
  <1> QED
    BY <1>2, <1>3, <1>4, <1>5, <1>6, <1>7, <1>8, Zenon

LEMMA LogStepInv ==
    ASSUME FInv, FInv', LogInv, [FileNext]_fileVars
    PROVE  LogInv'
  <1>0. LInv /\ deaths \in Nat
    BY Zenon DEF LogInv
  <1>1. CASE UNCHANGED <<fileWorld, layout, table, opener, deaths>>
    BY <1>1, Zenon DEF LogInv, LogMoves, LInv
  <1>2. ASSUME NEW p \in Openers, Dies(p) PROVE LogInv'
    <2>1. deaths' = deaths + 1 /\ UNCHANGED layout
      BY <1>2, Zenon DEF Dies
    <2>2. deaths' \in Nat /\ deaths' # 0
      BY <1>0, <2>1
    <2> QED
      BY <1>0, <2>1, <2>2, Zenon DEF LogInv, LInv
  <1>3. CASE StoreCreate \/ StoreSet \/ StoreRemove("")
    BY <1>1, <1>3, Zenon DEF StoreCreate, StoreSet, StoreRemove, NamesStep
  <1>4. ASSUME NEW p \in Openers, UNCHANGED <<fileWorld, deaths>>,
               \/ FileStart(p) \/ MoveDB(p) \/ MoveWAL(p) \/ Schema(p) \/ Columns(p)
               \/ Version(p) \/ Vectors(p) \/ ProbeNarrative(p) \/ RemoveNarrative(p)
               \/ ProbeSupersedes(p) \/ AddSupersedes(p) \/ Cleanup(p)
               \/ Writes(p) \/ Closes(p) \/ Busy(p)
        PROVE  LogInv'
    <2>0. LInv'
      <3>1. \/ UNCHANGED layout
            \/ layout' = [layout EXCEPT !.db = "new"]
            \/ layout' = [layout EXCEPT !.wal = "new"]
        BY <1>4, Zenon DEF FileStart, MoveDB, MoveWAL, Schema, Columns, Version, Vectors,
           ProbeNarrative, RemoveNarrative, ProbeSupersedes, AddSupersedes, Cleanup, Writes,
           Closes, Busy
      <3> QED
        BY <1>0, <3>1 DEF LInv
    <2> SUFFICES ASSUME ~fileWorld.together, LogMoves PROVE LogMoves'
      BY <1>0, <1>4, <2>0, Zenon DEF LogInv
    <2>1. CASE FileStart(p)
      BY <2>1, LogStays, Zenon DEF FileStart, LogMoves
    <2>2. CASE MoveDB(p)
      <3>1. CASE layout.db = "old"
        <4>1. /\ layout' = [layout EXCEPT !.db = "new"] /\ GoOn(p, "move_wal") /\ UNCHANGED table
          BY <2>2, <3>1, Zenon DEF MoveDB
        <4>2. opener'[p] = "move_wal" /\ layout'.db # "old"
          BY <1>0, <4>1 DEF FInv, GoOn, LInv
        <4> QED
          BY <4>1, <4>2, Zenon DEF LogMoves
      <3>2. CASE layout.db # "old"
        BY <2>2, <3>2, LogStays, Zenon DEF MoveDB, At, LogMoves
      <3> QED
        BY <3>1, <3>2, Zenon
    <2>3. CASE MoveWAL(p)
      <3>1. opener[p] = "move_wal" /\ layout.db # "old"
        BY <2>3, Zenon DEF MoveWAL, At, LogMoves
      <3>2. layout' = IF layout.wal = "old" THEN [layout EXCEPT !.wal = "new"] ELSE layout
        BY <2>3, Zenon DEF MoveWAL
      <3>3. layout'.wal # "old" /\ layout'.db # "old"
        BY <1>0, <3>1, <3>2 DEF LInv
      <3>4. table' \in Table => table'.logged \in {"none", "with"}
        <4>1. CASE table \in Table
          BY <2>3, <4>1, Zenon DEF MoveWAL, LogMoves
        <4>2. CASE table = NoTable
          BY <2>3, <4>2, NoTableIsNone, Zenon DEF MoveWAL, NoTable
        <4> QED
          BY <4>1, <4>2, Zenon DEF FInv
      <3> QED
        BY <3>3, <3>4, Zenon DEF LogMoves
    <2>4. CASE Schema(p)
      <3>1. opener[p] = "schema" /\ GoOn(p, "columns")
        BY <2>4, Zenon DEF Schema, At
      <3>2. layout.db # "old"
        BY <3>1, Zenon DEF LogMoves
      <3>3. \A q \in Openers : opener[q] # "move_wal"
        BY <3>1, Zenon DEF FInv, Alone, Opening
      <3>4. layout.wal # "old"
        BY <3>2, <3>3, Zenon DEF LogMoves
      <3>5. layout'.wal # "old" /\ layout'.db # "old"
        BY <1>0, <2>4, <3>2, <3>4 DEF Schema, LInv
      <3>6. table' = table \/ table' = NewTable
        BY <2>4, <3>4, Zenon DEF Schema
      <3>7. NewTable.logged = "none"
        BY Zenon DEF NewTable
      <3> QED
        BY <3>5, <3>6, <3>7, Zenon DEF LogMoves
    <2>5. CASE Columns(p) \/ Vectors(p) \/ RemoveNarrative(p) \/ AddSupersedes(p) \/ Cleanup(p)
                 \/ Writes(p)
      <3>1. /\ UNCHANGED layout /\ \E pc \in Places : GoOn(p, pc)
            /\ opener[p] \notin {"out", "move_db", "move_wal"}
        <4> USE DEF Places, Unmade, Stored, Encoded, Probing, Narrowed
        <4>1. CASE Columns(p) \/ Vectors(p) \/ Cleanup(p)
          BY <4>1, Zenon DEF Columns, Vectors, Cleanup, At
        <4>2. CASE RemoveNarrative(p) \/ AddSupersedes(p)
          BY <4>2, Zenon DEF RemoveNarrative, AddSupersedes, Rebuild, At
        <4>3. CASE Writes(p)
          BY <4>3, Zenon DEF Writes, At, GoOn, FInv
        <4> QED
          BY <2>5, <4>1, <4>2, <4>3, Zenon
      <3> QED
        BY <2>5, <3>1, LogKept, LogStays, Zenon DEF LogMoves
    <2>6. CASE Version(p) \/ ProbeNarrative(p) \/ ProbeSupersedes(p) \/ Closes(p) \/ Busy(p)
      <3>1. /\ UNCHANGED <<layout, table>> /\ opener[p] # "move_wal"
            /\ \/ GoOn(p, "out")
               \/ opener[p] \notin {"out", "move_db"} /\ \E pc \in Places : GoOn(p, pc)
        BY <2>6, Zenon DEF Version, ProbeNarrative, ProbeSupersedes, Closes, Busy, At,
                           Places, Unmade, Stored, Encoded, Probing, Narrowed
      <3> QED
        BY <3>1, LogStays, Zenon DEF LogMoves
    <2> QED
      BY <1>4, <2>1, <2>2, <2>3, <2>4, <2>5, <2>6, Zenon
  <1>5. ASSUME NEW p \in Openers,
               \/ FileStart(p) \/ MoveDB(p) \/ MoveWAL(p) \/ Schema(p) \/ Columns(p)
               \/ Version(p) \/ Vectors(p) \/ ProbeNarrative(p) \/ RemoveNarrative(p)
               \/ ProbeSupersedes(p) \/ AddSupersedes(p) \/ Cleanup(p)
               \/ Writes(p) \/ Closes(p) \/ Busy(p)
        PROVE  UNCHANGED <<fileWorld, deaths>>
    BY <1>5, Zenon DEF FileStart, MoveDB, MoveWAL, Schema, Columns, Version, Vectors,
       ProbeNarrative, RemoveNarrative, ProbeSupersedes, AddSupersedes, Cleanup, Writes,
       Closes, Busy, At
  <1> QED
    BY <1>1, <1>2, <1>3, <1>4, <1>5, Zenon DEF FileNext, fileVars

\* Whatever processes migrate the file at once, fail or die half way, a store
\* that is open and left alone has the current schema; its vectors were converted
\* once and its log was taken along, save where opens overlapped (and, for the
\* vectors, components pair up; for the log, or where one died).
THEOREM OpenStoreIsMigrated == FileSpec => []OpenedIsCurrent
  <1>1. FInv /\ LogInv => OpenedIsCurrent
    <2> SUFFICES ASSUME FInv, LogInv, NEW p \in Openers, opener[p] = "open",
                        \A q \in Openers : ~Opening(q)
                 PROVE  /\ table.check \in (IF fileWorld.together THEN {"four", "five"} ELSE {"five"})
                        /\ "narrative" \notin table.rows
                        /\ fileWorld.legacy => "causal" \in table.rows
                        /\ table.columns /\ table.stored /\ ~table.narrative
                        /\ table.stranded <=> fileWorld.legacy
                        /\ table.version = 1
                        /\ "float64" \notin table.vectors
                        /\ "garbled" \in table.vectors => fileWorld.together /\ fileWorld.even
                        /\ table.logged \in {"without", "replaced"} => fileWorld.together \/ deaths > 0
      BY Zenon DEF OpenedIsCurrent
    <2> USE DEF Unmade, Stored, Encoded, Probing, Narrowed
    <2>1. /\ table \in Table /\ TableSound /\ Reached(p)
          /\ table.check \in {"narrative", "four", "five"}
      BY MadeTable, Zenon
    <2>2. ~fileWorld.together => table.check = "five"
      BY Zenon DEF FInv, Alone
    <2>3. table.logged \in {"without", "replaced"} => fileWorld.together \/ deaths > 0
      <3>1. ~fileWorld.together /\ deaths = 0 => table.logged \in {"none", "with"}
        BY <2>1, Zenon DEF LogInv, LogMoves
      <3>2. deaths # 0 => deaths > 0
        BY DEF LogInv
      <3> QED
        BY <3>1, <3>2, Zenon
    <2> QED
      BY <2>1, <2>2, <2>3, Zenon DEF TableSound, Reached
  <1>2. FileInit => LogInv
    <2> SUFFICES ASSUME FileInit PROVE LogInv
      BY Zenon
    <2>1. /\ opener = [p \in Openers |-> "out"] /\ deaths = 0
          /\ table = IF fileWorld.legacy THEN OldTable ELSE NoTable
          /\ layout = [db |-> IF fileWorld.legacy THEN "old" ELSE "none",
                       wal |-> IF fileWorld.legacy /\ fileWorld.wal THEN "old" ELSE "none"]
      BY Zenon DEF FileInit
    <2>2. table \in Table => table.logged \in {"none", "with"}
      BY <2>1, NoTableIsNone, Zenon DEF OldTable
    <2>3. layout.wal = "old" => layout.db = "old"
      BY <2>1
    <2>4. LInv
      BY <2>1 DEF LInv
    <2>5. \A p \in Openers : opener[p] = "out"
      BY <2>1, Zenon
    <2>6. deaths \in Nat
      BY <2>1
    <2> QED
      BY <2>2, <2>3, <2>4, <2>5, <2>6, Zenon DEF LogInv, LogMoves
  <1> QED
    BY <1>1, <1>2, FileInitInv, FileStepInv, LogStepInv, PTL DEF FileSpec

-----------------------------------------------------------------------------
(***************************************************************************)
(* Graph memory.  The invariant follows the one command that runs: what it *)
(* read and will link to is still active when it writes, and only a forget *)
(* between its two writes leaves edges at a deleted insight.               *)
(***************************************************************************)
IsRow(r) ==
    r = [content |-> r.content, at |-> r.at, access |-> r.access, aged |-> r.aged,
         idle |-> r.idle, embedded |-> r.embedded, ei |-> r.ei, deleted |-> r.deleted]

IsList(l, n) == n \in Nat /\ Len(l) = n /\ l = [i \in 1 .. n |-> l[i]]

IsTable(rows) == IsList(rows, Len(rows)) /\ \A i \in 1 .. Len(rows) : IsRow(rows[i])

\* Both ends of every edge are in S.
Within(es, S) == \A e \in es : e.s \in S /\ e.t \in S

\* What a running command remembers of the tables.
Doing(r, live) ==
    \/ r = Idle
    \/ /\ r = [op |-> "remember", content |-> r.content, embeds |-> r.embeds, dup |-> r.dup,
               cache |-> r.cache]
       /\ r.cache \subseteq live
    \/ /\ r = [op |-> "link", at |-> r.at, edge |-> r.edge]
       /\ r.edge.s \in live /\ r.edge.t \in live
    \/ r = [op |-> "forget", id |-> r.id]
    \/ /\ r = [op |-> "import", draft |-> r.draft, at |-> r.at, i |-> r.i, dup |-> r.dup,
               imported |-> r.imported, mine |-> r.mine, embeds |-> r.embeds, cache |-> r.cache]
       /\ r.draft \in Drafts
       /\ r.dup \subseteq live /\ r.cache \subseteq live
       /\ r.i \in Nat /\ IsList(r.imported, r.i - 1)
       /\ \A k \in 1 .. r.i - 1 : r.imported[k] = 0 \/ r.imported[k] \in live

\* The insights edges may still touch: the active ones and the one being forgotten.
Touchable(r, live) == live \cup (IF r.op = "forget" THEN {r.id} ELSE {})

Calm == world.alone /\ world.crashes = 0

Running ==
    /\ crashes \in Nat
    /\ IsTable(insights)
    /\ proc = [p \in Procs |-> proc[p]]
    /\ \A p, q \in Procs : proc[p] # Idle /\ proc[q] # Idle => p = q
    /\ \A p \in Procs : Doing(proc[p], Active(insights))
    /\ \A p \in Procs : proc[p] # Idle => Within(edges, Touchable(proc[p], Active(insights)))
    /\ Quiet => Within(edges, Active(insights))

EInv == Calm => Running

-----------------------------------------------------------------------------
\* A function on 1 .. n is a sequence of length n.
LEMMA FunctionIsList ==
    ASSUME NEW n \in Nat, NEW l, l = [i \in 1 .. n |-> l[i]]
    PROVE  IsList(l, n)
<1> DEFINE S == {l[i] : i \in 1 .. n}
<1>1. l \in [1 .. n -> S]  BY Zenon
<1>2. l \in Seq(S)  BY <1>1
<1>3. Len(l) \in Nat /\ DOMAIN l = 1 .. Len(l)  BY <1>2
<1>4. DOMAIN l = 1 .. n  BY <1>1, Zenon
<1>5. Len(l) = n  BY <1>3, <1>4
<1> QED  BY <1>5, Zenon DEF IsList

LEMMA SeqIsFunction ==
    ASSUME NEW S, NEW m \in Seq(S)
    PROVE  Len(m) \in Nat /\ m \in [1 .. Len(m) -> S]
<1>1. PICK k \in Nat : m \in [1 .. k -> S]  OBVIOUS
<1>2. k = Len(m)  BY <1>1
<1> QED  BY <1>1, <1>2, Zenon

\* m is the list l of length n and then x.
Extended(m, l, n, x) == IsList(m, n + 1) /\ (\A i \in 1 .. n : m[i] = l[i]) /\ m[n + 1] = x

LEMMA AppendExtends ==
    ASSUME NEW n, NEW l, IsList(l, n), NEW x
    PROVE  Extended(Append(l, x), l, n, x)
<1> DEFINE S == {l[i] : i \in 1 .. n} \cup {x}
<1>1. n \in Nat /\ l \in [1 .. n -> S] /\ Len(l) = n  BY Zenon DEF IsList
<1>2. l \in Seq(S) /\ x \in S  BY <1>1
<1>3. Append(l, x) \in Seq(S) /\ Len(Append(l, x)) = n + 1  BY <1>1, <1>2
<1>4. \A i \in 1 .. n : Append(l, x)[i] = l[i]  BY <1>1, <1>2
<1>5. Append(l, x)[n + 1] = x  BY <1>1, <1>2
<1> HIDE DEF S
<1>6. Append(l, x) = [i \in 1 .. n + 1 |-> Append(l, x)[i]]
  <2>1. PICK m : m = Append(l, x)  BY Zenon
  <2>2. m \in [1 .. n + 1 -> S]  BY <1>3, <2>1, SeqIsFunction, Zenon
  <2> QED  BY <2>1, <2>2, Zenon
<1> QED  BY <1>1, <1>3, <1>4, <1>5, <1>6 DEF IsList, Extended

\* A rewrite of the rows that marks none keeps the active insights.
LEMMA SameMarks ==
    ASSUME NEW rows, IsTable(rows), NEW new, new = [i \in DOMAIN rows |-> new[i]],
           \A i \in DOMAIN rows : IsRow(new[i]) /\ new[i].deleted = rows[i].deleted
    PROVE  IsTable(new) /\ Active(new) = Active(rows)
<1>1. DOMAIN rows = 1 .. Len(rows) /\ Len(rows) \in Nat  BY Zenon DEF IsTable, IsList
<1>2. IsList(new, Len(rows))  BY <1>1, FunctionIsList, Zenon
<1>3. Len(new) = Len(rows)  BY <1>2, Zenon DEF IsList
<1>4. IsTable(new)  BY <1>1, <1>2, <1>3, Zenon DEF IsTable
<1>5. DOMAIN new = DOMAIN rows  BY Zenon
<1>6. Active(new) = Active(rows)  BY <1>5, Zenon DEF Active
<1> QED  BY <1>4, <1>6, Zenon

LEMMA RefreshKeeps ==
    ASSUME NEW rows, IsTable(rows), NEW es, NEW S
    PROVE  LET new == RefreshEffectiveImportance(rows, es, S)
           IN IsTable(new) /\ Active(new) = Active(rows)
<1> DEFINE new == RefreshEffectiveImportance(rows, es, S)
<1>1. new = [i \in DOMAIN rows |-> new[i]]  BY Zenon DEF RefreshEffectiveImportance
<1>2. ASSUME NEW i \in DOMAIN rows
      PROVE  IsRow(new[i]) /\ new[i].deleted = rows[i].deleted
  <2>1. IsRow(rows[i])  BY Zenon DEF IsTable, IsList
  <2>2. PICK v : v = ComputeEffectiveImportance(rows, es, i)  BY Zenon
  <2>3. new[i] = [rows[i] EXCEPT !.ei = v] \/ new[i] = rows[i]
    BY <2>2, Zenon DEF RefreshEffectiveImportance
  <2> QED  BY <2>1, <2>3, Zenon DEF IsRow
<1> HIDE DEF new
<1>3. IsTable(new) /\ Active(new) = Active(rows)  BY <1>1, <1>2, SameMarks, Zenon
<1> QED  BY <1>3, Zenon DEF new

LEMMA AutoPruneMeets ==
    ASSUME NEW rows, IsTable(rows), NEW es, NEW log, NEW S, Within(es, Active(rows))
    PROVE  LET pruned == AutoPrune(rows, es, log, S)
           IN IsTable(pruned.rows) /\ Within(pruned.edges, Active(pruned.rows))
<1>1. PICK gone :
        /\ AutoPrune(rows, es, log, S).rows =
             [i \in DOMAIN rows |-> IF i \in gone THEN [rows[i] EXCEPT !.deleted = "pruned"] ELSE rows[i]]
        /\ AutoPrune(rows, es, log, S).edges = {e \in es : e.s \notin gone /\ e.t \notin gone}
  BY Zenon DEF AutoPrune
<1>2. PICK new : new = AutoPrune(rows, es, log, S).rows  BY Zenon
<1>3. new = [i \in DOMAIN rows |-> new[i]] /\ DOMAIN new = DOMAIN rows  BY <1>1, <1>2, Zenon
<1>4. DOMAIN rows = 1 .. Len(rows) /\ Len(rows) \in Nat  BY Zenon DEF IsTable, IsList
<1>5. ASSUME NEW i \in DOMAIN rows
      PROVE  IsRow(new[i]) /\ (i \notin gone => new[i] = rows[i])
  <2>1. IsRow(rows[i])  BY <1>4, Zenon DEF IsTable
  <2>2. CASE i \in gone
    <3>1. new[i] = [rows[i] EXCEPT !.deleted = "pruned"]  BY <1>1, <1>2, <2>2, Zenon
    <3> QED  BY <2>1, <2>2, <3>1, Zenon DEF IsRow
  <2>3. CASE i \notin gone  BY <1>1, <1>2, <2>1, <2>3, Zenon
  <2> QED  BY <2>2, <2>3, Zenon
<1>6. IsList(new, Len(rows))  BY <1>3, <1>4, FunctionIsList, Zenon
<1>7. IsTable(new)  BY <1>4, <1>5, <1>6, Zenon DEF IsTable, IsList
<1>8. \A i \in Active(rows) : i \notin gone => i \in Active(new)  BY <1>3, <1>5, Zenon DEF Active
<1> QED  BY <1>1, <1>2, <1>7, <1>8, Zenon DEF Within

-----------------------------------------------------------------------------
LEMMA NewestAmong == ASSUME NEW rows, NEW S, NEW k PROVE Newest(rows, S, k) \subseteq S
BY Zenon DEF Newest

LEMMA BothWithin ==
    ASSUME NEW i, NEW S, NEW type, NEW L, i \in L, S \subseteq L
    PROVE  Within(Both(i, S, type), L)
BY DEF Within, Both, Edge

\* The edges generated for a new insight join it to active insights.
LEMMA CreatedMeet ==
    ASSUME NEW rows, NEW i \in Active(rows), NEW cache, cache \subseteq Active(rows), NEW temporal
    PROVE  Within(OnInsightCreated(rows, i, cache, temporal), Active(rows))
<1>1. Within(CreateTemporalEdge(rows, i), Active(rows))
  <2> DEFINE near == {j \in Active(rows) \ {i} : rows[j].at >= Now /\ ~rows[j].aged}
             S == Newest(rows, SameSource(rows, i), 1) \cup Newest(rows, near, MaxProximityEdges)
  <2>1. Newest(rows, SameSource(rows, i), 1) \subseteq Active(rows)  BY NewestAmong, Zenon DEF SameSource
  <2>2. Newest(rows, near, MaxProximityEdges) \subseteq Active(rows)  BY NewestAmong, Zenon
  <2>3. CreateTemporalEdge(rows, i) = Both(i, S, "temporal")  BY Zenon DEF CreateTemporalEdge
  <2>4. S \subseteq Active(rows)  BY <2>1, <2>2, Zenon
  <2> HIDE DEF S
  <2> QED  BY <2>3, <2>4, BothWithin
<1>2. Within(CreateEntityEdges(rows, i), Active(rows))
  <2> DEFINE having(e) == {j \in Active(rows) \ {i} : e \in Text(rows, j).entities}
             links(e) == Both(i, Newest(rows, having(e), MaxEntityLinks), "entity")
  <2>1. \A e : Within(links(e), Active(rows))
    <3> TAKE e
    <3>1. Newest(rows, having(e), MaxEntityLinks) \subseteq Active(rows)  BY NewestAmong, Zenon
    <3> QED  BY <3>1, BothWithin, Zenon
  <2>2. CreateEntityEdges(rows, i) = UNION {links(e) : e \in Text(rows, i).entities}
    BY Zenon DEF CreateEntityEdges
  <2> HIDE DEF links
  <2> QED  BY <2>1, <2>2, Zenon DEF Within
<1>3. Within(CreateCausalEdges(rows, i), Active(rows))
  <2>1. Newest(rows, SameSource(rows, i), CausalLookback) \subseteq Active(rows)
    BY NewestAmong, Zenon DEF SameSource
  <2>2. ASSUME NEW e \in CreateCausalEdges(rows, i)
        PROVE  \E j \in Newest(rows, SameSource(rows, i), CausalLookback) :
                 e = Edge(j, i, "causal") \/ e = Edge(i, j, "causal")
    BY <2>2, Zenon DEF CreateCausalEdges
  <2> QED  BY <2>1, <2>2 DEF Within, Edge
<1>4. Within(CreateSemanticEdges(rows, i, cache), Active(rows))
  BY BothWithin, Zenon DEF CreateSemanticEdges, Within
<1> QED  BY <1>1, <1>2, <1>3, <1>4, Zenon DEF OnInsightCreated, Within

\* The timeline repair of an import ties active insights only.
LEMMA RepairMeets ==
    ASSUME NEW rows, NEW es, Within(es, Active(rows)), NEW mine
    PROVE  Within(repairImportedTemporalEdges(rows, es, mine).edges, Active(rows))
<1> DEFINE next(i) == {<<j, i>> : j \in Before(rows, Timeline(rows, i), i)}
                        \cup {<<i, j>> : j \in After(rows, Timeline(rows, i), i)}
           tied == UNION {next(i) : i \in mine \cap Active(rows)}
           added == UNION {Both(pair[1], {pair[2]}, "temporal") : pair \in tied}
<1>1. ASSUME NEW i \in Active(rows), NEW pair \in next(i)
      PROVE  pair[1] \in Active(rows) /\ pair[2] \in Active(rows)
  <2>1. Before(rows, Timeline(rows, i), i) \subseteq Active(rows)  BY NewestAmong, Zenon DEF Before, Timeline
  <2>2. After(rows, Timeline(rows, i), i) \subseteq Active(rows)  BY Zenon DEF After, Timeline
  <2>3. CASE \E j \in Before(rows, Timeline(rows, i), i) : pair = <<j, i>>  BY <2>1, <2>3
  <2>4. CASE \E j \in After(rows, Timeline(rows, i), i) : pair = <<i, j>>  BY <2>2, <2>4
  <2> QED  BY <1>1, <2>3, <2>4, Zenon
<1>2. \A e \in repairImportedTemporalEdges(rows, es, mine).edges : e \in es \/ e \in added
  <2> DEFINE cut == UNION {Splits(rows, mine, i) : i \in mine \cap Active(rows)}
             kept == {e \in es : ~(e.type = "temporal" /\ (<<e.s, e.t>> \in cut \/ <<e.t, e.s>> \in cut))}
             touched == UNION {{pair[1], pair[2]} : pair \in cut \cup tied}
  <2>1. repairImportedTemporalEdges(rows, es, mine) = [edges |-> kept \cup added, touched |-> touched]
    BY Zenon DEF repairImportedTemporalEdges
  <2>2. kept \subseteq es  BY Zenon
  <2> HIDE DEF kept, added, touched
  <2> QED  BY <2>1, <2>2
<1>3. Within(added, Active(rows))
  <2>1. ASSUME NEW pair \in tied PROVE Within(Both(pair[1], {pair[2]}, "temporal"), Active(rows))
    <3> HIDE DEF next
    <3>1. PICK i \in mine \cap Active(rows) : pair \in next(i)  BY Zenon
    <3>2. pair[1] \in Active(rows) /\ pair[2] \in Active(rows)  BY <1>1, <3>1, Zenon
    <3> QED  BY <3>2, BothWithin
  <2> HIDE DEF tied
  <2> QED  BY <2>1, Zenon DEF Within
<1> QED  BY <1>2, <1>3, Zenon DEF Within

-----------------------------------------------------------------------------
LEMMA DoingOn ==
    ASSUME NEW r, NEW live, NEW more, Doing(r, live), live \subseteq more
    PROVE  Doing(r, more)
BY Zenon DEF Doing

\* A command that is one step, or the passing of time, leaves the marks as they are.
LEMMA MarksStay ==
    ASSUME Running, crashes' = crashes, edges' = edges, proc' = proc,
           IsTable(insights'), Active(insights') = Active(insights)
    PROVE  Running'
BY Zenon DEF Running, Quiet

\* A step of the one command that runs.
LEMMA OneSteps ==
    ASSUME Running, NEW p \in Procs, NEW r, proc' = [proc EXCEPT ![p] = r], crashes' = crashes,
           \A q \in Procs : q # p => proc[q] = Idle,
           IsTable(insights'), Doing(r, Active(insights')),
           Within(edges', Touchable(r, Active(insights')))
    PROVE  Running'
<1>1. /\ proc' = [q \in Procs |-> proc'[q]]
      /\ proc'[p] = r
      /\ \A q \in Procs : q # p => proc'[q] = Idle
  BY Zenon DEF Running
<1>2. \A q \in Procs : Doing(proc'[q], Active(insights'))  BY <1>1, Zenon DEF Doing
<1>3. ASSUME Quiet' PROVE Within(edges', Active(insights'))
  <2>1. r = Idle  BY <1>1, <1>3, Zenon DEF Quiet
  <2>2. Touchable(r, Active(insights')) = Active(insights')  BY <2>1, Zenon DEF Touchable, Idle
  <2> QED  BY <2>2, Zenon
<1>4. \A q \in Procs : proc'[q] # Idle => Within(edges', Touchable(proc'[q], Active(insights')))
  BY <1>1, Zenon
<1> QED  BY <1>1, <1>2, <1>3, <1>4, Zenon DEF Running

LEMMA Beginning ==
    ASSUME Running, Calm, NEW p \in Procs, Begin(p)
    PROVE  /\ \A q \in Procs : proc[q] = Idle
           /\ Within(edges, Active(insights))
           /\ world' = world /\ crashes' = crashes
BY Zenon DEF Begin, Calm, Running, Quiet

LEMMA Amid ==
    ASSUME Running, NEW p \in Procs, NEW op, Runs(p, op), op # "none"
    PROVE  /\ proc[p].op = op /\ Doing(proc[p], Active(insights))
           /\ \A q \in Procs : q # p => proc[q] = Idle
           /\ Within(edges, Touchable(proc[p], Active(insights)))
           /\ world' = world /\ crashes' = crashes
<1>1. proc[p].op = op /\ proc[p] # Idle  BY DEF Runs, Idle
<1> QED  BY <1>1, Zenon DEF Running, Runs

LEMMA RowSound ==
    ASSUME NEW c, NEW at, NEW embedded
    PROVE  IsRow(Row(c, at, embedded)) /\ Row(c, at, embedded).deleted = "no"
BY Zenon DEF IsRow, Row

\* An insert keeps the active insights and adds the new one.
LEMMA InsertGrows ==
    ASSUME IsTable(insights), NEW row, IsRow(row), row.deleted = "no"
    PROVE  LET rows == Append(insights, row)
           IN /\ IsTable(rows)
              /\ Len(insights) + 1 \in Active(rows)
              /\ Active(insights) \subseteq Active(rows)
<1>1. PICK n : n = Len(insights) /\ n \in Nat /\ IsList(insights, n)  BY Zenon DEF IsTable, IsList
<1>2. PICK rows : rows = Append(insights, row)  BY Zenon
<1>3. /\ IsList(rows, n + 1)
      /\ \A i \in 1 .. n : rows[i] = insights[i]
      /\ rows[n + 1] = row
  <2>1. Extended(rows, insights, n, row)  BY <1>1, <1>2, AppendExtends, Zenon
  <2> QED  BY <2>1, Zenon DEF Extended
<1>4. DOMAIN rows = 1 .. n + 1 /\ DOMAIN insights = 1 .. n /\ Len(rows) = n + 1
  BY <1>1, <1>3, Zenon DEF IsList
<1>5. \A i \in 1 .. n + 1 : i \in 1 .. n \/ i = n + 1  BY <1>1
<1>6. \A i \in 1 .. n + 1 : IsRow(rows[i])  BY <1>1, <1>3, <1>5, Zenon DEF IsTable
<1>7. IsTable(rows)  BY <1>3, <1>4, <1>6, Zenon DEF IsTable
<1>8. n + 1 \in Active(rows)  BY <1>1, <1>3, <1>4 DEF Active
<1>9. Active(insights) \subseteq Active(rows)  BY <1>1, <1>3, <1>4 DEF Active
<1> QED  BY <1>1, <1>2, <1>7, <1>8, <1>9, Zenon

-----------------------------------------------------------------------------
LEMMA ReadsActive ==
    ASSUME NEW rows, NEW c
    PROVE  FindExactDuplicate(rows, c) \subseteq Active(rows) /\ GetAllEmbeddings(rows) \subseteq Active(rows)
BY NewestAmong, Zenon DEF FindExactDuplicate, GetAllEmbeddings

LEMMA RememberReadsInv ==
    ASSUME Running, Calm, NEW p \in Procs, RememberReads(p)
    PROVE  Running'
<1>1. UNCHANGED <<insights, edges>>  BY Zenon DEF RememberReads, db
<1>2. PICK r : /\ proc' = [proc EXCEPT ![p] = r]
               /\ Doing(r, Active(insights)) /\ r.op = "remember"
  <2>1. PICK c \in Contents, embeds \in BOOLEAN :
          proc' = [proc EXCEPT ![p] =
                    [op |-> "remember", content |-> c, embeds |-> embeds,
                     dup |-> FindExactDuplicate(insights, c),
                     cache |-> IF embeds THEN GetAllEmbeddings(insights) ELSE {}]]
    BY Zenon DEF RememberReads, Goes
  <2>2. PICK cache, dup : /\ cache = IF embeds THEN GetAllEmbeddings(insights) ELSE {}
                          /\ dup = FindExactDuplicate(insights, c)
    BY Zenon
  <2>3. cache \subseteq Active(insights)  BY <2>2, ReadsActive, Zenon
  <2>4. PICK r : r = [op |-> "remember", content |-> c, embeds |-> embeds, dup |-> dup, cache |-> cache]
    BY Zenon
  <2>5. Doing(r, Active(insights)) /\ r.op = "remember"  BY <2>3, <2>4, Zenon DEF Doing
  <2> QED  BY <2>1, <2>2, <2>4, <2>5, Zenon
<1>3. Begin(p)  BY Zenon DEF RememberReads
<1>4. Within(edges', Touchable(r, Active(insights')))
  BY <1>1, <1>2, <1>3, Beginning, Zenon DEF Touchable, Within
<1> QED  BY <1>1, <1>2, <1>3, <1>4, Beginning, OneSteps, Zenon DEF Running

\* Which form a call that is remembering or linking has.
LEMMA DoingKinds ==
    ASSUME NEW r, NEW live, Doing(r, live)
    PROVE  /\ r.op = "remember" => r.cache \subseteq live
           /\ r.op = "link" => /\ r = [op |-> "link", at |-> r.at, edge |-> r.edge]
                               /\ r.edge.s \in live /\ r.edge.t \in live
<1>1. r = Idle => r.op = "none"  BY DEF Idle
<1>2. r = [op |-> "remember", content |-> r.content, embeds |-> r.embeds, dup |-> r.dup,
           cache |-> r.cache] => r.op = "remember"  OBVIOUS
<1>3. r = [op |-> "link", at |-> r.at, edge |-> r.edge] => r.op = "link"  OBVIOUS
<1>4. r = [op |-> "forget", id |-> r.id] => r.op = "forget"  OBVIOUS
<1>5. r = [op |-> "import", draft |-> r.draft, at |-> r.at, i |-> r.i, dup |-> r.dup,
           imported |-> r.imported, mine |-> r.mine, embeds |-> r.embeds, cache |-> r.cache]
        => r.op = "import"  OBVIOUS
<1> QED  BY <1>1, <1>2, <1>3, <1>4, <1>5, Zenon DEF Doing

LEMMA IdleDoing ==
    ASSUME NEW live
    PROVE  Doing(Idle, live) /\ Touchable(Idle, live) = live
BY Zenon DEF Doing, Touchable, Idle

LEMMA RememberSkipsInv ==
    ASSUME Running, NEW p \in Procs, RememberSkips(p)
    PROVE  Running'
<1>1. UNCHANGED <<insights, edges>> /\ Runs(p, "remember") /\ proc' = [proc EXCEPT ![p] = Idle]
  BY SMTT(30) DEF RememberSkips, Goes
<1>2. Within(edges, Active(insights))  BY <1>1, Amid DEF Touchable, Within
<1> QED  BY <1>1, <1>2, Amid, IdleDoing, OneSteps, Zenon DEF Running

LEMMA RememberStoresInv ==
    ASSUME Running, NEW p \in Procs, RememberStores(p)
    PROVE  Running'
<1>1. Runs(p, "remember") /\ proc' = [proc EXCEPT ![p] = Idle]  BY Zenon DEF RememberStores, Goes
<1>2. Within(edges, Active(insights)) /\ proc[p].cache \subseteq Active(insights)
  <2>1. Doing(proc[p], Active(insights)) /\ proc[p].op = "remember"  BY <1>1, Amid, Zenon
  <2>2. Within(edges, Active(insights))  BY <1>1, <2>1, Amid, Zenon DEF Touchable, Within
  <2> QED  BY <2>1, <2>2, DoingKinds, Zenon
<1>3. PICK i, rows, es :
        /\ i = Len(insights) + 1
        /\ rows = Append(insights, Row(proc[p].content, Now, proc[p].embeds))
        /\ es = edges \cup OnInsightCreated(rows, i, proc[p].cache, TRUE)
        /\ insights' = AutoPrune(RefreshEffectiveImportance(rows, es, {i}), es, oplog, {i}).rows
        /\ edges' = AutoPrune(RefreshEffectiveImportance(rows, es, {i}), es, oplog, {i}).edges
  BY Zenon DEF RememberStores
<1>4. IsTable(rows) /\ i \in Active(rows) /\ Active(insights) \subseteq Active(rows)
  BY <1>3, RowSound, InsertGrows DEF Running
<1>5. proc[p].cache \subseteq Active(rows)  BY <1>2, <1>4, Zenon
<1>6. Within(es, Active(rows))  BY <1>2, <1>3, <1>4, <1>5, CreatedMeet, Zenon DEF Within
<1>7. PICK new : /\ new = RefreshEffectiveImportance(rows, es, {i})
                 /\ IsTable(new) /\ Active(new) = Active(rows)
  BY <1>4, RefreshKeeps, Zenon
<1>8. IsTable(insights') /\ Within(edges', Active(insights'))
  BY <1>3, <1>6, <1>7, AutoPruneMeets
<1> QED  BY <1>1, <1>8, Amid, IdleDoing, OneSteps, Zenon

-----------------------------------------------------------------------------
LEMMA LinkChecksInv ==
    ASSUME Running, Calm, NEW p \in Procs, LinkChecks(p)
    PROVE  Running'
<1>1. UNCHANGED <<insights, edges>> /\ Begin(p)  BY Zenon DEF LinkChecks, db
<1>2. PICK s \in Active(insights), t \in Active(insights), type \in LinkTypes :
        proc' = [proc EXCEPT ![p] = [op |-> "link", at |-> "forth", edge |-> Edge(s, t, type)]]
  BY Zenon DEF LinkChecks, Goes
<1>3. PICK r : r = [op |-> "link", at |-> "forth", edge |-> Edge(s, t, type)]  BY Zenon
<1>4. Doing(r, Active(insights))  BY <1>3, Zenon DEF Doing, Edge
<1>5. Within(edges', Touchable(r, Active(insights')))
  <2>1. r.op # "forget"  BY <1>3, Zenon
  <2>2. Within(edges, Active(insights))  BY <1>1, Beginning, Zenon
  <2> QED  BY <1>1, <2>1, <2>2, Zenon DEF Touchable, Within
<1> QED  BY <1>1, <1>2, <1>3, <1>4, <1>5, Beginning, OneSteps, Zenon DEF Running

LEMMA Linking ==
    ASSUME Running, NEW p \in Procs, Runs(p, "link")
    PROVE  /\ proc[p] = [op |-> "link", at |-> proc[p].at, edge |-> proc[p].edge]
           /\ proc[p].edge.s \in Active(insights) /\ proc[p].edge.t \in Active(insights)
           /\ Within(edges, Active(insights))
<1>1. Doing(proc[p], Active(insights)) /\ proc[p].op = "link"  BY Amid, Zenon
<1>2. Within(edges, Active(insights))  BY <1>1, Amid, Zenon DEF Touchable, Within
<1> QED  BY <1>1, <1>2, DoingKinds, Zenon

LEMMA LinkForthInv ==
    ASSUME Running, NEW p \in Procs, LinkForth(p)
    PROVE  Running'
<1>1. /\ Runs(p, "link") /\ insights' = insights
      /\ edges' = edges \cup {proc[p].edge}
      /\ proc' = [proc EXCEPT ![p] = [proc[p] EXCEPT !.at = "back"]]
  BY Zenon DEF LinkForth, Goes
<1>2. PICK r : r = [proc[p] EXCEPT !.at = "back"]  BY Zenon
<1>3. r = [op |-> "link", at |-> "back", edge |-> proc[p].edge]
  <2>1. proc[p] = [op |-> "link", at |-> proc[p].at, edge |-> proc[p].edge]  BY <1>1, Linking, Zenon
  <2> QED  BY <1>2, <2>1
<1>4. Doing(r, Active(insights)) /\ Touchable(r, Active(insights)) = Active(insights)
  BY <1>1, <1>3, Linking, Zenon DEF Doing, Touchable
<1>5. Within(edges', Active(insights))  BY <1>1, Linking, Zenon DEF Within
<1> QED  BY <1>1, <1>2, <1>4, <1>5, Amid, OneSteps, Zenon DEF Running

LEMMA LinkBackInv ==
    ASSUME Running, NEW p \in Procs, LinkBack(p)
    PROVE  Running'
<1>1. /\ Runs(p, "link") /\ insights' = insights
      /\ proc' = [proc EXCEPT ![p] = Idle]
      /\ \A e \in edges' : e \in edges \/ e = Edge(proc[p].edge.t, proc[p].edge.s, proc[p].edge.type)
  BY Zenon DEF LinkBack, Goes
<1>2. Within(edges', Active(insights))
  <2>1. PICK s, t, type, back : /\ s = proc[p].edge.s /\ t = proc[p].edge.t /\ type = proc[p].edge.type
                                /\ back = Edge(t, s, type)
    BY Zenon
  <2>2. back.s \in Active(insights) /\ back.t \in Active(insights)  BY <1>1, <2>1, Linking, Zenon DEF Edge
  <2> QED  BY <1>1, <2>1, <2>2, Linking, Zenon DEF Within
<1> QED  BY <1>1, <1>2, Amid, IdleDoing, OneSteps, Zenon DEF Running

-----------------------------------------------------------------------------
LEMMA ForgetMarksInv ==
    ASSUME Running, Calm, NEW p \in Procs, ForgetMarks(p)
    PROVE  Running'
<1>1. edges' = edges /\ Begin(p)  BY Zenon DEF ForgetMarks
<1>2. PICK i \in Active(insights) :
        /\ insights' = [insights EXCEPT ![i].deleted = "forgotten"]
        /\ proc' = [proc EXCEPT ![p] = [op |-> "forget", id |-> i]]
  BY Zenon DEF ForgetMarks, Goes
<1>3. PICK n \in Nat : /\ n = Len(insights) /\ insights = [j \in 1 .. n |-> insights[j]]
                       /\ \A j \in 1 .. n : IsRow(insights[j])
  BY Zenon DEF Running, IsTable, IsList
<1>4. i \in 1 .. n  BY <1>3, Zenon DEF Active
<1>5. PICK row : row = [insights[i] EXCEPT !.deleted = "forgotten"]  BY Zenon
<1>6. IsRow(row)  BY <1>3, <1>4, <1>5, Zenon DEF IsRow
<1>7. /\ insights' = [j \in 1 .. n |-> insights'[j]]
      /\ insights'[i] = row
      /\ \A j \in 1 .. n : j # i => insights'[j] = insights[j]
  BY <1>2, <1>3, <1>4, <1>5, Zenon
<1>8. IsList(insights', n)  BY <1>7, FunctionIsList, Zenon
<1>9. IsTable(insights')  BY <1>3, <1>6, <1>7, <1>8, Zenon DEF IsTable, IsList
<1>10. Active(insights) \subseteq Active(insights') \cup {i}  BY <1>3, <1>7, Zenon DEF Active
<1>11. PICK r : r = [op |-> "forget", id |-> i]  BY Zenon
<1>12. Doing(r, Active(insights'))  BY <1>11, Zenon DEF Doing
<1>13. Touchable(r, Active(insights')) = Active(insights') \cup {i}  BY <1>11, Zenon DEF Touchable
<1>14. Within(edges', Touchable(r, Active(insights')))
  BY <1>1, <1>10, <1>13, Beginning, SMTT(30) DEF Within
<1> QED  BY <1>1, <1>2, <1>9, <1>11, <1>12, <1>14, Beginning, OneSteps, Zenon

LEMMA ForgetUnlinksInv ==
    ASSUME Running, NEW p \in Procs, ForgetUnlinks(p)
    PROVE  Running'
<1>1. /\ Runs(p, "forget") /\ insights' = insights
      /\ edges' = {e \in edges : e.s # proc[p].id /\ e.t # proc[p].id}
      /\ proc' = [proc EXCEPT ![p] = Idle]
  BY Zenon DEF ForgetUnlinks, Goes
<1>2. Within(edges, Active(insights) \cup {proc[p].id})  BY <1>1, Amid, Zenon DEF Touchable
<1>3. Within(edges', Active(insights))  BY <1>1, <1>2, Zenon DEF Within
<1> QED  BY <1>1, <1>3, Amid, IdleDoing, OneSteps, Zenon DEF Running

-----------------------------------------------------------------------------
\* The commands that write counters, vectors and stored importance, and time.
LEMMA KeepInv ==
    ASSUME Running, NEW p \in Procs, Keep(p)
    PROVE  Running'
<1>1. edges' = edges /\ proc' = proc /\ crashes' = crashes  BY Zenon DEF Keep, Begin
<1>2. PICK i \in Active(insights) :
        LET rows == [insights EXCEPT ![i].access = Min({@ + 3, 3}), ![i].idle = FALSE]
        IN insights' = RefreshEffectiveImportance(rows, edges, {i})
  BY Zenon DEF Keep
<1>3. PICK rows : /\ rows = [insights EXCEPT ![i].access = Min({@ + 3, 3}), ![i].idle = FALSE]
                  /\ insights' = RefreshEffectiveImportance(rows, edges, {i})
  BY <1>2, Zenon
<1>4. IsTable(insights)  BY Zenon DEF Running
<1>5. i \in DOMAIN insights /\ IsRow(insights[i])  BY <1>4, Zenon DEF Active, IsTable, IsList
<1>6. PICK v : v = Min({insights[i].access + 3, 3})  BY Zenon
<1>7. PICK row : row = [[insights[i] EXCEPT !.access = v] EXCEPT !.idle = FALSE]  BY Zenon
<1>8. IsRow(row) /\ row.deleted = insights[i].deleted  BY <1>5, <1>7, Zenon DEF IsRow
<1>9. /\ rows = [j \in DOMAIN insights |-> rows[j]]
      /\ rows[i] = row
      /\ \A j \in DOMAIN insights : j # i => rows[j] = insights[j]
  BY <1>3, <1>5, <1>6, <1>7, Zenon
<1>10. \A j \in DOMAIN insights : IsRow(rows[j]) /\ rows[j].deleted = insights[j].deleted
  BY <1>4, <1>8, <1>9, Zenon DEF IsTable, IsList
<1>11. IsTable(rows) /\ Active(rows) = Active(insights)  BY <1>4, <1>9, <1>10, SameMarks, Zenon
<1>12. IsTable(insights') /\ Active(insights') = Active(insights)  BY <1>3, <1>11, RefreshKeeps
<1> QED  BY <1>1, <1>12, MarksStay, Zenon

LEMMA SuggestInv ==
    ASSUME Running, NEW p \in Procs, Suggest(p)
    PROVE  Running'
<1>1. edges' = edges /\ proc' = proc /\ crashes' = crashes  BY Zenon DEF Suggest, Begin
<1>2. IsTable(insights') /\ Active(insights') = Active(insights)
  BY RefreshKeeps, Zenon DEF Suggest, Running
<1> QED  BY <1>1, <1>2, MarksStay, Zenon

LEMMA CountedHits ==
    ASSUME Running, NEW hits, IncrementAccessCount(hits)
    PROVE  IsTable(insights') /\ Active(insights') = Active(insights)
<1>1. insights' = [i \in DOMAIN insights |-> insights'[i]]  BY Zenon DEF IncrementAccessCount
<1>2. IsTable(insights)  BY Zenon DEF Running
<1>3. ASSUME NEW i \in DOMAIN insights
      PROVE  IsRow(insights'[i]) /\ insights'[i].deleted = insights[i].deleted
  <2>1. IsRow(insights[i])  BY <1>2, Zenon DEF IsTable, IsList
  <2>2. PICK v, row, new : /\ v = Min({insights[i].access + 1, 3}) /\ row = insights[i]
                           /\ new = [[row EXCEPT !.access = v] EXCEPT !.idle = FALSE]
    BY Zenon
  <2>3. insights'[i] = new \/ insights'[i] = row  BY <2>2, Zenon DEF IncrementAccessCount
  <2>4. IsRow(new) /\ new.deleted = row.deleted  BY <2>1, <2>2, Zenon DEF IsRow
  <2> QED  BY <2>1, <2>2, <2>3, <2>4, Zenon
<1> QED  BY <1>1, <1>2, <1>3, SameMarks, Zenon

LEMMA EmbeddedRows ==
    ASSUME Running, NEW S, UpdateEmbedding(S)
    PROVE  IsTable(insights') /\ Active(insights') = Active(insights)
<1>1. insights' = [i \in DOMAIN insights |-> insights'[i]]  BY Zenon DEF UpdateEmbedding
<1>2. IsTable(insights)  BY Zenon DEF Running
<1>3. ASSUME NEW i \in DOMAIN insights
      PROVE  IsRow(insights'[i]) /\ insights'[i].deleted = insights[i].deleted
  <2>1. IsRow(insights[i])  BY <1>2, Zenon DEF IsTable, IsList
  <2>2. PICK row, new : row = insights[i] /\ new = [row EXCEPT !.embedded = TRUE]  BY Zenon
  <2>3. insights'[i] = new \/ insights'[i] = row  BY <2>2, Zenon DEF UpdateEmbedding
  <2>4. IsRow(new) /\ new.deleted = row.deleted  BY <2>1, <2>2, Zenon DEF IsRow
  <2> QED  BY <2>1, <2>2, <2>3, <2>4, Zenon
<1> QED  BY <1>1, <1>2, <1>3, SameMarks, Zenon

LEMMA AtOnceInv ==
    ASSUME Running, NEW p \in Procs,
           Compact(p) \/ Recall(p) \/ SearchCommand(p) \/ Show(p) \/ EmbedOne(p) \/ EmbedAll(p)
    PROVE  Running'
<1>1. edges' = edges /\ proc' = proc /\ crashes' = crashes
  BY SMTT(30) DEF Compact, Recall, SearchCommand, Show, EmbedOne, EmbedAll, Begin
<1>2. CASE insights' = insights  BY <1>1, <1>2, MarksStay, Zenon DEF Running
<1>3. CASE \E hits : IncrementAccessCount(hits)  BY <1>1, <1>3, CountedHits, MarksStay, Zenon
<1>4. CASE \E S : UpdateEmbedding(S)  BY <1>1, <1>4, EmbeddedRows, MarksStay, Zenon
<1>5. insights' = insights \/ (\E hits : IncrementAccessCount(hits)) \/ \E S : UpdateEmbedding(S)
  BY Zenon DEF Compact, Recall, SearchCommand, Show, EmbedOne, EmbedAll
<1> QED  BY <1>2, <1>3, <1>4, <1>5, Zenon

LEMMA TimePassesInv ==
    ASSUME Running, TimePasses
    PROVE  Running'
<1>1. edges' = edges /\ proc' = proc /\ crashes' = crashes  BY Zenon DEF TimePasses
<1>2. insights' = [i \in DOMAIN insights |-> insights'[i]]  BY Zenon DEF TimePasses
<1>3. IsTable(insights)  BY Zenon DEF Running
<1>4. ASSUME NEW i \in DOMAIN insights
      PROVE  IsRow(insights'[i]) /\ insights'[i].deleted = insights[i].deleted
  <2>1. IsRow(insights[i])  BY <1>3, Zenon DEF IsTable, IsList
  <2>2. PICK row, new : row = insights[i] /\ new = [[row EXCEPT !.aged = TRUE] EXCEPT !.idle = TRUE]
    BY Zenon
  <2>3. insights'[i] = new  BY <2>2, Zenon DEF TimePasses
  <2>4. IsRow(new) /\ new.deleted = row.deleted  BY <2>1, <2>2, Zenon DEF IsRow
  <2> QED  BY <2>2, <2>3, <2>4, Zenon
<1>5. IsTable(insights') /\ Active(insights') = Active(insights)  BY <1>2, <1>3, <1>4, SameMarks, Zenon
<1> QED  BY <1>1, <1>5, MarksStay, SMTT(30)

-----------------------------------------------------------------------------
\* The record of a running import.
Importing(r, live) ==
    /\ r = [op |-> "import", draft |-> r.draft, at |-> r.at, i |-> r.i, dup |-> r.dup,
            imported |-> r.imported, mine |-> r.mine, embeds |-> r.embeds, cache |-> r.cache]
    /\ r.op = "import" /\ r.draft \in Drafts
    /\ r.dup \subseteq live /\ r.cache \subseteq live
    /\ r.i \in Nat /\ IsList(r.imported, r.i - 1)
    /\ \A k \in 1 .. r.i - 1 : r.imported[k] = 0 \/ r.imported[k] \in live

LEMMA ImportingDoing ==
    ASSUME NEW r, NEW live
    PROVE  /\ Importing(r, live) => Doing(r, live) /\ Touchable(r, live) = live
           /\ Doing(r, live) /\ r.op = "import" => Importing(r, live)
<1>1. ASSUME Importing(r, live) PROVE Doing(r, live) /\ Touchable(r, live) = live
  BY <1>1, Zenon DEF Importing, Doing, Touchable
<1>2. ASSUME Doing(r, live), r.op = "import" PROVE Importing(r, live)
  BY <1>2 DEF Importing, Doing, Idle
<1> QED  BY <1>1, <1>2, Zenon

LEMMA ImportingBuilt ==
    ASSUME NEW d \in Drafts, NEW at, NEW i \in Nat, NEW live, NEW dup, dup \subseteq live,
           NEW l, IsList(l, i - 1), \A k \in 1 .. i - 1 : l[k] = 0 \/ l[k] \in live,
           NEW mine, NEW embeds, NEW cache, cache \subseteq live,
           NEW n, n = [op |-> "import", draft |-> d, at |-> at, i |-> i, dup |-> dup, imported |-> l,
                       mine |-> mine, embeds |-> embeds, cache |-> cache]
    PROVE  Importing(n, live)
BY Zenon DEF Importing

\* After an entry the list has its insight, or 0.
LEMMA EntryTaken ==
    ASSUME NEW i \in Nat, NEW old, IsList(old, i - 1), NEW live,
           \A k \in 1 .. i - 1 : old[k] = 0 \/ old[k] \in live,
           NEW more, live \subseteq more, NEW id, id = 0 \/ id \in more,
           NEW l, l = Append(old, id)
    PROVE  IsList(l, (i + 1) - 1) /\ \A k \in 1 .. (i + 1) - 1 : l[k] = 0 \/ l[k] \in more
<1>1. PICK k \in Nat : k = i - 1 /\ i = k + 1 /\ IsList(old, k)  BY DEF IsList
<1>2. Extended(l, old, k, id)  BY <1>1, AppendExtends, Zenon
<1>3. IsList(l, k + 1) /\ l[k + 1] = id /\ \A j \in 1 .. k : l[j] = old[j]  BY <1>2, Zenon DEF Extended
<1>5. \A j \in 1 .. k + 1 : j \in 1 .. k \/ j = k + 1  BY <1>1
<1>6. \A j \in 1 .. k + 1 : l[j] = 0 \/ l[j] \in more  BY <1>1, <1>3, <1>5, Zenon
<1>7. (i + 1) - 1 = k + 1  BY <1>1
<1> QED  BY <1>3, <1>6, <1>7, Zenon

\* The record after an entry.
Entered(o, id, mine, cache) ==
    [op |-> "import", draft |-> o.draft, at |-> "read", i |-> o.i + 1, dup |-> o.dup,
     imported |-> Append(o.imported, id), mine |-> mine, embeds |-> o.embeds, cache |-> cache]

LEMMA EntryDone ==
    ASSUME NEW o, NEW live, Importing(o, live), NEW more, live \subseteq more,
           NEW id, id = 0 \/ id \in more, NEW mine, NEW cache, cache \subseteq more
    PROVE  Importing(Entered(o, id, mine, cache), more)
<1>1. /\ o.draft \in Drafts /\ o.dup \subseteq more
      /\ o.i \in Nat /\ IsList(o.imported, o.i - 1)
      /\ \A k \in 1 .. o.i - 1 : o.imported[k] = 0 \/ o.imported[k] \in live
  BY Zenon DEF Importing
<1>2. PICK l, n : l = Append(o.imported, id) /\ n = Entered(o, id, mine, cache)  BY Zenon
<1>3. IsList(l, (o.i + 1) - 1) /\ \A k \in 1 .. (o.i + 1) - 1 : l[k] = 0 \/ l[k] \in more
  BY <1>1, <1>2, EntryTaken, Zenon
<1>4. o.i + 1 \in Nat  BY <1>1
<1>5. n = [op |-> "import", draft |-> o.draft, at |-> "read", i |-> o.i + 1, dup |-> o.dup,
           imported |-> l, mine |-> mine, embeds |-> o.embeds, cache |-> cache]
  BY <1>2, Zenon DEF Entered
<1>6. Importing(n, more)  BY <1>1, <1>3, <1>4, <1>5, ImportingBuilt, Zenon
<1> QED  BY <1>2, <1>6, Zenon

LEMMA ImportAmid ==
    ASSUME Running, NEW p \in Procs, Runs(p, "import")
    PROVE  Importing(proc[p], Active(insights)) /\ Within(edges, Active(insights))
<1>1. Doing(proc[p], Active(insights)) /\ proc[p].op = "import"  BY Amid, Zenon
<1>2. Within(edges, Touchable(proc[p], Active(insights)))  BY Amid, Zenon
<1> QED  BY <1>1, <1>2, ImportingDoing, SMTT(30)

\* A step of a running import that goes on.
LEMMA ImportSteps ==
    ASSUME Running, NEW p \in Procs, Runs(p, "import"), NEW r, proc' = [proc EXCEPT ![p] = r],
           Importing(r, Active(insights')), IsTable(insights'), Within(edges', Active(insights'))
    PROVE  Running'
<1>1. Doing(r, Active(insights')) /\ Touchable(r, Active(insights')) = Active(insights')
  BY ImportingDoing, Zenon
<1>2. crashes' = crashes /\ \A q \in Procs : q # p => proc[q] = Idle  BY Amid, SMTT(30)
<1> QED  BY <1>1, <1>2, OneSteps, Zenon

LEMMA ImportLoadsInv ==
    ASSUME Running, Calm, NEW p \in Procs, ImportLoads(p)
    PROVE  Running'
<1>1. UNCHANGED <<insights, edges>> /\ Begin(p)  BY SMTT(30) DEF ImportLoads, db
<1>2. PICK d \in Drafts, embeds \in BOOLEAN :
        proc' = [proc EXCEPT ![p] =
                  [op |-> "import", draft |-> d, at |-> "read", i |-> 1, dup |-> {},
                   imported |-> << >>, mine |-> {}, embeds |-> embeds,
                   cache |-> IF embeds THEN GetAllEmbeddings(insights) ELSE {}]]
  BY Zenon DEF ImportLoads, Goes
<1>3. PICK cache, none : /\ cache = IF embeds THEN GetAllEmbeddings(insights) ELSE {}
                         /\ none = << >>
  BY Zenon
<1>4. cache \subseteq Active(insights)  BY <1>3, ReadsActive, Zenon
<1>5. IsList(none, 0)  BY <1>3 DEF IsList
<1>6. PICK r : r = [op |-> "import", draft |-> d, at |-> "read", i |-> 1, dup |-> {},
                    imported |-> none, mine |-> {}, embeds |-> embeds, cache |-> cache]
  BY Zenon
<1>7. proc' = [proc EXCEPT ![p] = r]  BY <1>2, <1>3, <1>6, Zenon
<1>8. Importing(r, Active(insights))  BY <1>4, <1>5, <1>6 DEF Importing
<1>9. Doing(r, Active(insights)) /\ Touchable(r, Active(insights)) = Active(insights)
  BY <1>8, ImportingDoing, Zenon
<1> QED  BY <1>1, <1>7, <1>9, Beginning, OneSteps, Zenon DEF Running

LEMMA ImportReadsInv ==
    ASSUME Running, NEW p \in Procs, ImportReads(p)
    PROVE  Running'
<1>1. UNCHANGED <<insights, edges>> /\ Runs(p, "import")  BY Zenon DEF ImportReads, db
<1>2. PICK dup, r : /\ proc' = [proc EXCEPT ![p] = r]
                    /\ r = [proc[p] EXCEPT !.at = "write", !.dup = dup]
                    /\ dup \subseteq Active(insights)
  BY ReadsActive, Zenon DEF ImportReads, Goes
<1>3. PICK o : o = proc[p] /\ Importing(o, Active(insights))  BY <1>1, ImportAmid, Zenon
<1>4. r = [op |-> "import", draft |-> o.draft, at |-> "write", i |-> o.i, dup |-> dup,
           imported |-> o.imported, mine |-> o.mine, embeds |-> o.embeds, cache |-> o.cache]
  BY <1>2, <1>3, Zenon DEF Importing
<1>5. Importing(r, Active(insights))  BY <1>2, <1>3, <1>4, Zenon DEF Importing
<1> QED  BY <1>1, <1>2, <1>5, ImportAmid, ImportSteps, Zenon DEF Running

LEMMA ImportSkipsInv ==
    ASSUME Running, NEW p \in Procs, ImportSkips(p)
    PROVE  Running'
<1>1. UNCHANGED <<insights, edges>> /\ Runs(p, "import") /\ proc[p].dup # {}  BY SMTT(30) DEF ImportSkips
<1>2. PICK o : o = proc[p] /\ Importing(o, Active(insights))  BY <1>1, ImportAmid, Zenon
<1>3. PICK id : id = CHOOSE i \in proc[p].dup : TRUE  BY SMTT(30)
<1>4. id \in Active(insights)  BY <1>1, <1>2, <1>3, Zenon DEF Importing
<1>5. PICK r : r = [o EXCEPT !.at = "read", !.i = @ + 1, !.imported = Append(@, id)]  BY Zenon
<1>6. proc' = [proc EXCEPT ![p] = r]  BY <1>2, <1>3, <1>5, Zenon DEF ImportSkips, Goes
<1>7. r = Entered(o, id, o.mine, o.cache)  BY <1>2, <1>5, Zenon DEF Importing, Entered
<1>8. o.cache \subseteq Active(insights)  BY <1>2, Zenon DEF Importing
<1>9. Importing(r, Active(insights))  BY <1>2, <1>4, <1>7, <1>8, EntryDone, Zenon
<1> QED  BY <1>1, <1>6, <1>9, ImportAmid, ImportSteps, Zenon DEF Running

LEMMA ImportStoresInv ==
    ASSUME Running, NEW p \in Procs, ImportStores(p)
    PROVE  Running'
<1>1. Runs(p, "import")  BY Zenon DEF ImportStores
<1>2. PICK o : o = proc[p] /\ Importing(o, Active(insights))  BY <1>1, ImportAmid, Zenon
<1>3. PICK i, c, at, rows, es, cache :
        /\ i = Len(insights) + 1
        /\ rows = Append(insights, Row(c, at, o.embeds))
        /\ es = edges \cup OnInsightCreated(rows, i, o.cache, FALSE)
        /\ cache = IF o.embeds THEN o.cache \cup {i} ELSE o.cache
        /\ insights' = RefreshEffectiveImportance(rows, es, {i})
        /\ edges' = es
        /\ proc' = [proc EXCEPT ![p] =
                     [o EXCEPT !.at = "read", !.i = @ + 1, !.imported = Append(@, i),
                               !.mine = @ \cup {i}, !.cache = cache]]
  BY <1>2, Zenon DEF ImportStores, Goes
<1>4. IsTable(rows) /\ i \in Active(rows) /\ Active(insights) \subseteq Active(rows)
  BY <1>3, RowSound, InsertGrows DEF Running
<1>5. o.cache \subseteq Active(rows) /\ cache \subseteq Active(rows)
  BY <1>2, <1>3, <1>4, Zenon DEF Importing
<1>6. Within(es, Active(rows))  BY <1>1, <1>3, <1>4, <1>5, CreatedMeet, ImportAmid, Zenon DEF Within
<1>7. IsTable(insights') /\ Active(insights') = Active(rows)  BY <1>3, <1>4, RefreshKeeps
<1>8. PICK mine, r :
        /\ mine = o.mine \cup {i}
        /\ r = [o EXCEPT !.at = "read", !.i = @ + 1, !.imported = Append(@, i), !.mine = mine,
                         !.cache = cache]
  BY Zenon
<1>9. proc' = [proc EXCEPT ![p] = r]  BY <1>3, <1>8, Zenon
<1>10. r = Entered(o, i, mine, cache)  BY <1>2, <1>8, Zenon DEF Importing, Entered
<1>11. Importing(r, Active(rows))  BY <1>2, <1>4, <1>5, <1>10, EntryDone, Zenon
<1> QED  BY <1>1, <1>3, <1>6, <1>7, <1>9, <1>11, ImportSteps, Zenon

\* The explicit edges of a draft whose entries were all taken.
LEMMA ExplicitMeet ==
    ASSUME NEW d \in Drafts, NEW l, NEW i \in Nat, i > Len(d.entries), NEW live,
           \A k \in 1 .. i - 1 : l[k] = 0 \/ l[k] \in live
    PROVE  Within(ExplicitEdges(d, l), live)
<1>1. ASSUME NEW e \in ExplicitEdges(d, l) PROVE e.s \in live /\ e.t \in live
  <2>1. PICK x \in d.edges : e = Edge(l[x.s], l[x.t], x.type) /\ l[x.s] # 0 /\ l[x.t] # 0
    BY <1>1, Zenon DEF ExplicitEdges
  <2>2. x.s \in 1 .. i - 1 /\ x.t \in 1 .. i - 1
    <3>1. Len(d.entries) \in Nat /\ x.s \in 1 .. Len(d.entries) /\ x.t \in 1 .. Len(d.entries)
      BY DraftsAssumption, Zenon
    <3> QED  BY <3>1
  <2>3. l[x.s] \in live /\ l[x.t] \in live  BY <2>1, <2>2, Zenon
  <2> QED  BY <2>1, <2>3, Zenon DEF Edge
<1> QED  BY <1>1, Zenon DEF Within

LEMMA ImportFinishesInv ==
    ASSUME Running, NEW p \in Procs, ImportFinishes(p)
    PROVE  Running'
<1>1. Runs(p, "import") /\ proc' = [proc EXCEPT ![p] = Idle]  BY Zenon DEF ImportFinishes, Goes
<1>2. PICK o : o = proc[p] /\ Importing(o, Active(insights)) /\ o.i > Len(o.draft.entries)
  BY <1>1, ImportAmid, Zenon DEF ImportFinishes
<1>3. Within(edges, Active(insights))  BY <1>1, ImportAmid, Zenon
<1>4. PICK explicit, repaired, stale :
        /\ explicit = ExplicitEdges(o.draft, o.imported)
        /\ repaired = repairImportedTemporalEdges(insights, edges \cup explicit, o.mine).edges
        /\ insights' = AutoPrune(RefreshEffectiveImportance(insights, repaired, stale),
                                 repaired, oplog, {}).rows
        /\ edges' = AutoPrune(RefreshEffectiveImportance(insights, repaired, stale),
                              repaired, oplog, {}).edges
  BY <1>2, Zenon DEF ImportFinishes
<1>5. Within(explicit, Active(insights))
  <2>1. /\ o.draft \in Drafts /\ o.i \in Nat
        /\ \A k \in 1 .. o.i - 1 : o.imported[k] = 0 \/ o.imported[k] \in Active(insights)
    BY <1>2, Zenon DEF Importing
  <2> QED  BY <1>2, <1>4, <2>1, ExplicitMeet, Zenon
<1>6. Within(edges \cup explicit, Active(insights))  BY <1>3, <1>5, Zenon DEF Within
<1>7. Within(repaired, Active(insights))  BY <1>4, <1>6, RepairMeets, Zenon
<1>8. PICK new : /\ new = RefreshEffectiveImportance(insights, repaired, stale)
                 /\ IsTable(new) /\ Active(new) = Active(insights)
  <2>1. IsTable(insights)  BY Zenon DEF Running
  <2> QED  BY <2>1, RefreshKeeps, Zenon
<1>9. IsTable(insights') /\ Within(edges', Active(insights'))
  BY <1>4, <1>7, <1>8, AutoPruneMeets, Zenon
<1> QED  BY <1>1, <1>9, Amid, IdleDoing, OneSteps, Zenon

-----------------------------------------------------------------------------
LEMMA StepInv ==
    ASSUME EInv, Next
    PROVE  EInv'
<1>1. world' = world
  BY ZenonT(60) DEF Next, TimePasses, Step, Begin, Runs, RememberReads, RememberSkips, RememberStores, LinkChecks,
     LinkForth, LinkBack, ForgetMarks, ForgetUnlinks, Keep, Suggest, Compact, Recall, SearchCommand,
     Show, EmbedOne, EmbedAll, ImportLoads, ImportReads, ImportSkips, ImportStores, ImportFails,
     ImportFinishes, Crash
<1>2. SUFFICES ASSUME Calm PROVE Running'  BY <1>1, Zenon DEF EInv, Calm
<1>3. Running  BY <1>2, Zenon DEF EInv
<1>4. CASE TimePasses  BY <1>3, <1>4, TimePassesInv, Zenon
<1>5. ASSUME NEW p \in Procs, Step(p) PROVE Running'
  <2>1. CASE RememberReads(p)  BY <1>2, <1>3, <2>1, RememberReadsInv, Zenon
  <2>2. CASE RememberSkips(p)  BY <1>3, <2>2, RememberSkipsInv, Zenon
  <2>3. CASE RememberStores(p)  BY <1>3, <2>3, RememberStoresInv, Zenon
  <2>4. CASE LinkChecks(p)  BY <1>2, <1>3, <2>4, LinkChecksInv, Zenon
  <2>5. CASE LinkForth(p)  BY <1>3, <2>5, LinkForthInv, Zenon
  <2>6. CASE LinkBack(p)  BY <1>3, <2>6, LinkBackInv, Zenon
  <2>7. CASE ForgetMarks(p)  BY <1>2, <1>3, <2>7, ForgetMarksInv, Zenon
  <2>8. CASE ForgetUnlinks(p)  BY <1>3, <2>8, ForgetUnlinksInv, Zenon
  <2>9. CASE Keep(p)  BY <1>3, <2>9, KeepInv, Zenon
  <2>10. CASE Suggest(p)  BY <1>3, <2>10, SuggestInv, Zenon
  <2>11. CASE \/ Compact(p) \/ Recall(p) \/ SearchCommand(p) \/ Show(p)
              \/ EmbedOne(p) \/ EmbedAll(p)
    BY <1>3, <2>11, AtOnceInv, Zenon
  <2>12. CASE ImportLoads(p)  BY <1>2, <1>3, <2>12, ImportLoadsInv, Zenon
  <2>13. CASE ImportReads(p)  BY <1>3, <2>13, ImportReadsInv, Zenon
  <2>14. CASE ImportSkips(p)  BY <1>3, <2>14, ImportSkipsInv, Zenon
  <2>15. CASE ImportStores(p)  BY <1>3, <2>15, ImportStoresInv, Zenon
  <2>16. CASE ImportFails(p)
    <3>1. world.crashes = 0 /\ world.crashes > 0  BY <1>2, <2>16, Zenon DEF Calm, ImportFails
    <3> QED  BY <3>1
  <2>17. CASE ImportFinishes(p)  BY <1>3, <2>17, ImportFinishesInv, Zenon
  <2>18. CASE Crash(p)
    <3>1. crashes \in Nat /\ crashes < 0  BY <1>2, <1>3, <2>18, Zenon DEF Calm, Crash, Running
    <3> QED  BY <3>1
  <2> QED
    BY <1>5, <2>1, <2>2, <2>3, <2>4, <2>5, <2>6, <2>7, <2>8, <2>9, <2>10, <2>11, <2>12, <2>13, <2>14,
       <2>15, <2>16, <2>17, <2>18, Zenon DEF Step
<1> QED  BY <1>4, <1>5, Zenon DEF Next, EInv

(***************************************************************************)
(* While commands run one at a time and none dies, an edge joins two       *)
(* active insights, whatever the contents, the drafts, the limits and the  *)
(* number of commands (SoftDeleteInsight, autoPrune, OnInsightCreated,     *)
(* importCmd).                                                             *)
(***************************************************************************)
THEOREM EdgesStayOnActive == Spec => []EdgesMeetActive
<1>1. Init => EInv
  <2>1. ASSUME Init PROVE Running
    <3>1. crashes \in Nat /\ proc = [p \in Procs |-> proc[p]] /\ \A p \in Procs : proc[p] = Idle
      BY <2>1, Zenon DEF Init
    <3>2. PICK none : none = << >> /\ insights = none  BY <2>1, Zenon DEF Init
    <3>3. IsTable(none)  BY <3>2 DEF IsTable, IsList
    <3>4. \A live : Within(edges, live)  BY <2>1, Zenon DEF Init, Within
    <3> QED  BY <3>1, <3>2, <3>3, <3>4, IdleDoing, Zenon DEF Running
  <2> QED  BY <2>1, Zenon DEF EInv
<1>2. EInv /\ [Next]_vars => EInv'
  <2>1. ASSUME EInv, UNCHANGED vars PROVE EInv'
    BY <2>1, Zenon DEF vars, EInv, Calm, Running, Quiet
  <2> QED  BY <2>1, StepInv, Zenon
<1>3. EInv => EdgesMeetActive
  BY Zenon DEF EInv, Calm, Running, EdgesMeetActive, Within
<1> QED  BY <1>1, <1>2, <1>3, PTL DEF Spec

-----------------------------------------------------------------------------
(***************************************************************************)
(* Only the writer serves: ServedByWriter for any number of daemons and of *)
(* commands that call Ensure.                                              *)
(***************************************************************************)

DaemonRow ==
    [proc : {"unborn", "alive", "gone"},
     state : {"none", "open", "serving", "closing", "closed"},
     main : {"none", "serving", "joining", "closing"},
     watch : {"none", "watching", "over"},
     closer : {"none", "cancel", "shutdown", "join", "drain", "over"},
     listening : BOOLEAN, done : BOOLEAN,
     exchange : {"none", "running", "done"},
     conns : Nat, active : Nat, stopping : BOOLEAN]

EnsureRow ==
    [at : {"rest", "locked", "preflight", "opened", "polling"}, child : Daemons \cup {NoOne}]

RTypes ==
    /\ daemon \in [Daemons -> DaemonRow]
    /\ sock \in Daemons \cup {NoOne}
    /\ holder \in Daemons \cup Callers \cup {NoOne}
    /\ ens \in [Callers -> EnsureRow]

Engaged(r) == r.state \in {"open", "serving", "closing"}

\* What the goroutines of one daemon agree on: nothing runs before Serve, a
\* close that began refuses requests, and the store is drained once the
\* listener is gone and closed once the requests are.
Sound(r) ==
    /\ r.proc # "alive" => r.state = "none"
    /\ r.state \in {"none", "open"} =>
         /\ r.main = "none" /\ r.watch = "none" /\ r.closer = "none"
         /\ ~r.listening /\ ~r.done /\ r.conns = 0 /\ r.active = 0
    /\ r.main = "none" => r.state \in {"none", "open"}
    /\ r.state \in {"closing", "closed"} => r.stopping
    /\ r.listening => r.watch # "none" /\ ~r.done
    /\ r.closer # "none" => r.state \in {"closing", "closed"}
    /\ r.closer \in {"cancel", "shutdown", "join", "drain"} => r.state = "closing"
    /\ r.closer = "drain" => ~r.listening
    /\ r.state = "closed" => ~r.listening /\ r.active = 0

\* The inductive invariant: the writer lock is that of the one daemon or the
\* one preflight that has the store open.
RInv ==
    /\ RTypes
    /\ \A x \in Daemons :
         /\ Sound(daemon[x])
         /\ Engaged(daemon[x]) => holder = x
         /\ daemon[x].listening => sock = x
    /\ \A c \in Callers : ens[c].at = "opened" => holder = c

LEMMA UnbornRow ==
    ASSUME NEW p \in {"unborn", "alive", "gone"}
    PROVE  LET r == [Unborn EXCEPT !.proc = p]
           IN r \in DaemonRow /\ Sound(r) /\ ~Engaged(r) /\ ~r.listening
  BY Zenon DEF Unborn, DaemonRow, Sound, Engaged

LEMMA RInitInv == RInit => RInv
  <1> SUFFICES ASSUME RInit PROVE RInv
    BY Zenon
  <1>1. Unborn \in DaemonRow /\ Sound(Unborn) /\ ~Engaged(Unborn) /\ ~Unborn.listening
    BY Zenon DEF Unborn, DaemonRow, Sound, Engaged
  <1>2. AtEase \in EnsureRow /\ AtEase.at = "rest"
    BY Zenon DEF AtEase, EnsureRow
  <1>3. RTypes
    BY <1>1, <1>2, Zenon DEF RInit, RTypes
  <1> QED
    BY <1>1, <1>2, <1>3, Zenon DEF RInit, RInv

\* One daemon moves to a row that is sound; the locks and names of the others
\* are left alone.
LEMMA DaemonStep ==
    ASSUME RInv, NEW x \in Daemons, NEW r \in DaemonRow, Sound(r), Set(x, r),
           UNCHANGED ens,
           sock' \in Daemons \cup {NoOne}, holder' \in Daemons \cup Callers \cup {NoOne},
           Engaged(r) => holder' = x, r.listening => sock' = x,
           \A y \in Daemons \ {x} : Engaged(daemon[y]) => holder' = holder,
           \A y \in Daemons \ {x} : daemon[y].listening => sock' = sock,
           \A c \in Callers : ens[c].at = "opened" => holder' = holder
    PROVE  RInv'
  <1>1. daemon' = [daemon EXCEPT ![x] = r] /\ daemon \in [Daemons -> DaemonRow]
    BY Zenon DEF Set, RInv, RTypes
  <1>2. daemon'[x] = r /\ \A y \in Daemons \ {x} : daemon'[y] = daemon[y]
    BY <1>1, Zenon
  <1>3. RTypes'
    BY <1>1, Zenon DEF RInv, RTypes
  <1>4. \A y \in Daemons :
          /\ Sound(daemon'[y])
          /\ Engaged(daemon'[y]) => holder' = y
          /\ daemon'[y].listening => sock' = y
    BY <1>2, Zenon DEF RInv
  <1>5. \A c \in Callers : ens'[c].at = "opened" => holder' = c
    BY Zenon DEF RInv
  <1> QED
    BY <1>3, <1>4, <1>5, Zenon DEF RInv

\* A listening daemon has the store open.
LEMMA ListeningIsBusy ==
    ASSUME RInv, NEW y \in Daemons, daemon[y].listening \/ daemon[y].active > 0
    PROVE  Engaged(daemon[y]) /\ holder = y
  <1>1. daemon[y] \in DaemonRow /\ Sound(daemon[y]) /\ (Engaged(daemon[y]) => holder = y)
    BY Zenon DEF RInv, RTypes
  <1>2. daemon[y].active = 0 => ~(daemon[y].active > 0)
    OBVIOUS
  <1>3. daemon[y].state \in {"serving", "closing"}
    BY <1>1, <1>2, Zenon DEF Sound, DaemonRow
  <1> QED
    BY <1>1, <1>3, Zenon DEF Engaged

\* A step that touches neither the locks nor the socket.
LEMMA InnerStep ==
    ASSUME RInv, NEW x \in Daemons, NEW r \in DaemonRow, Sound(r), Set(x, r), UNCHANGED others,
           Engaged(r) => Engaged(daemon[x]), r.listening => daemon[x].listening
    PROVE  RInv'
  <1>1. holder' = holder /\ sock' = sock /\ ens' = ens
    BY Zenon DEF others
  <1>2. /\ holder \in Daemons \cup Callers \cup {NoOne} /\ sock \in Daemons \cup {NoOne}
        /\ Engaged(daemon[x]) => holder = x
        /\ daemon[x].listening => sock = x
    BY Zenon DEF RInv, RTypes
  <1> QED
    BY <1>1, <1>2, DaemonStep, Zenon

\* What a close that begins does to a row.
LEMMA BegunRow ==
    ASSUME NEW r \in DaemonRow
    PROVE  LET b == BegunClose(r) IN
           /\ b \in DaemonRow
           /\ b.proc = r.proc /\ b.main = r.main /\ b.watch = r.watch
           /\ b.listening = r.listening /\ b.done = r.done
           /\ b.conns = r.conns /\ b.active = r.active
           /\ \/ r.state \in {"closing", "closed"} /\ b = r
              \/ r.state \notin {"closing", "closed"} /\ b.state = "closing" /\ b.stopping /\ b.closer = "cancel"
  <1>1. CASE r.state \in {"closing", "closed"}
    BY <1>1, Zenon DEF BegunClose
  <1>2. CASE r.state \notin {"closing", "closed"}
    <2> DEFINE n == [r EXCEPT !.state = "closing", !.stopping = TRUE, !.closer = "cancel"]
    <2>1. BegunClose(r) = n
      BY <1>2, Zenon DEF BegunClose
    <2>2. /\ n \in DaemonRow
          /\ n.proc = r.proc /\ n.main = r.main /\ n.watch = r.watch
          /\ n.listening = r.listening /\ n.done = r.done
          /\ n.conns = r.conns /\ n.active = r.active
          /\ n.state = "closing" /\ n.stopping /\ n.closer = "cancel"
      BY Zenon DEF DaemonRow
    <2> QED
      BY <1>2, <2>1, <2>2, Zenon
  <1> QED
    BY <1>1, <1>2, Zenon

LEMMA RequestSteps ==
    ASSUME RInv, NEW x \in Daemons,
           Started(x) \/ Accept(x) \/ begin(x) \/ end(x) \/ supervise(x) \/ Returns(x)
    PROVE  RInv'
  <1> DEFINE r == daemon[x]
  <1>1. r \in DaemonRow /\ Sound(r)
    BY Zenon DEF RInv, RTypes
  <1>2. CASE Started(x)
    <2> DEFINE n == [r EXCEPT !.proc = "alive"]
    <2>1. n \in DaemonRow /\ Sound(n) /\ (Engaged(n) => Engaged(r)) /\ (n.listening => r.listening)
      BY <1>1, <1>2, Zenon DEF DaemonRow, Sound, Engaged, Started
    <2> QED
      BY <1>2, <2>1, InnerStep, Zenon DEF Started
  <1>3. CASE Accept(x)
    <2> DEFINE n == [r EXCEPT !.conns = @ + 1]
    <2>1. n \in DaemonRow /\ Sound(n) /\ (Engaged(n) => Engaged(r)) /\ (n.listening => r.listening)
      BY <1>1, <1>3 DEF DaemonRow, Sound, Engaged, Accept
    <2> QED
      BY <1>3, <2>1, InnerStep, Zenon DEF Accept
  <1>4. CASE begin(x)
    <2> DEFINE n == [r EXCEPT !.conns = @ - 1, !.active = IF r.stopping THEN @ ELSE @ + 1]
    <2>2. r.conns \in Nat /\ r.active \in Nat /\ r.conns > 0
      BY <1>1, <1>4, Zenon DEF DaemonRow, begin
    <2>3. r.state \notin {"none", "open"} /\ r.proc = "alive"
      BY <1>1, <1>4, <2>2 DEF Sound, begin, Alive
    <2>4. r.conns - 1 \in Nat /\ r.active + 1 \in Nat
      BY <2>2
    <2>5. n \in DaemonRow
      BY <1>1, <2>2, <2>4, Zenon DEF DaemonRow
    <2>6. /\ n.proc = r.proc /\ n.state = r.state /\ n.main = r.main /\ n.watch = r.watch
          /\ n.closer = r.closer /\ n.listening = r.listening /\ n.done = r.done
          /\ n.stopping = r.stopping /\ (r.stopping => n.active = r.active)
      BY <1>1, Zenon DEF DaemonRow
    <2>1. n \in DaemonRow /\ Sound(n) /\ (Engaged(n) => Engaged(r)) /\ (n.listening => r.listening)
      BY <1>1, <2>3, <2>5, <2>6, Zenon DEF Sound, Engaged
    <2> QED
      BY <1>4, <2>1, InnerStep, Zenon DEF begin
  <1>5. CASE end(x)
    <2> DEFINE n == [r EXCEPT !.active = @ - 1]
    <2>1. n \in DaemonRow /\ Sound(n) /\ (Engaged(n) => Engaged(r)) /\ (n.listening => r.listening)
      BY <1>1, <1>5 DEF DaemonRow, Sound, Engaged, end
    <2> QED
      BY <1>5, <2>1, InnerStep, Zenon DEF end
  <1>6. CASE supervise(x)
    <2> DEFINE n == [r EXCEPT !.exchange = "done"]
    <2>1. n \in DaemonRow /\ Sound(n) /\ (Engaged(n) => Engaged(r)) /\ (n.listening => r.listening)
      BY <1>1, <1>6 DEF DaemonRow, Sound, Engaged, supervise
    <2> QED
      BY <1>6, <2>1, InnerStep, Zenon DEF supervise
  <1>7. CASE Returns(x)
    BY <1>7, UnbornRow, InnerStep, Zenon DEF Returns
  <1> QED
    BY <1>2, <1>3, <1>4, <1>5, <1>6, <1>7, Zenon

LEMMA CloserSteps ==
    ASSUME RInv, NEW x \in Daemons,
           Watches(x) \/ Joins(x) \/ ClosesExchange(x) \/ WaitsServe(x)
    PROVE  RInv'
  <1> DEFINE r == daemon[x]
             b == BegunClose(r)
  <1>1. r \in DaemonRow /\ Sound(r)
    BY Zenon DEF RInv, RTypes
  <1>2. /\ b \in DaemonRow
        /\ b.proc = r.proc /\ b.main = r.main /\ b.watch = r.watch
        /\ b.listening = r.listening /\ b.done = r.done
        /\ b.conns = r.conns /\ b.active = r.active
        /\ \/ r.state \in {"closing", "closed"} /\ b = r
           \/ r.state \notin {"closing", "closed"} /\ b.state = "closing" /\ b.stopping /\ b.closer = "cancel"
    BY <1>1, BegunRow, Zenon
  <1>3. r.state \notin {"none", "open"} => Sound(b) /\ (Engaged(b) => Engaged(r))
    BY <1>1, <1>2, Zenon DEF Sound, Engaged, DaemonRow
  <1>4. CASE Watches(x)
    <2>1. r.watch = "watching" /\ r.state \notin {"none", "open"}
      BY <1>1, <1>4, Zenon DEF Watches, Sound
    <2>2. PICK n \in {r, b} : Set(x, [n EXCEPT !.watch = "over"])
      BY <1>4, Zenon DEF Watches
    <2>3. n \in DaemonRow /\ Sound(n) /\ (Engaged(n) => Engaged(r)) /\ n.listening = r.listening
          /\ n.state \notin {"none", "open"}
      BY <1>1, <1>2, <1>3, <2>1 DEF DaemonRow
    <2> DEFINE m == [n EXCEPT !.watch = "over"]
    <2>4. m \in DaemonRow /\ Sound(m) /\ (Engaged(m) => Engaged(r)) /\ (m.listening => r.listening)
      BY <2>3 DEF DaemonRow, Sound, Engaged
    <2> QED
      BY <1>4, <2>2, <2>4, InnerStep, Zenon DEF Watches
  <1>5. CASE Joins(x)
    <2>1. r.main = "joining" /\ r.state \notin {"none", "open"}
      BY <1>1, <1>5, Zenon DEF Joins, Sound
    <2> DEFINE m == [b EXCEPT !.main = "closing"]
    <2>2. Sound(b) /\ (Engaged(b) => Engaged(r)) /\ b \in DaemonRow /\ b.listening = r.listening
      BY <1>2, <1>3, <2>1, Zenon
    <2> HIDE DEF b
    <2>3. m \in DaemonRow /\ Sound(m) /\ (Engaged(m) => Engaged(r)) /\ (m.listening => r.listening)
      BY <1>2, <2>1, <2>2 DEF DaemonRow, Sound, Engaged
    <2> QED
      BY <1>5, <2>3, InnerStep, Zenon DEF Joins, b
  <1>6. CASE ClosesExchange(x)
    <2> DEFINE m == [r EXCEPT !.closer = IF r.watch = "none" THEN "drain" ELSE "shutdown"]
    <2>0. r.closer = "cancel" /\ r.state = "closing"
      BY <1>1, <1>6, Zenon DEF ClosesExchange, Sound, DaemonRow
    <2>1. m \in DaemonRow /\ Sound(m) /\ (Engaged(m) => Engaged(r)) /\ (m.listening => r.listening)
      BY <1>1, <1>6, <2>0, Zenon DEF DaemonRow, Sound, Engaged
    <2> QED
      BY <1>6, <2>1, InnerStep, Zenon DEF ClosesExchange
  <1>7. CASE WaitsServe(x)
    <2> DEFINE m == [r EXCEPT !.closer = "drain"]
    <2>1. m \in DaemonRow /\ Sound(m) /\ (Engaged(m) => Engaged(r)) /\ (m.listening => r.listening)
      BY <1>1, <1>7, Zenon DEF DaemonRow, Sound, Engaged, WaitsServe
    <2> QED
      BY <1>7, <2>1, InnerStep, Zenon DEF WaitsServe
  <1> QED
    BY <1>4, <1>5, <1>6, <1>7, Zenon

\* The steps that move the writer lock or the socket.
LEMMA LockSteps ==
    ASSUME RInv, NEW x \in Daemons,
           openRuntime(x) \/ Serve(x) \/ ServeReturns(x) \/ ShutsDown(x) \/ ClosesStore(x) \/ KilledDaemon(x)
    PROVE  RInv'
  <1> USE RuntimeAssumption DEF NoOne
  <1> DEFINE r == daemon[x]
             gone == [Unborn EXCEPT !.proc = "gone"]
  <1>1. r \in DaemonRow /\ Sound(r) /\ (Engaged(r) => holder = x) /\ (r.listening => sock = x)
    BY Zenon DEF RInv, RTypes
  <1>2. /\ sock \in Daemons \cup {NoOne} /\ holder \in Daemons \cup Callers \cup {NoOne}
        /\ \A y \in Daemons : Engaged(daemon[y]) => holder = y
        /\ \A y \in Daemons : daemon[y].listening => sock = y /\ holder = y
        /\ \A c \in Callers : ens[c].at = "opened" => holder = c
    BY ListeningIsBusy, Zenon DEF RInv, RTypes
  <1>3. gone \in DaemonRow /\ Sound(gone) /\ ~Engaged(gone) /\ ~gone.listening
    BY UnbornRow, Zenon
  <1>4. CASE openRuntime(x)
    <2>1. CASE holder = NoOne
      <3> DEFINE m == [r EXCEPT !.state = "open"]
      <3>1. m \in DaemonRow /\ Sound(m) /\ ~m.listening
        BY <1>1, <1>4, Zenon DEF openRuntime, Alive, DaemonRow, Sound
      <3>2. Set(x, m) /\ holder' = x /\ UNCHANGED <<sock, ens>>
        BY <1>4, <2>1, Zenon DEF openRuntime
      <3>3. \A y \in Daemons : ~Engaged(daemon[y])
        BY <1>2, <2>1, Zenon
      <3>4. \A c \in Callers : ens[c].at # "opened"
        BY <1>2, <2>1, Zenon
      <3> QED
        BY <1>2, <3>1, <3>2, <3>3, <3>4, DaemonStep, Zenon
    <2>2. CASE holder # NoOne
      <3>1. Set(x, gone) /\ UNCHANGED <<holder, sock, ens>>
        BY <1>4, <2>2, Zenon DEF openRuntime
      <3> QED
        BY <1>2, <1>3, <3>1, DaemonStep, Zenon
    <2> QED
      BY <2>1, <2>2, Zenon
  <1>5. CASE Serve(x)
    <2>1. Alive(x) /\ r.state = "open" /\ r.main = "none" /\ holder = x /\ UNCHANGED <<holder, ens>>
      BY <1>1, <1>5, Zenon DEF Serve, Engaged
    <2>2. \A y \in Daemons \ {x} : ~Engaged(daemon[y]) /\ ~daemon[y].listening
      BY <1>2, <2>1, Zenon
    <2>3. CASE /\ sock' = x
               /\ Set(x, [r EXCEPT !.state = "serving", !.main = "serving",
                    !.watch = "watching", !.listening = TRUE,
                    !.exchange = IF HasRoute THEN "running" ELSE "none"])
      <3> DEFINE e == IF HasRoute THEN "running" ELSE "none"
                 m == [r EXCEPT !.state = "serving", !.main = "serving",
                         !.watch = "watching", !.listening = TRUE, !.exchange = e]
      <3>0. e \in {"none", "running", "done"}
        BY Zenon
      <3>1. m \in DaemonRow /\ Sound(m)
        <4> HIDE DEF e
        <4> QED
          BY <1>1, <2>1, <3>0, Zenon DEF Alive, DaemonRow, Sound
      <3> QED
        BY <1>2, <2>1, <2>2, <2>3, <3>1, DaemonStep, Zenon
    <2>4. CASE /\ sock' = IF StaleSocket THEN NoOne ELSE sock
               /\ Set(x, [BegunClose(r) EXCEPT !.main = "closing"])
      <3> DEFINE b == BegunClose(r)
                 m == [b EXCEPT !.main = "closing"]
      <3>1. /\ b \in DaemonRow
            /\ b.proc = r.proc /\ b.watch = r.watch
            /\ b.listening = r.listening /\ b.done = r.done
            /\ b.conns = r.conns /\ b.active = r.active
            /\ b.state = "closing" /\ b.stopping /\ b.closer = "cancel"
        BY <1>1, <2>1, BegunRow, Zenon
      <3>2. ~r.listening /\ r.proc = "alive"
        BY <1>1, <2>1, Zenon DEF Alive, Sound
      <3> HIDE DEF b
      <3>3. m \in DaemonRow /\ Sound(m) /\ ~m.listening
        BY <3>1, <3>2, Zenon DEF DaemonRow, Sound
      <3>4. sock' \in Daemons \cup {NoOne} /\ Set(x, m)
        BY <1>2, <2>4, Zenon DEF b
      <3> QED
        BY <1>2, <2>1, <2>2, <3>3, <3>4, DaemonStep, Zenon
    <2> QED
      BY <1>5, <2>3, <2>4, Zenon DEF Serve
  <1>6. CASE ServeReturns(x)
    <2> DEFINE m == [r EXCEPT !.main = "joining", !.listening = FALSE, !.done = TRUE]
    <2>1. m \in DaemonRow /\ Sound(m) /\ ~m.listening /\ (Engaged(m) => Engaged(r))
      BY <1>1, <1>6, Zenon DEF ServeReturns, Alive, DaemonRow, Sound, Engaged
    <2>2. Set(x, m) /\ sock' = Unbound(x) /\ UNCHANGED <<holder, ens>>
      BY <1>6, Zenon DEF ServeReturns
    <2>3. sock' \in Daemons \cup {NoOne} /\ \A y \in Daemons \ {x} : daemon[y].listening => sock' = sock
      BY <1>2, <2>2, Zenon DEF Unbound
    <2> QED
      BY <1>1, <1>2, <2>1, <2>2, <2>3, DaemonStep, Zenon
  <1>7. CASE ShutsDown(x)
    <2> DEFINE m == [r EXCEPT !.closer = "join", !.listening = FALSE]
    <2>1. m \in DaemonRow /\ Sound(m) /\ ~m.listening /\ (Engaged(m) => Engaged(r))
      BY <1>1, <1>7, Zenon DEF ShutsDown, Alive, DaemonRow, Sound, Engaged
    <2>2. Set(x, m) /\ sock' = Unbound(x) /\ UNCHANGED <<holder, ens>>
      BY <1>7, Zenon DEF ShutsDown
    <2>3. sock' \in Daemons \cup {NoOne} /\ \A y \in Daemons \ {x} : daemon[y].listening => sock' = sock
      BY <1>2, <2>2, Zenon DEF Unbound
    <2> QED
      BY <1>1, <1>2, <2>1, <2>2, <2>3, DaemonStep, Zenon
  <1>8. CASE ClosesStore(x)
    <2> DEFINE m == [r EXCEPT !.closer = "over", !.state = "closed"]
    <2>1. r.closer = "drain" /\ r.active = 0 /\ r.state = "closing" /\ r.proc = "alive" /\ holder = x
      BY <1>1, <1>8, Zenon DEF ClosesStore, Alive, Sound, Engaged
    <2>2. m \in DaemonRow /\ Sound(m) /\ ~m.listening /\ ~Engaged(m)
      BY <1>1, <2>1, Zenon DEF DaemonRow, Sound, Engaged
    <2>3. Set(x, m) /\ holder' = NoOne /\ UNCHANGED <<sock, ens>>
      BY <1>8, Zenon DEF ClosesStore
    <2>4. \A y \in Daemons \ {x} : ~Engaged(daemon[y])
      BY <1>2, <2>1, Zenon
    <2>5. \A c \in Callers : ens[c].at # "opened"
      BY <1>2, <2>1, Zenon
    <2> QED
      BY <1>2, <2>2, <2>3, <2>4, <2>5, DaemonStep, Zenon
  <1>9. CASE KilledDaemon(x)
    <2>1. Set(x, gone) /\ UNCHANGED <<sock, ens>> /\ holder' = IF holder = x THEN NoOne ELSE holder
      BY <1>9, Zenon DEF KilledDaemon
    <2>2. /\ \A y \in Daemons \ {x} : Engaged(daemon[y]) => holder' = holder
          /\ \A c \in Callers : ens[c].at = "opened" => holder' = holder
          /\ holder' \in Daemons \cup Callers \cup {NoOne}
      BY <1>2, <2>1, Zenon
    <2> QED
      BY <1>2, <1>3, <2>1, <2>2, DaemonStep, Zenon
  <1> QED
    BY <1>4, <1>5, <1>6, <1>7, <1>8, <1>9, Zenon

\* A command moves, and the writer lock with it at most from or to itself.
LEMMA EnsureStep ==
    ASSUME RInv, NEW c \in Callers, NEW e \in EnsureRow, ens' = [ens EXCEPT ![c] = e],
           UNCHANGED <<daemon, sock>>,
           \/ UNCHANGED holder
           \/ holder = NoOne /\ holder' = c
           \/ holder = c /\ holder' = NoOne,
           e.at = "opened" => holder' = c
    PROVE  RInv'
  <1> USE RuntimeAssumption DEF NoOne
  <1>1. RTypes'
    BY Zenon DEF RInv, RTypes
  <1>2. \A x \in Daemons : Engaged(daemon[x]) => holder' = x
    BY Zenon DEF RInv, RTypes
  <1>3. \A d \in Callers : ens'[d].at = "opened" => holder' = d
    BY Zenon DEF RInv, RTypes
  <1> QED
    BY <1>1, <1>2, <1>3, Zenon DEF RInv

LEMMA EnsureSteps ==
    ASSUME RInv, NEW c \in Callers,
           \/ Ensure(c) \/ Reprobes(c) \/ Preflights(c) \/ Polls(c) \/ GivesUp(c) \/ KilledCaller(c)
           \/ \E x \in Daemons : StartsChild(c, x)
    PROVE  RInv'
  <1> USE RuntimeAssumption DEF NoOne
  <1> DEFINE Turn(a) == [ens[c] EXCEPT !.at = a]
  <1>1. /\ ens[c] \in EnsureRow /\ ens \in [Callers -> EnsureRow]
        /\ ens[c].at = "opened" => holder = c
    BY Zenon DEF RInv, RTypes
  <1>2. \A a \in {"rest", "locked", "preflight", "opened", "polling"} :
          Turn(a) \in EnsureRow /\ Turn(a).at = a /\ (EnsureAt(c, a) => ens' = [ens EXCEPT ![c] = Turn(a)])
    BY <1>1, Zenon DEF EnsureRow, EnsureAt
  <1>3. AtEase \in EnsureRow /\ AtEase.at = "rest"
    BY Zenon DEF AtEase, EnsureRow
  <1> HIDE DEF Turn
  <1>4. CASE Ensure(c)
    BY <1>2, <1>4, EnsureStep, Zenon DEF Ensure
  <1>5. CASE Reprobes(c)
    BY <1>2, <1>3, <1>5, EnsureStep, Zenon DEF Reprobes, EnsureEnds
  <1>6. CASE Preflights(c)
    <2>1. CASE holder = NoOne
      BY <1>2, <1>6, <2>1, EnsureStep, Zenon DEF Preflights
    <2>2. CASE holder # NoOne
      BY <1>2, <1>6, <2>2, EnsureStep, Zenon DEF Preflights
    <2> QED
      BY <2>1, <2>2, Zenon
  <1>7. CASE Polls(c)
    BY <1>3, <1>7, EnsureStep, Zenon DEF Polls, EnsureEnds
  <1>8. CASE KilledCaller(c)
    BY <1>3, <1>8, EnsureStep, Zenon DEF KilledCaller, EnsureEnds
  <1>9. CASE GivesUp(c)
    <2> DEFINE x == ens[c].child
    <2>1. ens' = [ens EXCEPT ![c] = AtEase] /\ sock' = sock /\ x \in Daemons \cup {NoOne}
      BY <1>1, <1>9, Zenon DEF GivesUp, EnsureEnds, EnsureRow
    <2>2. CASE UNCHANGED <<daemon, holder>>
      BY <1>3, <2>1, <2>2, EnsureStep, Zenon
    <2>3. CASE x # NoOne /\ Alive(x)
      <3> DEFINE gone == [Unborn EXCEPT !.proc = "gone"]
      <3>1. x \in Daemons /\ Set(x, gone) /\ holder' = IF holder = x THEN NoOne ELSE holder
        BY <1>9, <2>1, <2>3, Zenon DEF GivesUp
      <3>2. gone \in DaemonRow /\ Sound(gone) /\ ~Engaged(gone) /\ ~gone.listening
        BY UnbornRow, Zenon
      <3>3. RTypes /\ daemon' = [daemon EXCEPT ![x] = gone]
        BY <3>1, Zenon DEF RInv, Set
      <3>4. RTypes'
        BY <1>3, <2>1, <3>1, <3>2, <3>3, Zenon DEF RTypes
      <3>5. \A y \in Daemons : daemon'[y] = IF y = x THEN gone ELSE daemon[y]
        BY <3>1, <3>3, Zenon DEF RTypes
      <3>6. \A y \in Daemons : /\ Sound(daemon'[y])
                               /\ Engaged(daemon'[y]) => holder' = y
                               /\ daemon'[y].listening => sock' = y
        BY <2>1, <3>1, <3>2, <3>5, Zenon DEF RInv
      <3>7. \A d \in Callers : ens'[d].at = "opened" => holder' = d
        BY <1>1, <1>3, <2>1, <3>1, Zenon DEF RInv
      <3> QED
        BY <3>4, <3>6, <3>7, Zenon DEF RInv
    <2> QED
      BY <1>9, <2>2, <2>3, Zenon DEF GivesUp
  <1>10. ASSUME NEW x \in Daemons, StartsChild(c, x) PROVE RInv'
    <2> DEFINE r == daemon[x]
               n == [r EXCEPT !.proc = "alive"]
               e == [at |-> "polling", child |-> x]
    <2>1. r \in DaemonRow /\ Sound(r) /\ r.proc = "unborn" /\ RTypes
      BY <1>10, Zenon DEF RInv, RTypes, StartsChild
    <2>2. n \in DaemonRow /\ Sound(n) /\ ~Engaged(n) /\ ~n.listening
      BY <2>1, Zenon DEF DaemonRow, Sound, Engaged
    <2>3. holder = c /\ holder' = NoOne /\ sock' = sock /\ daemon' = [daemon EXCEPT ![x] = n]
          /\ ens' = [ens EXCEPT ![c] = e]
      BY <1>1, <1>10, Zenon DEF StartsChild, Set
    <2>4. e \in EnsureRow /\ e.at # "opened"
      BY Zenon DEF EnsureRow
    <2> HIDE DEF n, e
    <2>5. RTypes'
      BY <2>1, <2>2, <2>3, <2>4, Zenon DEF RTypes
    <2>6. \A y \in Daemons : daemon'[y] = IF y = x THEN n ELSE daemon[y]
      BY <2>1, <2>3, Zenon DEF RTypes
    <2>7. \A y \in Daemons : /\ Sound(daemon'[y])
                             /\ Engaged(daemon'[y]) => holder' = y
                             /\ daemon'[y].listening => sock' = y
      BY <2>2, <2>3, <2>6, Zenon DEF RInv
    <2>8. \A d \in Callers : ens'[d].at = "opened" => holder' = d
      BY <1>1, <2>3, <2>4, Zenon DEF RInv
    <2> QED
      BY <2>5, <2>7, <2>8, Zenon DEF RInv
  <1> QED
    BY <1>4, <1>5, <1>6, <1>7, <1>8, <1>9, <1>10, Zenon

LEMMA RNextInv == RInv /\ [RNext]_rvars => RInv'
  <1> SUFFICES ASSUME RInv, [RNext]_rvars PROVE RInv'
    BY Zenon
  <1>1. CASE UNCHANGED rvars
    BY <1>1, Zenon DEF rvars, RInv, RTypes
  <1>2. ASSUME NEW x \in Daemons,
               Started(x) \/ Accept(x) \/ begin(x) \/ end(x) \/ supervise(x) \/ Returns(x)
        PROVE  RInv'
    BY <1>2, RequestSteps, Zenon
  <1>3. ASSUME NEW x \in Daemons, Watches(x) \/ Joins(x) \/ ClosesExchange(x) \/ WaitsServe(x)
        PROVE  RInv'
    BY <1>3, CloserSteps, Zenon
  <1>4. ASSUME NEW x \in Daemons,
               \/ openRuntime(x) \/ Serve(x) \/ ServeReturns(x) \/ ShutsDown(x)
               \/ ClosesStore(x) \/ KilledDaemon(x)
        PROVE  RInv'
    BY <1>4, LockSteps, Zenon
  <1>5. ASSUME NEW c \in Callers,
               \/ Ensure(c) \/ Reprobes(c) \/ Preflights(c) \/ Polls(c) \/ GivesUp(c) \/ KilledCaller(c)
               \/ \E x \in Daemons : StartsChild(c, x)
        PROVE  RInv'
    BY <1>5, EnsureSteps, Zenon
  <1> QED
    BY <1>1, <1>2, <1>3, <1>4, <1>5, Zenon DEF RNext

(***************************************************************************)
(* However many daemons and Ensures race, a daemon that listens, answers   *)
(* or has the store open holds the writer lock, and the socket is that of  *)
(* the daemon that listens (daemon.go, lifecycle.go, unix.go, ensure.go).  *)
(***************************************************************************)
THEOREM WriterServes == RInit /\ [][RNext]_rvars => []ServedByWriter
  <1>1. RInv => ServedByWriter
    <2> SUFFICES ASSUME RInv, NEW x \in Daemons
                 PROVE  /\ daemon[x].active > 0 \/ daemon[x].listening
                             \/ daemon[x].state \in {"open", "serving", "closing"} => holder = x
                        /\ daemon[x].listening => sock = x
      BY Zenon DEF ServedByWriter
    <2> QED
      BY ListeningIsBusy, Zenon DEF RInv, Engaged
  <1> QED
    BY <1>1, RInitInv, RNextInv, PTL

=============================================================================
