---------------------------- MODULE JournalProofs ----------------------------
(***************************************************************************)
(* The Agent terminal for any number of commands, boundaries and Intents.  *)
(***************************************************************************)
EXTENDS Journal, FiniteSetTheorems, TLAPS

JournalFile ==
    [name : {Active} \cup Operations, b : Boundaries, cur : 0..MaxCurrentOps,
     seen : BOOLEAN, cands : SUBSET Handles]

\* Where a command stands that holds the lock for sure.
JLocked == {"stage", "rename", "view", "issue", "store", "admit", "mark", "remove"}

JRunning ==
    [at : JLocked \cup {"idle", "end", "show", "present", "settle"},
     cmd : {"none", "attach", "end", "current", "capture", "submit", "finish"},
     b : Boundaries \cup {"none"}, i : Intents \cup {NoIntent},
     j : SUBSET JournalFile, w : SUBSET JournalFile]

JTypes ==
    /\ files \subseteq JournalFile
    /\ lock \in Procs \cup {Nobody}
    /\ run \in [Procs -> JRunning]
    /\ drawn \in 0..MaxCurrentOps
    /\ attached \in [Boundaries -> {"absent", "live", "expired", "ended"}]
    /\ frozen \subseteq Boundaries \X (1..MaxCurrentOps)
    /\ DOMAIN receipts = Operations

InLock(p) == run[p].at \in JLocked \/ (run[p].at = "end" /\ run[p].cmd # "finish")

\* A journal file f remembers the View of the boundary that is live: it names
\* that boundary, and its operation unless the Receipt was presented.
Remembers(f) ==
    \A x \in frozen : attached[x[1]] = "live" =>
        /\ f.b = x[1]
        /\ f.cur = x[2] \/ (validTerminalName(f.name) /\ f.cur = 0)

NoLiveView == \A x \in frozen : attached[x[1]] # "live"

\* What holds between commands: one file, one unended boundary, one View for
\* each boundary, and nothing of it forgotten.
JKept ==
    /\ \A f, g \in files : f = g
    /\ \A b, c \in Boundaries : Unended(b) /\ Unended(c) => b = c
    /\ \A x \in frozen : attached[x[1]] # "absent"
    /\ \A x, y \in frozen : x[1] = y[1] => x = y
    /\ \A f \in files : Remembers(f) /\ owed \subseteq f.cands
    /\ files = {} => NoLiveView /\ owed = {}

\* What a command that holds the lock knows of the file it loaded (j) and of
\* the one it is about to publish (w).
Inside(p) ==
    LET at == run[p].at
        j == run[p].j
    IN /\ lock = p
       /\ at \in {"end", "issue", "remove"} /\ run[p].cmd = "attach" => run[p].b \in Boundaries
       /\ at = "end" => files = j
       /\ at = "end" /\ run[p].cmd = "attach" =>
            \A f \in j : validTerminalName(f.name) \/ f.b # run[p].b
       /\ at = "issue" =>
            /\ files \subseteq j
            /\ \A f \in files : f.b # run[p].b /\ ~validTerminalName(f.name)
            /\ run[p].cmd = "attach"
       /\ at \in {"view", "store", "mark", "admit"} => files = j
       /\ at = "view" => run[p].cmd = "current"
       /\ at = "store" => run[p].cmd = "capture"
       /\ at \in {"view", "store", "mark"} => \A f \in j : ~validTerminalName(f.name)
       /\ at \in {"view", "admit", "mark"} => \A f \in j : f.cur # 0
       /\ at \in {"admit", "mark"} => run[p].i \in Intents
       /\ at \in {"stage", "rename"} => \A w \in run[p].w :
            /\ Remembers(w)
            /\ run[p].cmd = "finish" => w.cur = 0 /\ files \subseteq j
            /\ run[p].cmd # "finish" =>
                 owed \subseteq w.cands /\ \A f \in files : ~validTerminalName(f.name)
            /\ run[p].cmd = "current" => w.cur # 0 /\ ~validTerminalName(w.name)
            /\ \A f \in files : f.name = w.name

\* What a command that let go of the lock may rely on: it stays true.
Outside(p) ==
    LET at == run[p].at
    IN /\ \A f, g \in run[p].j : f = g
       /\ at = "settle" => run[p].cmd = "finish"
       /\ \A j \in run[p].j :
            /\ at \in {"show", "present"} => validTerminalName(j.name)
            /\ at = "present" => j.name \in shown
            /\ at \in {"stage", "rename"} /\ run[p].cmd = "finish" => j.name \in shown
            /\ at \in {"end", "settle", "remove"} => ~Pending(j)
            /\ at \in {"settle", "remove"} => attached[j.b] = "ended"

JInv ==
    /\ JTypes
    /\ JKept
    /\ \A p \in Procs : (InLock(p) => Inside(p)) /\ Outside(p)

LEMMA JInitInv == JInit => JInv
  <1> SUFFICES ASSUME JInit PROVE JInv
    BY Zenon
  <1> USE JournalAssumption
  <1>1. Idle \in JRunning /\ Idle.at = "idle" /\ Idle.j = {} /\ Idle.cmd = "none"
    BY Zenon DEF Idle, JRunning
  <1>2. \A p \in Procs : run[p] = Idle
    BY Zenon DEF JInit
  <1>3. JTypes
    BY <1>1 DEF JInit, JTypes
  <1>4. JKept
    BY Zenon DEF JInit, JKept, NoLiveView, Unended
  <1>5. \A p \in Procs : ~InLock(p) /\ Outside(p)
    BY <1>1, <1>2, Zenon DEF InLock, Outside, JLocked
  <1> QED
    BY <1>3, <1>4, <1>5, Zenon DEF JInv

\* The lock excludes: while p has it, or nobody has, no other command is
\* between its load and its publication.
LEMMA Excluded ==
    ASSUME JInv, NEW p \in Procs, NEW q \in Procs, q # p, lock \in {p, Nobody}
    PROVE  ~InLock(q)
  BY JournalAssumption DEF JInv, Inside

\* What a command relies on without the lock survives the steps of others.
LEMMA OutsideStays ==
    ASSUME NEW q \in Procs, Outside(q), run'[q] = run[q], shown \subseteq shown',
           JTypes,
           \A b \in Boundaries : attached[b] = "ended" => attached'[b] = "ended"
    PROVE  Outside(q)'
  <1>1. \A j \in run[q].j : j.b \in Boundaries
    BY DEF JTypes, JRunning, JournalFile
  <1> QED
    BY <1>1, Zenon DEF Outside, Pending

\* A step of a command that has the lock or takes it.
LEMMA OwnStep ==
    ASSUME JInv, NEW p \in Procs, lock \in {p, Nobody}, NEW r \in JRunning, Goes(p, r),
           JTypes', JKept', shown \subseteq shown',
           \A b \in Boundaries : attached[b] = "ended" => attached'[b] = "ended",
           InLock(p)' => Inside(p)', Outside(p)'
    PROVE  JInv'
  <1>1. \A q \in Procs : q # p => run'[q] = run[q]
    BY Zenon DEF Goes, JInv, JTypes
  <1>2. ASSUME NEW q \in Procs, q # p PROVE ~InLock(q)' /\ Outside(q)'
    <2>1. ~InLock(q)
      BY <1>2, Excluded, Zenon
    <2>2. ~InLock(q)'
      BY <1>1, <1>2, <2>1, Zenon DEF InLock
    <2>3. Outside(q)'
      BY <1>1, <1>2, OutsideStays, Zenon DEF JInv
    <2> QED
      BY <2>2, <2>3, Zenon
  <1> QED
    BY <1>2, Zenon DEF JInv

\* Views are only forgotten by the end or the expiry of their boundary.
LEMMA RemembersStays ==
    ASSUME NEW f, Remembers(f), UNCHANGED frozen, JTypes,
           \A b \in Boundaries : attached'[b] = "live" => attached[b] = "live"
    PROVE  Remembers(f)'
  <1>1. \A x \in frozen : x[1] \in Boundaries
    BY Zenon DEF JTypes
  <1> QED
    BY <1>1, Zenon DEF Remembers

\* What a command knows inside the lock depends on its own state, on the file
\* and on what is remembered.
LEMMA InsideStays ==
    ASSUME NEW p \in Procs, Inside(p), run'[p] = run[p], lock' = lock,
           files' = files, owed' = owed, \A f : Remembers(f) => Remembers(f)'
    PROVE  Inside(p)'
  <1>1. PICK r : r = run[p]
    BY Zenon
  <1> QED
    BY <1>1, SMTT(30) DEF Inside

\* A step outside the lock: files, Views and captured candidates stay.
LEMMA QuietStep ==
    ASSUME JInv, NEW p, run' \in [Procs -> JRunning],
           \A q \in Procs : q # p => run'[q] = run[q],
           UNCHANGED <<files, drawn, frozen, owed>>,
           DOMAIN receipts' = Operations,
           attached' \in [Boundaries -> {"absent", "live", "expired", "ended"}],
           \A b \in Boundaries : /\ attached[b] = "ended" => attached'[b] = "ended"
                                 /\ attached'[b] = "live" => attached[b] = "live"
                                 /\ attached'[b] = "absent" => attached[b] = "absent"
                                 /\ Unended(b)' => Unended(b),
           lock' = lock \/ (lock = p /\ lock' = Nobody),
           shown \subseteq shown',
           p \in Procs => (InLock(p)' => Inside(p)') /\ Outside(p)'
    PROVE  JInv'
  <1>2. JTypes'
    BY Zenon DEF JInv, JTypes
  <1>3. \A x \in frozen : x[1] \in Boundaries
    BY Zenon DEF JInv, JTypes
  <1>4. \A f : Remembers(f) => Remembers(f)'
    BY RemembersStays, Zenon DEF JInv
  <1>5. JKept'
    <2>1. NoLiveView => NoLiveView'
      BY <1>3, Zenon DEF NoLiveView
    <2>2. \A x \in frozen : attached'[x[1]] # "absent"
      BY <1>3, Zenon DEF JInv, JKept
    <2>3. \A b, c \in Boundaries : Unended(b)' /\ Unended(c)' => b = c
      BY Zenon DEF JInv, JKept
    <2> QED
      BY <1>4, <2>1, <2>2, <2>3, Zenon DEF JInv, JKept
  <1>6. ASSUME NEW q \in Procs, q # p PROVE (InLock(q)' => Inside(q)') /\ Outside(q)'
    <2>1. run'[q] = run[q]
      BY <1>6, Zenon
    <2>2. Outside(q)'
      BY <2>1, OutsideStays, SMTT(30) DEF JInv
    <2>3. ASSUME InLock(q)' PROVE Inside(q)'
      <3>1. InLock(q) /\ Inside(q)
        BY <2>1, <2>3, Zenon DEF InLock, JInv
      <3>2. lock = q
        BY <3>1, Zenon DEF Inside
      <3>3. lock' = q
        BY <1>6, <3>2, Zenon
      <3> QED
        BY <1>4, <2>1, <3>1, <3>2, <3>3, InsideStays, Zenon
    <2> QED
      BY <2>2, <2>3, Zenon
  <1> QED
    BY <1>2, <1>5, <1>6, Zenon DEF JInv

Ats == JLocked \cup {"idle", "end", "show", "present", "settle"}

\* A command goes on to its next step and keeps the rest of what it knows.
LEMMA MovedRow ==
    ASSUME NEW row \in JRunning, NEW a \in Ats
    PROVE  LET r == [row EXCEPT !.at = a]
           IN /\ r \in JRunning /\ r.at = a /\ r.cmd = row.cmd /\ r.b = row.b /\ r.i = row.i
              /\ r.j = row.j /\ r.w = row.w
  BY Zenon DEF JRunning, Ats

Staging(row, f) == [row EXCEPT !.at = "stage", !.w = {f}]

LEMMA PublishRow ==
    ASSUME NEW row \in JRunning, NEW f \in JournalFile
    PROVE  LET r == Staging(row, f)
           IN /\ r \in JRunning /\ r.at = "stage" /\ r.cmd = row.cmd /\ r.b = row.b
              /\ r.i = row.i /\ r.j = row.j /\ r.w = {f}
  <1>1. {f} \in SUBSET JournalFile
    BY Zenon
  <1>2. "stage" \in JLocked \cup {"idle", "end", "show", "present", "settle"}
    BY Zenon DEF JLocked
  <1> QED
    BY <1>1, <1>2, Zenon DEF JRunning, Staging

Loaded(row, a, f) == [row EXCEPT !.at = a, !.j = {f}]

LEMMA LoadedRow ==
    ASSUME NEW row \in JRunning, NEW f \in JournalFile, NEW a \in Ats
    PROVE  LET r == Loaded(row, a, f)
           IN /\ r \in JRunning /\ r.at = a /\ r.cmd = row.cmd /\ r.b = row.b
              /\ r.i = row.i /\ r.j = {f} /\ r.w = row.w
  <1>1. {f} \in SUBSET JournalFile
    BY Zenon
  <1> QED
    BY <1>1, Zenon DEF JRunning, Ats, Loaded

LEMMA IdleRow ==
    /\ Idle \in JRunning
    /\ Idle.at = "idle" /\ Idle.cmd = "none" /\ Idle.j = {} /\ Idle.w = {}
  BY Zenon DEF Idle, JRunning

\* Rewriting one field of a journal file.
LEMMA FileFields ==
    ASSUME NEW f \in JournalFile
    PROVE  /\ f.name \in {Active} \cup Operations /\ f.b \in Boundaries
           /\ f.cur \in 0..MaxCurrentOps /\ f.cands \subseteq Handles
           /\ \A n \in 0..MaxCurrentOps :
                LET g == [f EXCEPT !.cur = n]
                IN /\ g \in JournalFile /\ g.name = f.name /\ g.b = f.b /\ g.cur = n
                   /\ g.cands = f.cands
           /\ LET g == [f EXCEPT !.seen = TRUE]
              IN /\ g \in JournalFile /\ g.name = f.name /\ g.b = f.b /\ g.cur = f.cur
                 /\ g.cands = f.cands
           /\ \A h \in Handles :
                LET g == [f EXCEPT !.cands = f.cands \cup {h}]
                IN /\ g \in JournalFile /\ g.name = f.name /\ g.b = f.b /\ g.cur = f.cur
                   /\ g.cands = f.cands \cup {h}
           /\ \A op \in Operations :
                LET g == [f EXCEPT !.name = op]
                IN /\ g \in JournalFile /\ g.name = op /\ g.b = f.b /\ g.cur = f.cur
                   /\ g.cands = f.cands
           /\ LET g == [f EXCEPT !.cur = 0, !.seen = FALSE, !.cands = {}]
              IN /\ g \in JournalFile /\ g.name = f.name /\ g.b = f.b /\ g.cur = 0
  <1> USE JournalAssumption
  <1>1. /\ f.name \in {Active} \cup Operations /\ f.b \in Boundaries
        /\ f.cur \in 0..MaxCurrentOps /\ f.cands \in SUBSET Handles
    BY Zenon DEF JournalFile
  <1>2. ASSUME NEW n \in 0..MaxCurrentOps
        PROVE  LET g == [f EXCEPT !.cur = n]
               IN /\ g \in JournalFile /\ g.name = f.name /\ g.b = f.b /\ g.cur = n
                  /\ g.cands = f.cands
    BY Zenon DEF JournalFile
  <1>3. LET g == [f EXCEPT !.seen = TRUE]
        IN /\ g \in JournalFile /\ g.name = f.name /\ g.b = f.b /\ g.cur = f.cur
           /\ g.cands = f.cands
    BY Zenon DEF JournalFile
  <1>4. ASSUME NEW h \in Handles
        PROVE  LET g == [f EXCEPT !.cands = f.cands \cup {h}]
               IN /\ g \in JournalFile /\ g.name = f.name /\ g.b = f.b /\ g.cur = f.cur
                  /\ g.cands = f.cands \cup {h}
    <2>1. f.cands \cup {h} \in SUBSET Handles
      BY <1>1, Zenon
    <2> QED
      BY <2>1, Zenon DEF JournalFile
  <1>5. ASSUME NEW op \in Operations
        PROVE  LET g == [f EXCEPT !.name = op]
               IN /\ g \in JournalFile /\ g.name = op /\ g.b = f.b /\ g.cur = f.cur
                  /\ g.cands = f.cands
    <2>1. op \in {Active} \cup Operations
      BY Zenon
    <2> QED
      BY <2>1, Zenon DEF JournalFile
  <1>6. LET g == [f EXCEPT !.cur = 0, !.seen = FALSE, !.cands = {}]
        IN /\ g \in JournalFile /\ g.name = f.name /\ g.b = f.b /\ g.cur = 0
    <2>1. 0 \in 0..MaxCurrentOps /\ {} \in SUBSET Handles
      OBVIOUS
    <2> QED
      BY <2>1, Zenon DEF JournalFile
  <1> QED
    BY <1>1, <1>2, <1>3, <1>4, <1>5, <1>6, Zenon

\* Only the active file has the name of the zero operation.
LEMMA TerminalNames ==
    /\ ~validTerminalName(Active)
    /\ \A n \in 1..MaxCurrentOps, i \in Intents :
         <<n, i>> \in Operations /\ validTerminalName(<<n, i>>)
  BY JournalAssumption DEF validTerminalName, Active, Operations

\* A command takes the lock and loads; files and authority stay as they are.
LEMMA StartInv ==
    ASSUME JInv, NEW p \in Procs, withLock(p), NEW r \in JRunning, Goes(p, r),
           UNCHANGED <<files, service, owed, shown>>, drawn' \in 0..MaxCurrentOps,
           InLock(p)' => Inside(p)', Outside(p)'
    PROVE  JInv'
  <1>1. run' \in [Procs -> JRunning]
    BY Zenon DEF Goes, JInv, JTypes
  <1>2. JTypes'
    BY <1>1, Zenon DEF JInv, JTypes, withLock, service
  <1>3. JKept'
    BY Zenon DEF JInv, JKept, Remembers, NoLiveView, Unended, service
  <1> QED
    BY <1>2, <1>3, OwnStep, Zenon DEF withLock, service

LEMMA NewRow ==
    ASSUME NEW a \in Ats, NEW c \in {"attach", "end", "current", "capture", "submit"},
           NEW b \in Boundaries, NEW i \in Intents \cup {NoIntent},
           NEW J \in SUBSET JournalFile
    PROVE  LET r == [at |-> a, cmd |-> c, b |-> b, i |-> i, j |-> J, w |-> {}]
           IN /\ r \in JRunning /\ r.at = a /\ r.cmd = c /\ r.b = b /\ r.i = i /\ r.j = J
              /\ r.w = {}
  BY Zenon DEF JRunning, Ats

\* What p is doing after Goes.
LEMMA GoesRow ==
    ASSUME JInv, NEW p \in Procs, NEW r, Goes(p, r)
    PROVE  /\ run'[p] = r
           /\ r \in JRunning => run' \in [Procs -> JRunning]
           /\ \A q \in Procs : q # p => run'[q] = run[q]
  BY Zenon DEF JInv, JTypes, Goes

LEMMA runAttachInv ==
    ASSUME JInv, NEW p \in Procs, NEW b \in Boundaries, runAttach(p, b)
    PROVE  JInv'
  <1>1. /\ withLock(p) /\ UNCHANGED <<files, drawn, service, owed, shown>>
        /\ lock' = p
    BY Zenon DEF runAttach, withLock
  <1>2. PICK a \in {"issue", "end"}, J \in SUBSET files :
          /\ Starts(p, "attach", b, NoIntent, a, J)
          /\ a = "issue" => files = {}
          /\ a = "end" => files = J /\ \A j \in J :
               retirePredecessorBoundary(j, b) \/ reconcileSameAttachBoundary(j, b)
    BY Zenon DEF runAttach, load
  <1> DEFINE r == [at |-> a, cmd |-> "attach", b |-> b, i |-> NoIntent, j |-> J, w |-> {}]
  <1>3. /\ r \in JRunning /\ r.at = a /\ r.cmd = "attach" /\ r.b = b /\ r.j = J
    <2>1. a \in Ats /\ J \in SUBSET JournalFile
      BY Zenon DEF Ats, JLocked, JInv, JTypes
    <2> QED
      BY <2>1, NewRow, Zenon
  <1>4. Goes(p, r) /\ run'[p] = r
    BY <1>2, GoesRow, Zenon DEF Starts
  <1> HIDE DEF r
  <1>5. Inside(p)'
    BY <1>1, <1>2, <1>3, <1>4, Zenon
       DEF Inside, retirePredecessorBoundary, reconcileSameAttachBoundary
  <1>6. Outside(p)'
    <2>1. \A f, g \in J : f = g
      BY Zenon DEF JInv, JKept
    <2> QED
      BY <1>2, <1>3, <1>4, <2>1, Zenon
         DEF Outside, Pending, retirePredecessorBoundary, reconcileSameAttachBoundary
  <1>7. drawn' \in 0..MaxCurrentOps
    BY <1>1, Zenon DEF JInv, JTypes
  <1> QED
    BY <1>1, <1>3, <1>4, <1>5, <1>6, <1>7, StartInv, Zenon

LEMMA runEndInv ==
    ASSUME JInv, NEW p \in Procs, NEW b \in Boundaries, runEnd(p, b)
    PROVE  JInv'
  <1>1. /\ withLock(p) /\ UNCHANGED <<files, drawn, service, owed, shown>>
        /\ lock' = p
    BY Zenon DEF runEnd, withLock
  <1>2. PICK j \in files : files = {j} /\ ~Pending(j) /\ Starts(p, "end", b, NoIntent, "end", {j})
    BY Zenon DEF runEnd, load
  <1> DEFINE r == [at |-> "end", cmd |-> "end", b |-> b, i |-> NoIntent, j |-> {j}, w |-> {}]
  <1>3. /\ r \in JRunning /\ r.at = "end" /\ r.cmd = "end" /\ r.j = {j}
    <2>1. "end" \in Ats /\ {j} \in SUBSET JournalFile
      BY Zenon DEF Ats, JInv, JTypes
    <2> QED
      BY <2>1, NewRow, Zenon
  <1>4. Goes(p, r) /\ run'[p] = r
    BY <1>2, GoesRow, Zenon DEF Starts
  <1> HIDE DEF r
  <1>5. Inside(p)' /\ Outside(p)'
    BY <1>1, <1>2, <1>3, <1>4, Zenon DEF Inside, Outside, Pending
  <1>6. drawn' \in 0..MaxCurrentOps
    BY <1>1, Zenon DEF JInv, JTypes
  <1> QED
    BY <1>1, <1>3, <1>4, <1>5, <1>6, StartInv, Zenon

\* The operation is drawn for an active file without one, so no View of the
\* live boundary exists yet.
LEMMA runCurrentInv ==
    ASSUME JInv, NEW p \in Procs, runCurrent(p)
    PROVE  JInv'
  <1> USE JournalAssumption
  <1>1. /\ withLock(p) /\ UNCHANGED <<files, service, owed, shown>>
        /\ lock' = p
    BY Zenon DEF runCurrent, withLock
  <1>2. PICK j \in files :
          /\ files = {j} /\ ~validTerminalName(j.name)
          /\ \/ /\ j.cur # 0
                /\ Starts(p, "current", j.b, NoIntent, "view", {j})
                /\ UNCHANGED drawn
             \/ /\ j.cur = 0 /\ drawn < MaxCurrentOps
                /\ drawn' = drawn + 1
                /\ Goes(p, [Idle EXCEPT !.cmd = "current", !.at = "stage", !.j = {j},
                                        !.w = {[j EXCEPT !.cur = drawn + 1]}])
    BY Zenon DEF runCurrent, load
  <1>3. j \in JournalFile /\ Remembers(j) /\ owed \subseteq j.cands
    BY SMTT(30) DEF JInv, JTypes, JKept
  <1>4. CASE /\ j.cur # 0
             /\ Starts(p, "current", j.b, NoIntent, "view", {j})
             /\ UNCHANGED drawn
    <2> DEFINE r == [at |-> "view", cmd |-> "current", b |-> j.b, i |-> NoIntent,
                     j |-> {j}, w |-> {}]
    <2>1. r \in JRunning /\ r.at = "view" /\ r.cmd = "current" /\ r.j = {j}
      <3>1. "view" \in Ats /\ {j} \in SUBSET JournalFile /\ j.b \in Boundaries
        BY <1>3, FileFields, Zenon DEF Ats, JLocked
      <3> QED
        BY <3>1, NewRow, Zenon
    <2>2. Goes(p, r) /\ run'[p] = r
      BY <1>4, GoesRow, Zenon DEF Starts
    <2> HIDE DEF r
    <2>3. Inside(p)' /\ Outside(p)'
      BY <1>1, <1>2, <1>4, <2>1, <2>2, Zenon DEF Inside, Outside
    <2>4. drawn' \in 0..MaxCurrentOps
      BY <1>4, Zenon DEF JInv, JTypes
    <2> QED
      BY <1>1, <2>1, <2>2, <2>3, <2>4, StartInv, Zenon
  <1>5. CASE /\ j.cur = 0 /\ drawn < MaxCurrentOps
             /\ drawn' = drawn + 1
             /\ Goes(p, [Idle EXCEPT !.cmd = "current", !.at = "stage", !.j = {j},
                                     !.w = {[j EXCEPT !.cur = drawn + 1]}])
    <2> DEFINE n == drawn + 1
               w == [j EXCEPT !.cur = n]
               r == [Idle EXCEPT !.cmd = "current", !.at = "stage", !.j = {j}, !.w = {w}]
    <2>1. n \in 1..MaxCurrentOps /\ drawn' \in 0..MaxCurrentOps
      BY <1>5 DEF JInv, JTypes
    <2>2. /\ w \in JournalFile /\ w.name = j.name /\ w.b = j.b /\ w.cur = n
          /\ w.cands = j.cands
      <3>1. n \in 0..MaxCurrentOps
        BY <2>1
      <3> HIDE DEF n
      <3> QED
        BY <1>3, <3>1, FileFields, Zenon
    <2>3. Goes(p, r) /\ run'[p] = r
      BY <1>5, GoesRow, Zenon
    <2> HIDE DEF w, n
    <2>4. r \in JRunning /\ r.at = "stage" /\ r.cmd = "current" /\ r.j = {j} /\ r.w = {w}
      BY <1>3, <2>2, Zenon DEF Idle, JRunning, JLocked
    <2> HIDE DEF r
    <2>5. NoLiveView
      <3>1. \A x \in frozen : x[2] # 0
        BY DEF JInv, JTypes
      <3> QED
        BY <1>2, <1>3, <1>5, <3>1, Zenon DEF Remembers, NoLiveView
    <2>6. \A g : Remembers(g)'
      BY <1>1, <2>5, Zenon DEF NoLiveView, Remembers, service
    <2>7. Inside(p)'
      BY <1>1, <1>2, <1>3, <2>1, <2>2, <2>3, <2>4, <2>6 DEF Inside
    <2>8. Outside(p)'
      BY <2>3, <2>4, Zenon DEF Outside
    <2> QED
      BY <1>1, <2>1, <2>3, <2>4, <2>7, <2>8, StartInv, Zenon
  <1> QED
    BY <1>2, <1>4, <1>5, Zenon

LEMMA runCaptureInv ==
    ASSUME JInv, NEW p \in Procs, runCapture(p)
    PROVE  JInv'
  <1>1. /\ withLock(p) /\ UNCHANGED <<files, drawn, service, owed, shown>>
        /\ lock' = p
    BY Zenon DEF runCapture, withLock
  <1>2. PICK j \in files : files = {j} /\ ~validTerminalName(j.name)
                           /\ Starts(p, "capture", j.b, NoIntent, "store", {j})
    BY Zenon DEF runCapture, load
  <1> DEFINE r == [at |-> "store", cmd |-> "capture", b |-> j.b, i |-> NoIntent,
                   j |-> {j}, w |-> {}]
  <1>3. /\ r \in JRunning /\ r.at = "store" /\ r.cmd = "capture" /\ r.j = {j}
    <2>1. "store" \in Ats /\ {j} \in SUBSET JournalFile /\ j.b \in Boundaries
      BY FileFields, Zenon DEF Ats, JLocked, JInv, JTypes
    <2> QED
      BY <2>1, NewRow, Zenon
  <1>4. Goes(p, r) /\ run'[p] = r
    BY <1>2, GoesRow, Zenon DEF Starts
  <1> HIDE DEF r
  <1>5. Inside(p)' /\ Outside(p)'
    BY <1>1, <1>2, <1>3, <1>4, Zenon DEF Inside, Outside
  <1>6. drawn' \in 0..MaxCurrentOps
    BY <1>1, Zenon DEF JInv, JTypes
  <1> QED
    BY <1>1, <1>3, <1>4, <1>5, <1>6, StartInv, Zenon

LEMMA runSubmitInv ==
    ASSUME JInv, NEW p \in Procs, NEW i \in Intents, runSubmit(p, i)
    PROVE  JInv'
  <1>1. /\ withLock(p) /\ UNCHANGED <<files, drawn, service, owed, shown>>
        /\ lock' = p
    BY Zenon DEF runSubmit, withLock
  <1>2. PICK j \in files : files = {j} /\ j.cur # 0 /\ Starts(p, "submit", j.b, i, "admit", {j})
    BY Zenon DEF runSubmit, load
  <1> DEFINE r == [at |-> "admit", cmd |-> "submit", b |-> j.b, i |-> i, j |-> {j}, w |-> {}]
  <1>3. /\ r \in JRunning /\ r.at = "admit" /\ r.cmd = "submit" /\ r.j = {j} /\ r.i = i
    <2>1. "admit" \in Ats /\ {j} \in SUBSET JournalFile /\ j.b \in Boundaries
      BY FileFields, Zenon DEF Ats, JLocked, JInv, JTypes
    <2> QED
      BY <2>1, NewRow, Zenon
  <1>4. Goes(p, r) /\ run'[p] = r
    BY <1>2, GoesRow, Zenon DEF Starts
  <1> HIDE DEF r
  <1>5. Inside(p)' /\ Outside(p)'
    BY <1>1, <1>2, <1>3, <1>4, Zenon DEF Inside, Outside
  <1>6. drawn' \in 0..MaxCurrentOps
    BY <1>1, Zenon DEF JInv, JTypes
  <1> QED
    BY <1>1, <1>3, <1>4, <1>5, <1>6, StartInv, Zenon

LEMMA StagesInv ==
    ASSUME JInv, NEW p \in Procs, Stages(p)
    PROVE  JInv'
  <1> DEFINE r == [run[p] EXCEPT !.at = "rename"]
  <1>1. /\ run[p] \in JRunning /\ run[p].at = "stage"
        /\ UNCHANGED <<files, lock, drawn, service, owed, shown>>
    BY Zenon DEF Stages, JInv, JTypes
  <1>2. /\ r \in JRunning /\ r.at = "rename" /\ r.cmd = run[p].cmd /\ r.b = run[p].b
        /\ r.i = run[p].i /\ r.j = run[p].j /\ r.w = run[p].w
    <2>1. "rename" \in Ats
      BY Zenon DEF Ats, JLocked
    <2> QED
      BY <1>1, <2>1, MovedRow, Zenon
  <1>3. /\ run'[p] = r /\ run' \in [Procs -> JRunning]
        /\ \A q \in Procs : q # p => run'[q] = run[q]
    BY <1>2, GoesRow, SMTT(30) DEF Stages
  <1> HIDE DEF r
  <1>4. InLock(p) /\ Inside(p) /\ Outside(p)
    BY <1>1, Zenon DEF InLock, JLocked, JInv
  <1>5. \A g : Remembers(g)' <=> Remembers(g)
    BY <1>1, Zenon DEF Remembers, service
  <1>6. Inside(p)'
    <2>1. /\ lock' = p /\ files' = files /\ owed' = owed
          /\ run'[p].at = "rename" /\ run'[p].cmd = run[p].cmd
          /\ run'[p].j = run[p].j /\ run'[p].w = run[p].w
      BY <1>1, <1>2, <1>3, <1>4, Zenon DEF Inside
    <2>2. \A w \in run[p].w :
            /\ Remembers(w)'
            /\ run[p].cmd = "finish" => w.cur = 0 /\ files \subseteq run[p].j
            /\ run[p].cmd # "finish" =>
                 owed \subseteq w.cands /\ \A f \in files : ~validTerminalName(f.name)
            /\ run[p].cmd = "current" => w.cur # 0 /\ ~validTerminalName(w.name)
            /\ \A f \in files : f.name = w.name
      BY <1>1, <1>4, <1>5, Zenon DEF Inside
    <2> QED
      BY <2>1, <2>2, SMTT(30) DEF Inside
  <1>7. Outside(p)'
    BY <1>1, <1>2, <1>3, <1>4, Zenon DEF Outside
  <1> QED
    BY <1>1, <1>2, <1>3, <1>6, <1>7, QuietStep, Zenon DEF service, JInv, JTypes, Unended

LEMMA StopsInv ==
    ASSUME JInv, NEW p \in Procs, Stops(p)
    PROVE  JInv'
  <1>1. /\ run'[p] = Idle /\ run' \in [Procs -> JRunning]
        /\ \A q \in Procs : q # p => run'[q] = run[q]
        /\ lock' = lock \/ (lock = p /\ lock' = Nobody)
        /\ UNCHANGED <<files, drawn, service, owed, shown>>
    BY GoesRow, IdleRow, Zenon DEF Stops
  <1>2. ~InLock(p)' /\ Outside(p)'
    BY <1>1, IdleRow, Zenon DEF InLock, JLocked, Outside
  <1> QED
    BY <1>1, <1>2, QuietStep, Zenon DEF service, JInv, JTypes, Unended

LEMMA ShowsInv ==
    ASSUME JInv, NEW p \in Procs, Shows(p)
    PROVE  JInv'
  <1>1. PICK j \in run[p].j :
          /\ run[p].at = "show"
          /\ shown' = shown \cup {j.name}
          /\ Goes(p, [run[p] EXCEPT !.at = "present"])
          /\ UNCHANGED <<files, stage, lock, drawn, service, owed>>
    BY Zenon DEF Shows
  <1> DEFINE r == [run[p] EXCEPT !.at = "present"]
  <1>2. r \in JRunning /\ r.at = "present" /\ r.cmd = run[p].cmd /\ r.j = run[p].j
    <2>1. "present" \in Ats /\ run[p] \in JRunning
      BY Zenon DEF Ats, JInv, JTypes
    <2> QED
      BY <2>1, MovedRow, Zenon
  <1>3. /\ run'[p] = r /\ run' \in [Procs -> JRunning]
        /\ \A q \in Procs : q # p => run'[q] = run[q]
    BY <1>1, <1>2, GoesRow, Zenon
  <1> HIDE DEF r
  <1>4. ~InLock(p)'
    BY <1>2, <1>3, Zenon DEF InLock, JLocked
  <1>5. Outside(p)'
    BY <1>1, <1>2, <1>3 DEF JInv, Outside
  <1> QED
    BY <1>1, <1>3, <1>4, <1>5, QuietStep, Zenon DEF service, JInv, JTypes, Unended

LEMMA ExpiresInv ==
    ASSUME JInv, NEW b \in Boundaries, Expires(b)
    PROVE  JInv'
  <1>1. /\ UNCHANGED <<files, lock, run, drawn, frozen, receipts, owed, shown>>
        /\ \A c \in Boundaries : attached'[c] = IF c = b THEN "expired" ELSE attached[c]
        /\ attached' \in [Boundaries -> {"absent", "live", "expired", "ended"}]
        /\ attached[b] = "live"
    BY Zenon DEF Expires, JInv, JTypes
  <1> QED
    BY <1>1, QuietStep, JournalAssumption, Zenon DEF JInv, JTypes, Unended

\* While p holds the lock and the boundaries stay as they are.
LEMMA KeptInLock ==
    ASSUME JInv, NEW p \in Procs, InLock(p)
    PROVE  /\ Inside(p) /\ Outside(p) /\ lock = p
           /\ run[p] \in JRunning
           /\ run[p].j \subseteq JournalFile /\ run[p].w \subseteq JournalFile
           /\ \A f, g \in files : f = g
           /\ \A f \in files : f \in JournalFile /\ Remembers(f) /\ owed \subseteq f.cands
           /\ files = {} => NoLiveView /\ owed = {}
  BY Zenon DEF JInv, Inside, JTypes, JRunning, JKept

\* publishJournal replaces the one file there is, or writes the first.
LEMMA RenamesInv ==
    ASSUME JInv, NEW p \in Procs, Renames(p)
    PROVE  JInv'
  <1>1. PICK w \in run[p].w :
          /\ run[p].at = "rename"
          /\ files' = {f \in files : f.name # w.name} \cup {w}
          /\ CASE run[p].cmd = "current" /\ ~w.seen ->
                    Goes(p, Loaded(run[p], "view", w)) /\ UNCHANGED lock
               [] Consumed(p) ->
                    Goes(p, Loaded(run[p], "end", w)) /\ Unlocks(p)
               [] OTHER -> Done(p)
          /\ owed' = IF Consumed(p) THEN {} ELSE IF run[p].cmd = "capture" THEN w.cands ELSE owed
          /\ UNCHANGED <<drawn, service, shown>>
    BY Zenon DEF Renames, Loaded
  <1>2. InLock(p)
    BY <1>1, Zenon DEF InLock, JLocked
  <1>3. /\ Inside(p) /\ Outside(p) /\ lock = p /\ run[p] \in JRunning /\ w \in JournalFile
        /\ \A f \in files : f.name = w.name
    BY <1>1, <1>2, KeptInLock, Zenon DEF Inside
  <1>4. files' = {w}
    BY <1>1, <1>3, Zenon
  <1>5. owed' \subseteq w.cands
    BY <1>1, <1>3, Zenon DEF Inside, Consumed
  <1>6. Remembers(w) /\ Remembers(w)'
    <2>1. Remembers(w)
      BY <1>1, <1>3, Zenon DEF Inside
    <2>2. \A g : Remembers(g) => Remembers(g)'
      BY <1>1, Zenon DEF Remembers, service
    <2> QED
      BY <2>1, <2>2, Zenon
  <1>7. JKept'
    BY <1>1, <1>4, <1>5, <1>6, Zenon DEF JInv, JKept, service, Unended
  <1>8. PICK r \in JRunning :
          /\ Goes(p, r)
          /\ \/ /\ r.at = "view" /\ r.cmd = "current" /\ r.j = {w} /\ lock' = lock
                /\ run[p].cmd = "current"
             \/ /\ r.at = "end" /\ r.cmd = "finish" /\ r.j = {w} /\ lock' = Nobody
                /\ run[p].cmd = "finish"
             \/ r = Idle /\ lock' = Nobody
    <2>1. "view" \in Ats /\ "end" \in Ats
      BY Zenon DEF Ats, JLocked
    <2>2. CASE run[p].cmd = "current" /\ ~w.seen
      <3> DEFINE r == Loaded(run[p], "view", w)
      <3>1. Goes(p, r) /\ UNCHANGED lock
        BY <1>1, <2>2, Zenon DEF Consumed
      <3>2. r \in JRunning /\ r.at = "view" /\ r.cmd = "current" /\ r.j = {w}
        BY <1>3, <2>1, <2>2, LoadedRow
      <3> HIDE DEF r
      <3> QED
        BY <2>2, <3>1, <3>2, Zenon
    <2>3. CASE Consumed(p)
      <3> DEFINE r == Loaded(run[p], "end", w)
      <3>1. Goes(p, r) /\ lock' = Nobody
        BY <1>1, <2>3, Zenon DEF Consumed, Unlocks
      <3>2. r \in JRunning /\ r.at = "end" /\ r.cmd = "finish" /\ r.j = {w}
        BY <1>3, <2>1, <2>3, LoadedRow DEF Consumed
      <3> HIDE DEF r
      <3> QED
        BY <2>3, <3>1, <3>2, Zenon DEF Consumed
    <2>4. CASE ~(run[p].cmd = "current" /\ ~w.seen) /\ ~Consumed(p)
      <3>1. Done(p)
        BY <1>1, <2>4, Zenon
      <3> QED
        BY <3>1, IdleRow, Zenon DEF Done, Unlocks
    <2> QED
      BY <2>2, <2>3, <2>4, Zenon
  <1>9. run'[p] = r /\ run' \in [Procs -> JRunning]
    BY <1>8, GoesRow, Zenon
  <1>10. JTypes'
    BY <1>1, <1>3, <1>4, <1>8, <1>9, Zenon DEF JInv, JTypes, service
  <1>11. InLock(p)' => Inside(p)'
    BY <1>1, <1>3, <1>4, <1>8, <1>9, IdleRow DEF InLock, JLocked, Inside
  <1>12. Outside(p)'
    BY <1>1, <1>3, <1>8, <1>9, IdleRow DEF Outside, Pending, Inside
  <1> QED
    BY <1>1, <1>3, <1>7, <1>8, <1>10, <1>11, <1>12, OwnStep, Zenon DEF service

\* A file is removed only once its boundary has ended.
LEMMA RemovesInv ==
    ASSUME JInv, NEW p \in Procs, Removes(p)
    PROVE  JInv'
  <1>1. PICK j \in run[p].j :
          /\ run[p].at = "remove" /\ files = {j}
          /\ files' = {} /\ owed' = {}
          /\ IF run[p].cmd = "attach" /\ run[p].b # j.b
             THEN Goes(p, [run[p] EXCEPT !.at = "issue"]) /\ UNCHANGED lock
             ELSE Done(p)
          /\ UNCHANGED <<stage, drawn, service, shown>>
    BY Zenon DEF Removes, load
  <1>2. InLock(p)
    BY <1>1, Zenon DEF InLock, JLocked
  <1>3. Inside(p) /\ Outside(p) /\ lock = p /\ run[p] \in JRunning /\ Remembers(j)
    BY <1>1, <1>2, KeptInLock, Zenon
  <1>4. NoLiveView
    BY <1>1, <1>3, Zenon DEF Outside, Remembers, NoLiveView
  <1>5. JKept'
    BY <1>1, <1>4, Zenon DEF JInv, JKept, NoLiveView, service, Unended
  <1>6. PICK r \in JRunning :
          /\ Goes(p, r)
          /\ \/ /\ r.at = "issue" /\ r.cmd = "attach" /\ r.b = run[p].b /\ r.j = run[p].j
                /\ lock' = lock /\ run[p].cmd = "attach"
             \/ r = Idle /\ lock' = Nobody
    <2>1. CASE run[p].cmd = "attach" /\ run[p].b # j.b
      <3> DEFINE r == [run[p] EXCEPT !.at = "issue"]
      <3>1. Goes(p, r) /\ UNCHANGED lock
        BY <1>1, <2>1, Zenon
      <3>2. "issue" \in Ats
        BY Zenon DEF Ats, JLocked
      <3>3. /\ r \in JRunning /\ r.at = "issue" /\ r.cmd = "attach" /\ r.b = run[p].b
            /\ r.j = run[p].j
        BY <1>3, <2>1, <3>2, MovedRow, Zenon
      <3> HIDE DEF r
      <3> QED
        BY <2>1, <3>1, <3>3, Zenon
    <2>2. CASE ~(run[p].cmd = "attach" /\ run[p].b # j.b)
      BY <1>1, <2>2, IdleRow, Zenon DEF Done, Unlocks
    <2> QED
      BY <2>1, <2>2, Zenon
  <1>7. run'[p] = r /\ run' \in [Procs -> JRunning]
    BY <1>6, GoesRow, Zenon
  <1>8. JTypes'
    BY <1>1, <1>6, <1>7, Zenon DEF JInv, JTypes, service
  <1>9. InLock(p)' => Inside(p)'
    BY <1>1, <1>3, <1>6, <1>7, IdleRow, Zenon DEF InLock, JLocked, Inside
  <1>10. Outside(p)'
    BY <1>1, <1>3, <1>6, <1>7, IdleRow, Zenon DEF Outside
  <1> QED
    BY <1>1, <1>3, <1>5, <1>6, <1>8, <1>9, <1>10, OwnStep, Zenon DEF service

\* A boundary is issued when no View of a live boundary is left: a fresh one
\* ends the others, and a replayed one is not the one the file belongs to.
LEMMA IssuesInv ==
    ASSUME JInv, NEW p \in Procs, Issues(p)
    PROVE  JInv'
  <1> DEFINE b == run[p].b
             w == newClientJournal(b, Preserved(run[p].j))
  <1>1. /\ run[p].at = "issue" /\ attach(b)
        /\ attached'[b] = "live" => Publishes(p, w) /\ UNCHANGED lock
        /\ attached'[b] # "live" => Done(p)
        /\ UNCHANGED <<files, stage, drawn, frozen, receipts, given, owed, shown>>
    BY SMTT(30) DEF Issues
  <1>2. InLock(p)
    BY <1>1, Zenon DEF InLock, JLocked
  <1>3. /\ Inside(p) /\ Outside(p) /\ lock = p /\ run[p] \in JRunning
        /\ run[p].j \subseteq JournalFile
        /\ \A f, g \in files : f = g
        /\ \A f \in files : f \in JournalFile /\ Remembers(f) /\ owed \subseteq f.cands
        /\ files = {} => NoLiveView /\ owed = {}
    BY <1>2, KeptInLock, SMTT(30)
  <1>4. /\ files \subseteq run[p].j /\ b \in Boundaries /\ run[p].cmd = "attach"
        /\ \A f \in files : f.b # b /\ ~validTerminalName(f.name)
    BY <1>1, <1>3, Zenon DEF Inside
  <1>5. /\ w \in JournalFile /\ w.name = Active /\ owed \subseteq w.cands
    <2>1. Preserved(run[p].j) \subseteq Handles
      <3>1. \A f \in run[p].j : f.cands \subseteq Handles
        BY <1>3, FileFields, Zenon
      <3> QED
        BY <3>1, Zenon DEF Preserved
    <2>2. owed \subseteq Preserved(run[p].j)
      <3>1. \A f \in files : f \in run[p].j /\ ~validTerminalName(f.name) /\ owed \subseteq f.cands
        BY <1>3, <1>4, Zenon
      <3>2. files = {} => owed = {}
        BY <1>3, Zenon
      <3> QED
        BY <3>1, <3>2, SMTT(30) DEF Preserved
    <2> QED
      BY <1>4, <2>1, <2>2, JournalAssumption DEF newClientJournal, JournalFile
  <1> HIDE DEF w
  <1>6. \A x \in frozen : x[1] \in Boundaries /\ attached[x[1]] # "absent"
    BY Zenon DEF JInv, JTypes, JKept
  <1>7. /\ attached' \in [Boundaries -> {"absent", "live", "expired", "ended"}]
        /\ \A c \in Boundaries : /\ attached[c] = "ended" => attached'[c] = "ended"
                                 /\ attached'[c] = "absent" => attached[c] = "absent"
        /\ \A c, d \in Boundaries : Unended(c)' /\ Unended(d)' => c = d
    BY <1>1, <1>4 DEF attach, JInv, JTypes, JKept, Unended
  <1>8. attached'[b] = "live" => NoLiveView'
    <2>1. CASE attached[b] = "absent"
      BY <1>1, <1>4, <1>6, <2>1, Zenon DEF attach, NoLiveView, JInv, JTypes, Unended
    <2>2. CASE attached[b] # "absent"
      <3>1. attached' = attached
        BY <1>1, <2>2, Zenon DEF attach
      <3>2. ASSUME attached[b] = "live", NEW x \in frozen, attached[x[1]] = "live" PROVE FALSE
        <4>1. x[1] = b
          BY <1>4, <1>6, <3>2, Zenon DEF JInv, JKept, Unended
        <4>2. PICK f \in files : TRUE
          BY <1>3, <3>2, Zenon DEF NoLiveView
        <4> QED
          BY <1>3, <1>4, <3>2, <4>1, <4>2, Zenon DEF Remembers
      <3> QED
        BY <1>1, <3>1, <3>2, Zenon DEF NoLiveView
    <2> QED
      BY <2>1, <2>2, SMTT(30)
  <1>9. NoLiveView' => \A g : Remembers(g)'
    BY Zenon DEF NoLiveView, Remembers
  <1>10. attached'[b] # "live" => attached' = attached
    BY <1>1, <1>4, SMTT(30) DEF attach
  <1>11. JKept'
    <2>1. (files = {} => NoLiveView') /\ \A f \in files : Remembers(f)'
      <3>1. CASE attached'[b] = "live"
        BY <1>8, <1>9, <3>1, Zenon
      <3>2. CASE attached' = attached
        <4>1. frozen' = frozen
          BY <1>1, Zenon
        <4>2. /\ NoLiveView => NoLiveView'
              /\ \A g : Remembers(g) => Remembers(g)'
          BY <3>2, <4>1, Zenon DEF NoLiveView, Remembers
        <4> QED
          BY <1>3, <4>2, Zenon
      <3> QED
        BY <1>10, <3>1, <3>2, Zenon
    <2> QED
      BY <1>1, <1>6, <1>7, <2>1, Zenon DEF JInv, JKept
  <1>12. CASE attached'[b] = "live"
    <2> DEFINE r == Staging(run[p], w)
    <2>1. Goes(p, r) /\ run'[p] = r /\ lock' = lock
      <3>1. Goes(p, r) /\ lock' = lock
        BY <1>1, <1>12, Zenon DEF Publishes, Staging
      <3> QED
        BY <3>1, GoesRow, Zenon
    <2>2. /\ r \in JRunning /\ r.at = "stage" /\ r.cmd = "attach" /\ r.b = b
          /\ r.j = run[p].j /\ r.w = {w}
      BY <1>3, <1>4, <1>5, PublishRow, Zenon
    <2> HIDE DEF r
    <2>3. JTypes'
      BY <1>1, <1>7, <2>1, <2>2, GoesRow, Zenon DEF JInv, JTypes
    <2>4. Inside(p)'
      <3>1. \A g : Remembers(g)'
        BY <1>8, <1>9, <1>12, Zenon
      <3>2. lock' = p /\ files' = files /\ owed' = owed
        BY <1>1, <1>3, <2>1, Zenon
      <3>3. \A f \in files : f.name = Active
        BY <1>3, <1>4, FileFields, Zenon DEF validTerminalName
      <3> QED
        BY <1>4, <1>5, <2>1, <2>2, <3>1, <3>2, <3>3, Zenon DEF Inside
    <2>5. Outside(p)'
      BY <1>3, <2>1, <2>2, Zenon DEF Outside
    <2> QED
      BY <1>1, <1>3, <1>7, <1>11, <2>1, <2>2, <2>3, <2>4, <2>5, OwnStep, Zenon
  <1>13. CASE attached'[b] # "live"
    <2>1. Goes(p, Idle) /\ lock' = Nobody /\ run'[p] = Idle
      <3>1. Goes(p, Idle) /\ lock' = Nobody
        BY <1>1, <1>13, Zenon DEF Done, Unlocks
      <3> QED
        BY <3>1, GoesRow, Zenon
    <2>2. JTypes'
      BY <1>1, <1>7, <2>1, GoesRow, IdleRow, Zenon DEF JInv, JTypes
    <2>3. ~InLock(p)' /\ Outside(p)'
      BY <2>1, IdleRow, Zenon DEF InLock, JLocked, Outside
    <2> QED
      BY <1>1, <1>3, <1>7, <1>11, <2>1, <2>2, <2>3, IdleRow, OwnStep, Zenon
  <1> QED
    BY <1>12, <1>13, Zenon

\* The boundary of the loaded file ends, with the lock or without it.
LEMMA EndsInv ==
    ASSUME JInv, NEW p \in Procs, Ends(p)
    PROVE  JInv'
  <1>1. PICK j \in run[p].j, a \in {"settle", "issue", "remove"} :
          /\ run[p].at = "end" /\ endAttachment(j.b)
          /\ Goes(p, [run[p] EXCEPT !.at = a])
          /\ a = "settle" <=> run[p].cmd = "finish"
          /\ a = "issue" => run[p].cmd = "attach" /\ ~validTerminalName(j.name)
          /\ UNCHANGED <<files, stage, lock, drawn, frozen, receipts, given, owed, shown>>
    BY Zenon DEF Ends
  <1> DEFINE r == [run[p] EXCEPT !.at = a]
  <1>2. /\ r \in JRunning /\ r.at = a /\ r.cmd = run[p].cmd /\ r.b = run[p].b
        /\ r.j = run[p].j
    <2>1. a \in Ats /\ run[p] \in JRunning
      BY Zenon DEF Ats, JLocked, JInv, JTypes
    <2> QED
      BY <2>1, MovedRow, SMTT(30)
  <1>3. /\ run'[p] = r /\ run' \in [Procs -> JRunning]
        /\ \A q \in Procs : q # p => run'[q] = run[q]
    BY <1>1, <1>2, GoesRow, Zenon
  <1> HIDE DEF r
  <1>4. Outside(p) /\ (run[p].cmd # "finish" => Inside(p))
    BY <1>1, Zenon DEF JInv, InLock
  <1>5. j.b \in Boundaries
    <2>1. run[p] \in JRunning
      BY Zenon DEF JInv, JTypes
    <2>2. j \in JournalFile
      BY <2>1, Zenon DEF JRunning
    <2> QED
      BY <2>2, Zenon DEF JournalFile
  <1>6. /\ attached' \in [Boundaries -> {"absent", "live", "expired", "ended"}]
        /\ \A c \in Boundaries : attached'[c] = IF c = j.b THEN "ended" ELSE attached[c]
    BY <1>1, <1>5, Zenon DEF endAttachment, JInv, JTypes
  <1>7. InLock(p)' => Inside(p)'
    <2>1. CASE a = "settle"
      BY <1>1, <1>2, <1>3, <2>1, Zenon DEF InLock, JLocked
    <2>2. CASE a # "settle"
      <3>1. Inside(p)
        BY <1>1, <1>4, <2>2, Zenon
      <3>2. \A f \in run[p].j : f = j
        BY <1>4, Zenon DEF Outside
      <3> QED
        BY <1>1, <1>2, <1>3, <2>2, <3>1, <3>2, Zenon DEF Inside
    <2> QED
      BY <2>1, <2>2, Zenon
  <1>8. Outside(p)'
    <2>1. \A f \in run[p].j : f = j
      BY <1>4, Zenon DEF Outside
    <2> QED
      BY <1>1, <1>2, <1>3, <1>4, <1>5, <1>6, <2>1, Zenon DEF Outside, Pending
  <1> QED
    BY <1>1, <1>3, <1>6, <1>7, <1>8, QuietStep, Zenon DEF Unended, JInv, JTypes

\* The View a command asks for is the one its journal names, so a boundary
\* has one.
LEMMA ViewsInv ==
    ASSUME JInv, NEW p \in Procs, Views(p)
    PROVE  JInv'
  <1>1. PICK j \in run[p].j :
          /\ run[p].at = "view" /\ handleCurrent(j.b, j.cur)
          /\ frozen' = frozen \cup {<<j.b, j.cur>>}
          /\ Publishes(p, [j EXCEPT !.seen = TRUE])
          /\ UNCHANGED <<files, stage, lock, drawn, attached, receipts, given, owed, shown>>
    BY Zenon DEF Views, current
  <1> DEFINE w == [j EXCEPT !.seen = TRUE]
  <1>2. InLock(p)
    BY <1>1, Zenon DEF InLock, JLocked
  <1>3. /\ Inside(p) /\ Outside(p) /\ lock = p /\ run[p] \in JRunning
        /\ j \in JournalFile /\ files = {j} /\ Remembers(j) /\ owed \subseteq j.cands
    <2>1. Inside(p) /\ Outside(p) /\ files = run[p].j
      BY <1>1, <1>2, KeptInLock, Zenon DEF Inside
    <2> QED
      BY <1>2, <2>1, KeptInLock, Zenon DEF Outside
  <1>4. run[p].cmd = "current" /\ ~validTerminalName(j.name) /\ j.cur # 0
    BY <1>1, <1>3, Zenon DEF Inside
  <1>5. /\ w \in JournalFile /\ w.name = j.name /\ w.b = j.b /\ w.cur = j.cur
        /\ w.cands = j.cands
    BY <1>3, FileFields, Zenon
  <1>6. j.b \in Boundaries /\ j.cur \in 1..MaxCurrentOps
    <2>1. j.b \in Boundaries /\ j.cur \in 0..MaxCurrentOps
      BY <1>3, Zenon DEF JournalFile
    <2>2. j.cur # 0
      BY <1>4, Zenon
    <2> QED
      BY <2>1, <2>2, JournalAssumption
  <1>7. Publishes(p, w)
    BY <1>1, SMTT(30)
  <1> HIDE DEF w
  <1> DEFINE r == Staging(run[p], w)
  <1>8. /\ r \in JRunning /\ r.at = "stage" /\ r.cmd = "current" /\ r.b = run[p].b
        /\ r.j = run[p].j /\ r.w = {w}
    BY <1>3, <1>4, <1>5, PublishRow, Zenon
  <1>9. Goes(p, r)
    BY <1>7, Zenon DEF Publishes, Staging
  <1> HIDE DEF r
  <1>10. run'[p] = r /\ run' \in [Procs -> JRunning]
    BY <1>8, <1>9, GoesRow, Zenon
  <1>11. JTypes'
    BY <1>1, <1>6, <1>10 DEF JInv, JTypes
  <1>12. \A g : g.b = j.b /\ g.cur = j.cur /\ g.name = j.name => Remembers(g)'
    BY <1>1, <1>3 DEF Remembers
  <1>13. \A x \in frozen : x[1] = j.b => x = <<j.b, j.cur>>
    <2> SUFFICES ASSUME NEW x \in frozen, x[1] = j.b PROVE x = <<j.b, j.cur>>
      BY Zenon
    <2>1. x = <<x[1], x[2]>>
      BY DEF JInv, JTypes
    <2>2. CASE <<j.b, j.cur>> \in frozen
      BY <2>2, Zenon DEF JInv, JKept
    <2>3. CASE attached[j.b] = "live"
      BY <1>3, <1>4, <2>1, <2>3, Zenon DEF Remembers
    <2> QED
      BY <1>1, <2>2, <2>3, Zenon DEF handleCurrent
  <1>14. \A x \in frozen : attached[x[1]] # "absent"
    BY Zenon DEF JInv, JKept
  <1>15. attached[j.b] # "absent"
    BY <1>1, <1>14, Zenon DEF handleCurrent
  <1>16. JKept'
    <2>1. \A x, y \in frozen' : x[1] = y[1] => x = y
      BY <1>1, <1>13 DEF JInv, JKept
    <2>2. \A x \in frozen' : attached'[x[1]] # "absent"
      BY <1>1, <1>14, <1>15
    <2>3. \A f \in files' : Remembers(f)' /\ owed' \subseteq f.cands
      BY <1>1, <1>3, <1>12, Zenon
    <2> QED
      BY <1>1, <1>3, <2>1, <2>2, <2>3, Zenon DEF JInv, JKept, Unended
  <1>17. Inside(p)'
    <2>1. Remembers(w)'
      BY <1>5, <1>12, Zenon
    <2> QED
      BY <1>1, <1>3, <1>4, <1>5, <1>8, <1>10, <2>1 DEF Inside
  <1>18. Outside(p)'
    BY <1>3, <1>8, <1>10, Zenon DEF Outside
  <1> QED
    BY <1>1, <1>3, <1>8, <1>9, <1>11, <1>16, <1>17, <1>18, OwnStep, Zenon

\* What a captured candidate is added to is the file that was loaded.
LEMMA StoresInv ==
    ASSUME JInv, NEW p \in Procs, NEW h \in Handles, Stores(p, h)
    PROVE  JInv'
  <1>1. PICK j \in run[p].j :
          /\ run[p].at = "store"
          /\ IF Cardinality(j.cands) < MaxArtifactInputs
             THEN Publishes(p, [j EXCEPT !.cands = j.cands \cup {h}]) /\ UNCHANGED lock
             ELSE Done(p)
          /\ UNCHANGED <<files, stage, drawn, attached, frozen, receipts, owed, shown>>
    BY Zenon DEF Stores, addCandidate
  <1> DEFINE w == [j EXCEPT !.cands = j.cands \cup {h}]
  <1>2. InLock(p)
    BY <1>1, Zenon DEF InLock, JLocked
  <1>3. /\ Inside(p) /\ Outside(p) /\ lock = p /\ run[p] \in JRunning
        /\ j \in JournalFile /\ files = {j} /\ Remembers(j) /\ owed \subseteq j.cands
    <2>1. Inside(p) /\ Outside(p) /\ files = run[p].j
      BY <1>1, <1>2, KeptInLock, Zenon DEF Inside
    <2> QED
      BY <1>2, <2>1, KeptInLock, Zenon DEF Outside
  <1>4. run[p].cmd = "capture" /\ ~validTerminalName(j.name)
    BY <1>1, <1>3, Zenon DEF Inside
  <1>5. /\ w \in JournalFile /\ w.name = j.name /\ w.b = j.b /\ w.cur = j.cur
        /\ w.cands = j.cands \cup {h}
    BY <1>3, FileFields, Zenon
  <1>6. \/ Publishes(p, w) /\ lock' = lock
        \/ Done(p)
    BY <1>1, Zenon
  <1> HIDE DEF w
  <1>7. CASE Publishes(p, w) /\ lock' = lock
    <2> DEFINE r == Staging(run[p], w)
    <2>1. /\ r \in JRunning /\ r.at = "stage" /\ r.cmd = "capture" /\ r.b = run[p].b
          /\ r.j = run[p].j /\ r.w = {w}
      BY <1>3, <1>4, <1>5, PublishRow, Zenon
    <2>2. Goes(p, r)
      BY <1>7, Zenon DEF Publishes, Staging
    <2> HIDE DEF r
    <2>3. /\ run'[p] = r /\ run' \in [Procs -> JRunning]
          /\ \A q \in Procs : q # p => run'[q] = run[q]
      BY <2>1, <2>2, GoesRow, Zenon
    <2>4. Remembers(w)'
      <3>1. \A g : g.b = j.b /\ g.cur = j.cur /\ g.name = j.name => Remembers(g)'
        BY <1>1, <1>3, Zenon DEF Remembers
      <3> QED
        BY <1>5, <3>1, Zenon
    <2>5. Inside(p)'
      BY <1>1, <1>3, <1>4, <1>5, <1>7, <2>1, <2>3, <2>4 DEF Inside
    <2>6. Outside(p)'
      BY <1>3, <2>1, <2>3, Zenon DEF Outside
    <2> QED
      BY <1>1, <1>7, <2>3, <2>5, <2>6, QuietStep, SMTT(30) DEF JInv, JTypes, Unended
  <1>8. CASE Done(p)
    <2>1. /\ run'[p] = Idle /\ run' \in [Procs -> JRunning]
          /\ \A q \in Procs : q # p => run'[q] = run[q]
          /\ lock' = Nobody
      BY <1>8, GoesRow, IdleRow, Zenon DEF Done, Unlocks
    <2>2. ~InLock(p)' /\ Outside(p)'
      BY <2>1, IdleRow, Zenon DEF InLock, JLocked, Outside
    <2> QED
      BY <1>1, <1>3, <2>1, <2>2, QuietStep, SMTT(30) DEF JInv, JTypes, Unended
  <1> QED
    BY <1>6, <1>7, <1>8, Zenon

LEMMA AdmitsInv ==
    ASSUME JInv, NEW p \in Procs, Admits(p)
    PROVE  JInv'
  <1>1. PICK j \in run[p].j :
          /\ run[p].at = "admit"
          /\ DOMAIN receipts' = Operations
          /\ \/ /\ validTerminalName(j.name)
                /\ Goes(p, [run[p] EXCEPT !.at = "show"]) /\ Unlocks(p)
             \/ /\ ~validTerminalName(j.name)
                /\ Goes(p, [run[p] EXCEPT !.at = "mark"]) /\ UNCHANGED lock
             \/ Done(p)
          /\ UNCHANGED <<files, stage, drawn, attached, frozen, given, owed, shown>>
    <2>1. DOMAIN receipts = Operations
      BY Zenon DEF JInv, JTypes
    <2> QED
      BY <2>1, Zenon DEF Admits, submit
  <1>2. InLock(p)
    BY <1>1, Zenon DEF InLock, JLocked
  <1>3. /\ Inside(p) /\ Outside(p) /\ lock = p /\ run[p] \in JRunning
        /\ files = run[p].j /\ \A f \in run[p].j : f = j /\ f.cur # 0
        /\ run[p].i \in Intents
    BY <1>1, <1>2, KeptInLock, Zenon DEF Inside, Outside
  <1>4. PICK r \in JRunning :
          /\ Goes(p, r)
          /\ \/ /\ r.at = "show" /\ r.j = run[p].j /\ r.cmd = run[p].cmd /\ lock' = Nobody
                /\ validTerminalName(j.name)
             \/ /\ r.at = "mark" /\ r.j = run[p].j /\ r.i = run[p].i /\ lock' = lock
                /\ ~validTerminalName(j.name)
             \/ r = Idle /\ lock' = Nobody
    <2>1. "show" \in Ats /\ "mark" \in Ats
      BY Zenon DEF Ats, JLocked
    <2>2. CASE validTerminalName(j.name) /\ Goes(p, [run[p] EXCEPT !.at = "show"]) /\ Unlocks(p)
      <3> DEFINE r == [run[p] EXCEPT !.at = "show"]
      <3>1. r \in JRunning /\ r.at = "show" /\ r.j = run[p].j /\ r.cmd = run[p].cmd
        BY <1>3, <2>1, MovedRow, Zenon
      <3>2. Goes(p, r) /\ lock' = Nobody
        BY <2>2, Zenon DEF Unlocks
      <3> HIDE DEF r
      <3> QED
        BY <2>2, <3>1, <3>2, Zenon
    <2>3. CASE ~validTerminalName(j.name) /\ Goes(p, [run[p] EXCEPT !.at = "mark"]) /\ UNCHANGED lock
      <3> DEFINE r == [run[p] EXCEPT !.at = "mark"]
      <3>1. r \in JRunning /\ r.at = "mark" /\ r.j = run[p].j /\ r.i = run[p].i
        BY <1>3, <2>1, MovedRow, Zenon
      <3>2. Goes(p, r) /\ lock' = lock
        BY <2>3, Zenon
      <3> HIDE DEF r
      <3> QED
        BY <2>3, <3>1, <3>2, Zenon
    <2>4. CASE Done(p)
      BY <2>4, IdleRow, Zenon DEF Done, Unlocks
    <2> QED
      BY <1>1, <2>2, <2>3, <2>4, SMTT(30)
  <1>5. /\ run'[p] = r /\ run' \in [Procs -> JRunning]
        /\ \A q \in Procs : q # p => run'[q] = run[q]
    BY <1>4, GoesRow, Zenon
  <1>6. InLock(p)' => Inside(p)'
    BY <1>1, <1>3, <1>4, <1>5, IdleRow, SMTT(30) DEF InLock, JLocked, Inside
  <1>7. Outside(p)'
    BY <1>3, <1>4, <1>5, IdleRow, Zenon DEF Outside
  <1> QED
    BY <1>1, <1>3, <1>4, <1>5, <1>6, <1>7, QuietStep, Zenon DEF JInv, JTypes, Unended

\* The active file is renamed to its operation: its View and its candidates go
\* with it.
LEMMA markTerminalInv ==
    ASSUME JInv, NEW p \in Procs, markTerminal(p)
    PROVE  JInv'
  <1>1. PICK j \in run[p].j :
          /\ run[p].at = "mark" /\ files = {j}
          /\ files' = {[j EXCEPT !.name = <<j.cur, run[p].i>>]}
          /\ Goes(p, Loaded(run[p], "show", [j EXCEPT !.name = <<j.cur, run[p].i>>]))
          /\ lock' = Nobody
          /\ UNCHANGED <<stage, drawn, service, owed, shown>>
    BY Zenon DEF markTerminal, load, Unlocks, deriveAdmissionOperation, Loaded
  <1> DEFINE op == <<j.cur, run[p].i>>
             t == [j EXCEPT !.name = op]
  <1>2. InLock(p)
    BY <1>1, Zenon DEF InLock, JLocked
  <1>3. /\ Inside(p) /\ lock = p /\ run[p] \in JRunning
        /\ j \in JournalFile /\ Remembers(j) /\ owed \subseteq j.cands
        /\ j.cur # 0 /\ run[p].i \in Intents
    <2>1. /\ Inside(p) /\ lock = p /\ run[p] \in JRunning
          /\ j \in JournalFile /\ Remembers(j) /\ owed \subseteq j.cands
      BY <1>1, <1>2, KeptInLock, Zenon
    <2>2. j.cur # 0 /\ run[p].i \in Intents
      BY <1>1, <2>1, Zenon DEF Inside
    <2> QED
      BY <2>1, <2>2, Zenon
  <1>4. op \in Operations /\ validTerminalName(op)
    <2>1. j.cur \in 0..MaxCurrentOps
      BY <1>3, Zenon DEF JournalFile
    <2>2. j.cur \in 1..MaxCurrentOps
      BY <1>3, <2>1, JournalAssumption
    <2> QED
      BY <1>3, <2>2, TerminalNames, Zenon
  <1>5. files' = {t} /\ Goes(p, Loaded(run[p], "show", t))
    BY <1>1, Zenon
  <1> HIDE DEF op
  <1>6. t \in JournalFile /\ t.name = op /\ t.b = j.b /\ t.cur = j.cur /\ t.cands = j.cands
    BY <1>3, <1>4, FileFields, Zenon
  <1> HIDE DEF t
  <1> DEFINE r == Loaded(run[p], "show", t)
  <1>7. r \in JRunning /\ r.at = "show" /\ r.j = {t}
    <2>1. "show" \in Ats
      BY Zenon DEF Ats
    <2> QED
      BY <1>3, <1>6, <2>1, LoadedRow, Zenon
  <1>8. Goes(p, r)
    BY <1>5, Zenon
  <1> HIDE DEF r
  <1>9. run'[p] = r /\ run' \in [Procs -> JRunning]
    BY <1>7, <1>8, GoesRow, Zenon
  <1>10. JTypes'
    BY <1>1, <1>5, <1>6, <1>9, Zenon DEF JInv, JTypes, service
  <1>11. \A g \in files' : Remembers(g)' /\ owed' \subseteq g.cands
    <2>1. NoLiveView \/ \A x \in frozen : attached[x[1]] = "live" => j.b = x[1] /\ j.cur = x[2]
      BY <1>3, Zenon DEF Remembers
    <2>2. \A g : g.b = j.b /\ g.cur = j.cur => Remembers(g)'
      BY <1>1, <2>1, Zenon DEF Remembers, NoLiveView, service
    <2> QED
      BY <1>1, <1>3, <1>5, <1>6, <2>2, Zenon
  <1>12. JKept'
    BY <1>1, <1>5, <1>11, Zenon DEF JInv, JKept, service, Unended
  <1>13. ~InLock(p)' /\ Outside(p)'
    BY <1>4, <1>6, <1>7, <1>9, Zenon DEF InLock, JLocked, Outside
  <1> QED
    BY <1>1, <1>3, <1>7, <1>8, <1>10, <1>12, <1>13, OwnStep, Zenon DEF service

Finishing(row, f) == [row EXCEPT !.cmd = "finish", !.at = "stage", !.w = {f}]

LEMMA FinishRow ==
    ASSUME NEW row \in JRunning, NEW f \in JournalFile
    PROVE  LET r == Finishing(row, f)
           IN /\ r \in JRunning /\ r.at = "stage" /\ r.cmd = "finish" /\ r.j = row.j
              /\ r.w = {f}
  <1>1. {f} \in SUBSET JournalFile
    BY Zenon
  <1>2. "stage" \in JLocked \cup {"idle", "end", "show", "present", "settle"}
    BY Zenon DEF JLocked
  <1> QED
    BY <1>1, <1>2, Zenon DEF JRunning, Finishing

\* The Receipt was written to stdout before its file is marked.
LEMMA markPresentedInv ==
    ASSUME JInv, NEW p \in Procs, markPresented(p)
    PROVE  JInv'
  <1>1. PICK j \in run[p].j :
          /\ run[p].at = "present" /\ withLock(p) /\ files = {j} /\ j.cur # 0
          /\ Goes(p, Finishing(run[p], [j EXCEPT !.cur = 0, !.seen = FALSE, !.cands = {}]))
          /\ UNCHANGED <<files, drawn, service, owed, shown>>
    BY Zenon DEF markPresented, load, Finishing
  <1> DEFINE w == [j EXCEPT !.cur = 0, !.seen = FALSE, !.cands = {}]
  <1>2. /\ Outside(p) /\ run[p] \in JRunning /\ j \in JournalFile /\ Remembers(j)
        /\ validTerminalName(j.name) /\ j.name \in shown
    BY <1>1, Zenon DEF JInv, JTypes, JKept, Outside
  <1>3. w \in JournalFile /\ w.name = j.name /\ w.b = j.b /\ w.cur = 0
    BY <1>2, FileFields, Zenon
  <1>4. Goes(p, Finishing(run[p], w))
    BY <1>1, Zenon
  <1> HIDE DEF w
  <1> DEFINE r == Finishing(run[p], w)
  <1>5. r \in JRunning /\ r.at = "stage" /\ r.cmd = "finish" /\ r.j = run[p].j /\ r.w = {w}
    BY <1>2, <1>3, FinishRow, Zenon
  <1>6. Goes(p, r)
    BY <1>4, Zenon
  <1> HIDE DEF r
  <1>7. run'[p] = r
    BY <1>6, GoesRow, Zenon
  <1>8. Remembers(w)'
    <2>1. \A g : g.b = j.b /\ g.cur = 0 /\ g.name = j.name => Remembers(g)'
      BY <1>1, <1>2, Zenon DEF Remembers, service
    <2> QED
      BY <1>3, <2>1, Zenon
  <1>9. Inside(p)'
    BY <1>1, <1>3, <1>5, <1>7, <1>8, Zenon DEF Inside, withLock
  <1>10. Outside(p)'
    BY <1>1, <1>2, <1>5, <1>7, Zenon DEF Outside
  <1>11. drawn' \in 0..MaxCurrentOps
    BY <1>1, Zenon DEF JInv, JTypes
  <1> QED
    BY <1>1, <1>5, <1>6, <1>9, <1>10, <1>11, StartInv, Zenon

LEMMA SettlesInv ==
    ASSUME JInv, NEW p \in Procs, Settles(p)
    PROVE  JInv'
  <1>1. /\ run[p].at = "settle" /\ withLock(p)
        /\ Goes(p, [run[p] EXCEPT !.at = "remove"])
        /\ UNCHANGED <<files, drawn, service, owed, shown>>
    BY Zenon DEF Settles
  <1> DEFINE r == [run[p] EXCEPT !.at = "remove"]
  <1>2. r \in JRunning /\ r.at = "remove" /\ r.cmd = run[p].cmd /\ r.j = run[p].j
    <2>1. "remove" \in Ats /\ run[p] \in JRunning
      BY Zenon DEF Ats, JLocked, JInv, JTypes
    <2> QED
      BY <2>1, MovedRow, Zenon
  <1>3. Goes(p, r) /\ run'[p] = r
    BY <1>1, GoesRow, Zenon
  <1> HIDE DEF r
  <1>4. Outside(p)
    BY Zenon DEF JInv
  <1>5. Inside(p)'
    BY <1>1, <1>2, <1>3, <1>4, Zenon DEF Inside, withLock, Outside
  <1>6. Outside(p)'
    BY <1>1, <1>2, <1>3, <1>4, Zenon DEF Outside, Pending, service
  <1>7. drawn' \in 0..MaxCurrentOps
    BY <1>1, Zenon DEF JInv, JTypes
  <1> QED
    BY <1>1, <1>2, <1>3, <1>5, <1>6, <1>7, StartInv, Zenon

LEMMA JStepInv == JInv /\ [JNext]_jvars => JInv'
  <1> SUFFICES ASSUME JInv, [JNext]_jvars PROVE JInv'
    BY Zenon
  <1>1. CASE UNCHANGED jvars
    <2> USE <1>1 DEF jvars
    <2>1. JTypes'
      BY Zenon DEF JInv, JTypes
    <2>2. (\A g : Remembers(g) <=> Remembers(g)') /\ (NoLiveView <=> NoLiveView')
      BY Zenon DEF Remembers, NoLiveView
    <2>3. JKept'
      BY <2>2, Zenon DEF JInv, JKept, Unended
    <2>4. \A p \in Procs : (InLock(p) => Inside(p))'
      <3>1. \A p \in Procs : InLock(p) <=> InLock(p)'
        BY Zenon DEF InLock
      <3>2. \A p \in Procs : Inside(p) => Inside(p)'
        BY <2>2, InsideStays, Zenon
      <3> QED
        BY <3>1, <3>2, Zenon DEF JInv
    <2>5. \A p \in Procs : Outside(p)'
      BY Zenon DEF JInv, Outside, Pending
    <2> QED
      BY <2>1, <2>3, <2>4, <2>5, Zenon DEF JInv
  <1>2. ASSUME NEW b \in Boundaries, Expires(b) PROVE JInv'
    BY <1>2, ExpiresInv, Zenon
  <1>3. ASSUME NEW p \in Procs,
               \/ \E b \in Boundaries : runAttach(p, b) \/ runEnd(p, b)
               \/ runCurrent(p) \/ runCapture(p)
               \/ \E i \in Intents : runSubmit(p, i)
               \/ \E h \in Handles : Stores(p, h)
               \/ Stages(p) \/ Renames(p) \/ Removes(p) \/ Stops(p)
               \/ Issues(p) \/ Ends(p) \/ Views(p)
               \/ Admits(p) \/ markTerminal(p) \/ Shows(p) \/ markPresented(p) \/ Settles(p)
        PROVE  JInv'
    BY <1>3, runAttachInv, runEndInv, runCurrentInv, runCaptureInv, runSubmitInv, StoresInv,
       StagesInv, RenamesInv, RemovesInv, StopsInv, IssuesInv, EndsInv, ViewsInv, AdmitsInv,
       markTerminalInv, ShowsInv, markPresentedInv, SettlesInv, Zenon
  <1> QED
    BY <1>1, <1>2, <1>3, Zenon DEF JNext

LEMMA AlwaysJInv == JInit /\ [][JNext]_jvars => []JInv
  BY JInitInv, JStepInv, PTL

LEMMA AtMostOne ==
    ASSUME NEW S, \A x, y \in S : x = y
    PROVE  Cardinality(S) <= 1
  <1>1. CASE S = {}
    BY <1>1, FS_EmptySet
  <1>2. CASE \E x : S = {x}
    BY <1>2, FS_Singleton
  <1> QED
    BY <1>1, <1>2

\* For any number of commands, boundaries, Intents and candidates: a retried
\* Intent has at most one accepted Receipt within its boundary, the journal
\* directory never holds two files, and a captured candidate stays bindable
\* (runCurrent, publishJournal, retirePredecessorBoundary).
THEOREM RetriedIntentHasOneEffect == JInit /\ [][JNext]_jvars => []EffectOnce
  <1>1. JInv => EffectOnce
    <2> SUFFICES ASSUME JInv PROVE EffectOnce
      BY Zenon
    <2>1. ASSUME NEW b \in Boundaries, NEW i \in Intents
          PROVE  Cardinality({n \in 1..MaxCurrentOps :
                   <<b, n>> \in frozen /\ receipts[<<n, i>>] = "accepted"}) <= 1
      <3> DEFINE S == {n \in 1..MaxCurrentOps :
                         <<b, n>> \in frozen /\ receipts[<<n, i>>] = "accepted"}
      <3>1. \A m, n \in S : m = n
        BY Zenon DEF JInv, JKept
      <3> HIDE DEF S
      <3>2. Cardinality(S) <= 1
        BY <3>1, AtMostOne, Zenon
      <3> QED
        BY <3>2, Zenon DEF S
    <2>2. Cardinality(files) <= 1
      BY AtMostOne, Zenon DEF JInv, JKept
    <2> QED
      BY <2>1, <2>2, Zenon DEF EffectOnce, JInv, JKept
  <1> QED
    BY <1>1, AlwaysJInv, PTL

\* For any number of commands: a terminal journal whose Receipt was not written
\* to stdout is neither replaced nor removed (publishJournal, remove,
\* markTerminal are the only steps that touch the directory's files).
THEOREM ReceiptIsShownFirst == JInit /\ [][JNext]_jvars => ReceiptShown
  <1> DEFINE Told == \A f \in files : Pending(f) /\ f \notin files' => f.name \in shown
  <1>1. JInv /\ [JNext]_jvars => [Told]_jvars
    <2> SUFFICES ASSUME JInv, JNext PROVE Told
      BY Zenon
    <2>1. \/ files' = files
          \/ \E p \in Procs : Renames(p) \/ Removes(p) \/ markTerminal(p)
      BY Zenon DEF JNext, Expires, runAttach, runEnd, runCurrent, runCapture, runSubmit, Stores,
             Stages, Stops, Issues, Ends, Views, Admits, Shows, markPresented, Settles
    <2>2. ASSUME NEW p \in Procs, Renames(p), NEW f \in files, Pending(f)
          PROVE  f.name \in shown
      <3>1. PICK w \in run[p].w : run[p].at = "rename"
        BY <2>2, Zenon DEF Renames
      <3>2. InLock(p)
        BY <3>1, Zenon DEF InLock, JLocked
      <3>3. Inside(p) /\ Outside(p)
        BY <3>2, KeptInLock, Zenon
      <3> QED
        BY <2>2, <3>1, <3>3, Zenon DEF Inside, Outside, Pending
    <2>3. ASSUME NEW p \in Procs, Removes(p), NEW f \in files, Pending(f)
          PROVE  FALSE
      BY <2>3, SMTT(30) DEF Removes, load, JInv, Outside
    <2>4. ASSUME NEW p \in Procs, markTerminal(p), NEW f \in files, Pending(f)
          PROVE  FALSE
      <3>1. PICK j \in run[p].j : run[p].at = "mark" /\ files = {j}
        BY <2>4, Zenon DEF markTerminal, load
      <3>2. InLock(p)
        BY <3>1, Zenon DEF InLock, JLocked
      <3>3. Inside(p)
        BY <3>2, KeptInLock, Zenon
      <3> QED
        BY <2>4, <3>1, <3>3, Zenon DEF Inside, Pending
    <2> QED
      BY <2>1, <2>2, <2>3, <2>4, Zenon
  <1> QED
    BY <1>1, AlwaysJInv, PTL DEF ReceiptShown
=============================================================================
