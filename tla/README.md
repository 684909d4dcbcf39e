# Verification of mnemon

TLA+ models of the stateful parts of mnemon, the TLC configurations that check
them on small instances, and TLAPS proofs of the properties that matter most for
every instance. Definitions carry the names of the functions they model;
`PROJECT.json` maps each one to its lines, and lists the hazards each property is
aimed at.

## The system

One executable holds several programs.

| Part | Code | What it does | Module |
|---|---|---|---|
| Authority: attachments, claims, Current | `internal/agency/authority` | One SQLite writer. A Host boundary gets an *attachment*; `Current` claims one open *Handling* under a fence and freezes a *View* | `Claims` |
| Authority: admission | same | An *Intent* bound to a View becomes an Event with its effect and a Receipt, once per operation key | `Claims` (effects on Handlings), `Admission` (ledger, References, Artifacts, outbox capacity) |
| Authority: peers | same | Routes, an outbox and an inbox of signed deliveries between two nodes | `PeerExchange` |
| Exchange worker, peerlink | `internal/daemon`, `internal/agency/peerlink` | Moves deliveries and their Artifacts between nodes | `PeerExchange`, `PeerExchangeLive` |
| Daemon lifecycle, Ensure | `internal/daemon` | Writer lock, control socket, shutdown, starting one daemon for many commands | `Runtime` |
| Provisioning, peer setup | `internal/daemon` | Identity, authority, exchange configuration and routes of a node | `Provisioning` |
| Client and Host journal | `internal/agency/client` | Commands of Hooks and Agents that survive a crash between any two steps | `Journal` |
| Artifact store | `internal/agency/artifact` | Content-addressed files | `ObjectStore` |
| Host installer | `internal/agency/attach` | Projects an extension into a Host | `PiInstall` |
| AML scheduler | `internal/aml/scheduler.go` | Folds the backlogs of users in the background, with holds, retries and drains | `Scheduler` |
| AML registry | `internal/aml/registry.go` | Opens and evicts per-user stores under a limit | `Registry` |
| AML server | `internal/aml` | HTTP front end | as callers in `Scheduler` and `Registry` |
| Model calls and budgets | `internal/memoryagent` | Paid calls: permits, breaker, reservations, close | `Calls` |
| Consolidation, timelines | `internal/memoryagent` | Folds records into a memory through a model | `Fold` |
| Records store | `internal/records` | Revisions, digests, lexical worker, cached queries | `Records` |
| Graph memory | `internal/memory`, `cmd/memory` | Insights, edges, recall, pruning, import; store files | `GraphMemory`, `GraphReading`, `StoreFile` |
| Integration setup | `internal/memory/setup`, `cmd/memory/setup.go` | Installs hooks and skills into seventeen agent hosts, and removes them | `SetupTargets`, `Setup` |

The agency half meets at the authority store. The client calls the control
service, which calls the store; the exchange worker calls the same store from
another goroutine. Every store method is one transaction under `Store.mu`, so a
method is an atomic step, and the interesting interleavings are between methods:
what a View froze may be stale when the Intent bound to it arrives, the boundary
it was issued to may have been replaced, and the clock was read before the lock.
Around the store are processes that share only files: commands, installers,
provisioning and daemons, any of which can be killed between two system calls.

The AML half meets at three locks: the scheduler's, the registry's and the
user's. An Add writes, tells the scheduler and may wait; a worker takes a user,
acquires its store from the registry and folds; a Search holds the user and folds
the rest itself. A fold asks a model through metered calls and saves its state
under the token of the state it read.

Graph memory has no server: every command is a process that opens the SQLite
file.

## Modules

Each component has a module with its state and actions. What it promises is in a
`...Properties` module or at the end of the module itself. An `MC...` module
holds the constants of an instance. A definition called a mutant in its comment
is a faulty variant of the definition that follows it; no specification uses it.

Where a run explores several small circumstances, `Worlds` is their set and the
variable `world` the one chosen in the initial state: the behaviours of the run
are the union of theirs. Where a run holds several components that share no
state, the variable `part` chooses the one that moves; the others stay as they
began, in a state where none of their fair actions is enabled.

### Claims

State: the tables `attachments`, `handlings`, `events` (only the subject binding
of an Event), `claim_dispositions`, `current_operations` (the frozen Views), the
origin sequence and the trusted clock. Identities are abstract; a Handling is the
number of the Event that created it, because an Event creates at most one local
Handling. Each action is one transaction: `IssueInteractiveAttachment` (replacing
the predecessor and releasing its claim), `EndInteractiveAttachment`, `Current`
(expiry sweep, keep or take a claim, freeze the View), one action per accepted
kind of admission, and the effects of accepted peer deliveries. A rejected call
changes none of these tables and is not a step. `Readings` is the clock read
before the lock: any instant since the attachment was issued.

### Admission

`Admit` is four steps of a caller: preflight under the lock, hashing of the
Artifacts outside it, the commit under the lock, and the answer. Callers retry
with the same operation key, give up, or come back with another Intent under a
key that was used. State: the calls in flight, the operation ledger with its
receipts, the References with their heads and lineage, the Events, the outbox
rows that count against the capacity, the catalogue of verified Artifacts, and
which Artifact files are damaged. Meanwhile the boundary ends, peers send
requests, rows settle or expire, the route is revoked and files are damaged.

### PeerExchange, DeliveryContract, PeerExchangeLive

Two nodes. A node has its store (outbox, inbox, Handlings, imports), its route, a
clock of its own, its Artifact files and catalogue, one worker with one
connection at a time, and a bounded set of handlers for the peer's connections. A
worker that gives up on a connection does not stop the handler at the other end,
so two handlers may work on one delivery. A restart drops worker and handlers and
keeps the store. Enrolment is the initial state; envelopes and signatures are
abstracted to the identity of the delivery.

`DeliveryContract` is the abstract promise: the receiver decides once, the sender
learns that decision or gives up. `Implements` shows that `PeerExchange` refines
it, with the outbox state as the sender's knowledge and the inbox state as the
decision. `PeerExchangeLive` adds a counter of faults and fairness.

### Runtime, Provisioning, Journal

`Runtime` is the daemon process, split into the goroutines whose order matters
(`Serve`, its watcher, the closer and the handlers), and `Ensure`, which probes,
locks, probes again, opens the node as a preflight, starts a child and polls.

`Provisioning` is every write of `setup`, `peer prepare` and `peer enroll` under
the provision lock. A command can be killed between any two writes and inside
one, leaving a torn file.

`Journal` is one command per process over the one journal file: it holds the lock
while it loads, calls and publishes, and `submit` lets go of it twice. A kill, a
refused call, a lost answer and a stdout that cannot be written all end the
command where it stands. Of the authority there is what a client can tell apart;
the request handlers of the control service are its other side.

### ObjectStore, PiInstall

Both go call by call over the file system. `ObjectStore` is one digest with its
shard directory, its marker and its final entry, each in memory and on disk, so
that a power failure takes back what was not synced; a Put of another digest may
make the same shard. Only the Put that made the shard syncs the root, and one that
finds it there goes on at once, so `ObjectIsKept` speaks of objects answered when
the shard's own entry is on the disk, and names the window in which a power
failure can take a marker with its object. `PiInstall` has stages under fixed names that two
installers share; an inode is partial until it was written and given its mode.

### Scheduler, Registry

Every critical section of the scheduler's lock is a step of a worker, an Add or a
Search. The change channel is the set of goroutines that took it and have not
seen it closed. A user's records are counted in characters, `pending` in the
store and `untold` those the scheduler was not told of. Jobs fail, back off and
are retried; a stop is a drain or the end of the context.

Every critical section of `registry.mu` is a step; opening and closing stores and
the look for `records.db` happen between the steps. An entry is an object with an
identity, so that an entry that failed or was evicted is told apart from its
successor for the same user.

### Calls

A caller's goroutine makes the attempts of its call; an admitted attempt starts a
flight, a goroutine that owns permit and reservation until its request ends, also
when the caller has left. The budget file has rows, spent and held; it can fail
at a settlement. The close waits for the wait group and cuts at its deadline; a
crash leaves rows held, which the next start settles. Prices are one reservation
and one estimate; the retry budget's windows allow or deny freely; the breaker is
a library's.

### Fold

A job reads records past the watermark, folds them in batches (whole, or layered
with extractions in parallel and a link step), counts errors towards a drop, and
replaces the stored state under the token of the state it read. Records are
plain, refused, garbled, flaky, slow, empty or too long; faults are outages,
cancels, crashes and failing links. Jobs of one process share its lock and its
kept extractions, jobs of two processes only the stored row. What a reply says
is the part of the batch it was asked about.

### Records

Puts extend a digest from a saved hash state, or hash anew when the state is of
another revision. A background worker builds the lexical index; queries load a
snapshot, wait for one that loads, build a derived index for an overlay
generation, and keep selections. A request whose filter keeps every row shares
the snapshot's rows, any other keeps the rows it has read itself. A digest is the
sequence it hashes.

### GraphMemory, GraphReading, StoreFile

`GraphMemory` is every command that writes: `remember` reads for duplicates
outside its transaction, `import` writes entry by entry and then its edges,
`embed` row by row. A content stands for its text and for what the extractors
find in it. `GraphReading` holds the traversal behind `related` and the recall
pipeline as pure operators. `StoreFile` is the opening of a file, statement by
statement: the move out of the legacy layout, the migrations, and the commands on
store names. The version of the vectors is read outside the transaction that
converts them, and whether a blob is old is guessed from its length and values, so
a blob of an even number of new components looks old: two opens that overlap
convert it twice. A log that is moved after its database was opened replaces the
one that was begun. `OpenedIsCurrent` states what holds in spite of that and names
the overlaps and deaths each exception needs.

### SetupTargets, Setup

`SetupTargets` is a table: per host, the steps its install and eject functions
take and what each registers. `Setup` executes the rows; any step may fail, the
process may be stopped inside one, and between commands the user edits the same
files. A configuration is rewritten through a `.tmp` beside it, which a stopped
command leaves there, or in place (Kimi's eject, OpenClaw), which may cut it; a
step that fails may leave what one that was stopped would. `filterHookArray` drops
an entry of the user's that mentions mnemon, and ZCode's registration overwrites
hooks the user switched off: both are what the code says, so no property claims
that the user's entries are kept. `DoneIsDone` is what a command promises that
reported no failure. Its exceptions are in its comment: a default store that was
left half made is not looked into again, a `.tmp` outlives an eject that removes
the file or writes in place, and OpenCode's guide in a data directory whose name
does not end in `mnemon` is registered again by every install and found by no
eject.

## Runs

| Run | Instance | Shows |
|---|---|---|
| `agency` | parts: one Principal with two boundaries, two Current keys, four Events and three instants; two commands and two boundaries on one journal; two stores and three inodes; two installers and three files; two owners and two addresses; seventeen hosts with two commands and one fault | claims, fences and replies stay consistent while boundaries are replaced, end and expire, and attention is fair; retried Intents have one effect and no receipt is forgotten; objects, projections, provisioning and integrations end up whole |
| `admission` | two calls at once; worlds: three Intents on one Reference, responsibility shared with a peer, damaged Artifacts | one answer and at most one Event per key; a lineage stays one chain |
| `exchange` | two nodes; worlds from one delivery with an Artifact, two handlers and every fault to a chain of three deliveries | a delivery becomes at most one Event, a request gets one reply, the worker meets no state that ends it, and the exchange implements `DeliveryContract` |
| `daemon` | parts: two nodes with one delivery and its Artifact, or a request and its reply, and two faults; two daemons and an Ensure | every pending delivery gets its receipt; only the writer serves; shutdown ends |
| `sched` | two users, two workers, an Add, a Search, one followed user, a drain | no work is slept over: lists agree, no wake-up is lost, no full batch rests, whoever waits has a job coming |
| `sched_live` | one user, one worker, two Adds, a Search that holds the user, a run that is drained or cancelled | batches are folded, Adds return, Run ends |
| `calls` | worlds: a Search that retries and gives up; a Search beside a job; a throttled Search over a failing budget file with a changing cap | reservations, permits and the wait group balance; calls end; the close returns |
| `users` | parts: twelve worlds of `Fold` with one or two jobs; two requests on two users with a limit of one store | every record is accounted for once, saves only move on, the backlog drains; a held store stays open and everything is closed at last |
| `memory` | parts: five worlds of `GraphMemory` with two to four commands; eight openers' worlds of `StoreFile` and its names; eight worlds of `Records` | edges join active insights, reads agree with their reference definitions, an import run again lands; an opened file is current; an answer is the revision it is named after |

The bounds let a boundary be replaced or expire while it holds a claim, a second
fence be granted for the same Handling, a reply arrive between a View and the
Intent bound to it, a commit follow a preflight that another commit has
overtaken, a duplicate reach a handler before, during and after the decision, a
user be turned away at the scheduler's limit while it has work, a store be
evicted while another request waits for it, an abandoned request settle after its
call was retried, a fold save after another process moved the state, a load
publish after two puts, a migration die and be finished by the next open, and a
killed command be followed by one that works over what it left. What they leave
out is more of the same: a third node (routes are pairwise and share nothing but
the store, which `Claims` covers), longer queues, and more than two actors in one
race.

Three reads are checked against reference definitions in the same run:
`RelatedIsNearest` against distance by iterated neighbourhoods, `CausesComeFirst`
against reachability in the causal edges, and `AnswersAreTheRevision` against the
rows of the revision a hash names.

Deadlock is checked in `calls`, whose process starts again for ever. Elsewhere
bounded clocks, counters and clients make every behaviour stop, and a stopped
server rests.

### Disagreements with comments and checks in the code

Three runs show a statement of the repository that the code does not keep. Each
checks one property, and `findings` in `PROJECT.json` quotes the lines.

| Run | Property | What happens |
|---|---|---|
| `open_bound` | `OpenHandlingBound` | peer requests are admitted without counting open Handlings, past the bound whose violation fails every fresh `Current` |
| `search_creates` | `OnlyAddsCreate` | a Search that finds the entry of an Add whose open fails opens the store itself, and creates it |
| `unhashed` | `PinnedBytesWereHashed` | a preflight that meets an objection returns nothing to hash, and a commit that no longer meets it accepts bytes that this attempt did not hash |

Modelling met others that are described here and have no run:

- Two `reference.publish` Intents bound to one View at the limit pass the bound
  that every later `Current` requires, because the count is not taken again at
  the commit.
- A pending exchange configuration torn by a kill inside its write cannot be
  settled by the replay its error message asks for.
- Two processes that migrate one legacy store file together can leave the edge
  constraint without `supersedes` until the next open, convert the same vectors
  twice, and hide the rows of a log that is moved after the database was opened.
- The migration that deletes narrative insights leaves the edges they had of other
  types, which no read follows.
- The comment of `CatchUpLexical` has a query after it rank over an index that covers
  every version. A selection that a filter made, or an indexed one, may have been read
  before the build and is served until the revision moves on; `CacheKeepsUp` is
  about the snapshot and what shares it.
- A Put that finds the shard of another Put made but not yet synced reports its
  object as stored, and a power failure can still take the shard.
- `remember` looks for duplicates, and `link` for its ends, outside the
  transaction that writes; `EdgesMeetActive` is therefore claimed for commands
  that run alone, and `RelatedIsNearest` shows that reads pass over what such a
  race leaves behind.

### Fairness

Liveness is claimed only where the code has something that goes on by itself.

- `daemon`: weak fairness of each exchange worker and each handler: the worker of
  a running daemon is driven by a ticker, and a handler runs until it returns or
  its deadline ends it. Faults may happen, but finitely often; no Agent must act.
  For the lifecycle, weak fairness of the goroutines of a daemon whose close has
  begun and of a handler's return, because its context was cancelled. Signals,
  kills and Ensures need not happen.
- `sched_live`: weak fairness of workers, Adds and Searches in progress, of
  `Run`'s return and of time. Clients, failures and stops need not happen, and no
  Add relies on the end of its window. Jobs stop failing at the last instant.
- `calls`: weak fairness of each caller's and each flight's goroutine, and of the
  close's deadline. A request ends because the HTTP client has a timeout. Callers
  need not begin a call, give up or be cut.
- `users`: weak fairness of the writer of records, of time and of each job, which
  the scheduler starts again as long as there is a backlog (`sched_live`). For the
  registry, of requests in progress and of `close`: an open returns and a holder
  finishes, because both have a deadline.

## Proofs

Eight modules hold theorems, for every value of the constants that satisfies the
named assumptions. Each follows one argument: an inductive invariant holds
initially, every action keeps it, one lemma or case per action, and it implies
the property. A proof module is named after the first component it is about; the
table says where the smaller components are. Most leaves name Zenon as their
prover: it looks at the cited facts only, where the translation to SMT also pays
for the rest of the module, so SMT is kept for arithmetic and sequences.

| Theorem | States | Module | Also checked by |
|---|---|---|---|
| `FencesEndOnce`, `ClaimOccupancy`, `RepliesSeenBeforeResolution`, `FairAttention` | `EveryFenceEndsOnce`, `OccupancyIsExclusive`, `ResolvedWithEveryReplySeen`, `LeastAttendedFirst` | `ClaimsProofs` | `agency` |
| `TypeCorrect`, `NoExpiryDisposition`, `FenceProtectsHead`, `AppendOnly` | `TypeOK`, `ExpirySweepFindsNothing`, `HeldViewIsFresh`, `NothingIsRewritten` | `ClaimsProofs` | no run |
| `ImportedAtMostOnce`, `NoWorkerEnds` | `AtMostOnce`, `WorkerSurvives` | `PeerExchangeProofs` | `exchange` |
| `ExchangeImplements` | `Implements`: the refinement of `DeliveryContract` | `PeerExchangeProofs` | `exchange` |
| `OneEffectPerKey`, `LineagesAreChains` | `OneEventPerOperation`, `LineageIsAChain` | `AdmissionProofs` | `admission` |
| `WriterServes` | `ServedByWriter` | `MemoryProofs` | `daemon` |
| `SetupConverges`, `CardsStayTrue` | `ConvergesForward`, `CardsHold` | `RegistryProofs` | `agency` |
| `ObjectSurvives` | `ObjectIsKept` | `AdmissionProofs` | `agency` |
| `ProjectionIsExact` | `InstalledIsExact` | `AdmissionProofs` | `agency` |
| `RetriedIntentHasOneEffect` | `EffectOnce` | `JournalProofs` | `agency` |
| `ReceiptIsShownFirst` | `ReceiptShown`, an action property | `JournalProofs` | `agency` |
| `CallsKeepTheBooks` | `BooksBalance` | `CallsProofs` | `calls` |
| `OpenStoresAreOwned` | `StoresAreOwned` | `RegistryProofs` | `users` |
| `OpenStoreIsMigrated` | `OpenedIsCurrent` | `MemoryProofs` | `memory` |
| `EdgesStayOnActive` | `EdgesMeetActive` | `MemoryProofs` | `memory` |
| `Answers`, `KeepsUp` | `AnswersAreTheRevision`, `CacheKeepsUp` | `RecordsProofs` | `memory` |

**Claims.** `IInv` is the type invariant, the properties themselves and
`RowsAgree`, which ties the tables to each other: without it a new claim could
meet an older disposition under its own fence. `ClaimsProofs` has the actions on
attachments and claims first, then those of admission and peers, and `NextInv` puts
them together. `AppendOnly` and `FairAttention` are action properties and follow
from `IInv` and one step.
Assumed: there is a Principal, an attachment has an owner, the bounds are
naturals.

**Admission.** `AInv` adds to the two invariants what the phases of a call carry
from one transaction to the next. `Grounded`: a View, a request in flight and a
request in the ledger name only heads that are in a lineage, so that what an
Intent cites or replaces existed when it is admitted, however old its View.
`AnsweredIsDurable`: a call that was answered has a Receipt for good, so a late
conflict cannot contradict it. Assumed: no key or Artifact is
named like the absent one, the limits are naturals (`NamesAssumption`,
`LimitsAssumption`, `WorldsAssumption`).

**PeerExchange.** `EInv` has two halves. `Store` is about the rows of both
authorities: an import is counted exactly for an accepted inbox row, a receipt in
the outbox is the one in the peer's inbox, a reply answers an accepted import and
no other reply answers the same one. `Link` ties the answer a handler is about to
give, and the one a worker is about to settle, to the row the receiver committed;
this is why an answer that is late, repeated or from a second handler is never a
different one. The refinement uses `EInv` as well: `StepImplements` maps each
action to a step of the contract or to a stutter. Assumed: two nodes
(`NodesAssumption`), natural bounds (`ExchangeAssumption`), finitely many handlers
(`WorldsAssumption`).

**Runtime.** `RInv` says that the writer lock is held by the one daemon or the one
preflight that has the store open, and that a listening daemon owns the socket's
name. `Sound` adds what the goroutines of a daemon agree on: nothing runs before
`Serve`, a close that began refuses requests, the store is drained once the
listener is gone and closed once the requests are over. Assumed: daemons and
commands are distinct (`RuntimeAssumption`); any number of both.

**Provisioning.** `PInv` has `Node`, what is on the disk whoever left it there
(the authority comes last, its Principal is the identity, what a card or a route
names is final), and `Stage`, what each command has made sure of at the step it is
at. The second is needed because a command acts on what it found under the lock.
Assumed: addresses are positive naturals, so that 0 is "no address"
(`ProvisioningAssumption`).

**ObjectStore.** `ObjectIsKept` is not inductive. That a power failure cannot take
an answered object needs every call past the directory sync to have seen the final
on the disk, in a shard that is there (`Seen`), and that at most one Put is told it created the object needs
the installer under way to be alone (`Lone`). Nothing is assumed of the constants.

**PiInstall.** `Working` says that without an overlap one installer at most is
under way, and that the stage it writes is its own file, or a complete one when it
links. Assumed: the plan is not empty (`PiInstallAssumption`).

**Journal.** `JInv` says what is true between commands (`JKept`: one journal file,
one boundary that has not ended, one View for each boundary, and the file remembers
the View of the live one), what the command in the lock knows of the file it loaded
and of the one it is about to publish (`Inside`), and what a command that let go of
the lock may still rely on (`Outside`). The last one is where `ReceiptIsShownFirst`
comes from: what a settling command removes was shown. Assumed: the free lock is no
process, the bound is a natural (`JournalAssumption`).

**Calls.** `BooksBalance` counts callers and flights. `Owners` makes it inductive:
a held reservation belongs to one caller about to fly or to one request in flight,
never to both and never to two. Each count is the cardinality of a set that a step
changes at one element (`Swap`), so it moves by what this one gained less what it
had. Assumed: finitely many callers and flights, an estimate is at most what was
reserved for it, and the caps of an operator have a highest one
(`CallsAssumption`).

**Registry.** `GInv` ties an entry's reference count to the set of its holders, and
says that what is cached is not closed, that what is about to be closed has no
holder (`EntrySound`), and that entries that are in use have different keys
(`OneEntryPerKey`). `WithoutGone` takes entries out of the list by recursion over
its length; that it keeps exactly the others is proved by the least prefix for
which it would not (`WithoutGoneFacts`). Assumed: finitely many entries, a natural
limit (`RegistryAssumption`).

**StoreFile.** `FInv` records, for each place of an open, what holds of the
database from there on whoever else migrates it (`Reached`), and what holds only
while nobody else does (`Alone`): a version or a probe is still true when it is
acted on. `LogInv` follows the log beside its database.
Nothing is assumed of the constants.

**GraphMemory.** `EInv` follows the one command that runs: what it read and will
link to is still active when it writes (`Doing`), and only a forget between its two
writes leaves edges at an insight that is deleted (`Touchable`). Each generator of
edges is shown to stay within the active insights and the new one, for any
similarity, overlap and limit. Assumed: an explicit edge of a draft names two of
its entries, as `Validate` makes sure (`DraftsAssumption`).

**Records.** A query keeps a hash, rows and a generation across steps in which
others write, so `RInv` says of each of them what it is (`RStore`, `RProcs`,
`RCache`) and `Grows` that no write makes it untrue: a revision keeps its records
when a version is ended or appended (`RawsKept`), and a digest extended from a saved
state is the hash of the new revision (`RawsAppended`, `DigestIsHash`). `RWaits`
names the one load and the one build a waiter waits for. `RFresh` is what makes
`CacheKeepsUp` inductive: a row without its token count is of a version the index
does not cover, also in a load that has not been published, as long as no build
came between; a selection that shares the snapshot inherits this from it. Assumed: no record has the id that marks the absent hash, and no
query is named like nobody (`RecordsAssumption`).

Induction over data is out of the provers' reach as a rule, but not where the least
counterexample will do: every set of naturals that is not empty has a least element
(`Least` and `RecLeast`, from the well-foundedness of the naturals). So it is with
`InOrder`, which lists the records of a revision.

Only model-checked:

- all liveness, which needs fairness and `ENABLED`, and `ImportLands`;
- `NothingLost`, `RelatedIsNearest`, `CausesComeFirst`: what `Fold` and
  `GraphReading` compute is recursive over the data itself;
- `DoneIsDone`: it rests on the contents of the plans of all hosts;
- `NoWorkSleptOver` of `Scheduler`: it compares lists that several steps filter,
  merge and cut.

## Not modelled

- Canonical encodings, shape checks, envelopes and signatures of agency values:
  pure data, abstracted to identities.
- What a model extracts or answers, ranking and prompting of a read
  (`memoryagent/read.go`, `simple.go`), scoring of records and keyword search:
  functions of a revision without shared state.
- Tokens, entities, intents, masking, import drafts: functions of strings, which
  a model could only transliterate.
- Routing, middleware, inspection, logs, metrics, the web page: they read.
- `aml/budgets.go` chooses files and caps; the windows of the retry budget are one
  comparison and one increment under a lock of their own.
- The third peer: a full batch of rows for a peer that never answers delays rows
  for others until it expires (`exchange.go`, listed as a hazard).
- Argument parsing and self-update.
