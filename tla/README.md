# Codotheca, specified

Codotheca is a desktop shelf of the user's code projects: an Electron shell (`app/`) that draws, and
a Rust core (`core/`) that scans, reads git, keeps the SQLite index and does the work. This directory
holds TLA+ modules translated from that code, the TLC configurations that check them on small
instances, and proofs that TLAPS checks for every value of the constants.

`PROJECT.json` lists the components, the runs, a mutant of the code for every checked property, the
source lines each definition stands for, the hazards and the theorems.

    tlc -workers 2 -config JobScheduler.cfg MCJobScheduler.tla
    tlapm JobScheduler_proofs.tla

## 1. Inventory

### How the parts meet

The core is a child process of the shell. They speak length-prefixed JSON over its stdin and stdout:
requests, subscriptions and resyncs go in; responses, errors, events and snapshots come out. Only
the core writes SQLite, through one connection behind `Arc<Mutex<Index>>`. In the core:

- one *loop thread* runs commands one at a time and, between frames, the pump (session tick every
  15 s, sidecar hourly);
- a *scan* has a walk of its own, whose workers probe a directory with nothing locked and then hand
  it off in one transaction; each hand-off feeds a *job pool* of git reads and derived work;
- one *sync thread* talks to the provider; every install and device flow has a thread of its own;
- all of them publish through one `Publisher`, whose frames a writer thread puts on the pipe.

In the shell a `CoreSupervisor` owns the process, a `CoreClient` the requests and topics, a coalescer
batches events for the renderer, and a projection there folds them into what is drawn.

The recurring shape, and the source of most of what is hard here, is a read under the index's mutex,
work with it let go (git, the network, a directory moved to the trash), and a write under it again.

### The components

| Component | State | Operations | What is hard | What makes it correct |
|---|---|---|---|---|
| **Topic streams** (`proto/pubsub.rs`, `dispatch.rs`, `streams.ts`, `client.ts`) | queue and numbering per topic, snapshot requests, writer channel; epoch and last number in the shell | emit, subscribe, unsubscribe, resync, supply, flush; accept, resubscribe | workers emit while the loop computes a snapshot; a full writer; two subscriptions in one epoch; a dead core's frames | what was announced is shown, whole and in order; no gap; a quiet shell catches up |
| **Job pool** (`jobs/`) | queue, slot table, a durable row per project and kind | enqueue, take, check, run, settle, follow up, release, reset, stop | settle reads then writes; work taken leaves the index; caps move; retries | slots are neither leaked nor given twice; caps hold; chains go on; retries end |
| **Core supervision** (`supervisor.ts`, `client.ts`, `quitGate.ts`, `main.rs`) | lane, epoch, child, timers, pending requests | launch, hello, answer, exit, restart, rebuild, quit | exit, pipe, timer and user in any order; a write whose answer is lost | writes are never replayed; loops stop; requests and quits end |
| **Session ledger** (`session/`) | session and segment rows, a machine and a watch per live session, a focus claim, credit per day | launch, focus, stop, tick, shutdown, recover | each session is its own transaction; crash between any two; two clocks; refused writes | credit has evidence; each second is paid once; ends are observed, not noticed; sessions close |
| **Index storage** (`index/`) | database file set, schema versions, sidecar and its generation, quarantine, pending records | open, migrate, back up, export, quarantine, rebuild, swap, undo, restore, match | a crash or a failure between two renames; a second corruption before the first was recovered; what the walk order does to the key a record is kept under | what a document carried is never lost, applied twice, or another project's; the corrupt file is kept; an undone rebuild leaves no trace |
| **Sync runner, accounts** (`sync/`, `accounts/`) | durable tasks, an in-memory inbox, flags, rate budget; account row and keychain secret | ask, sweep, claim, run, park, settle, wake; connect, disconnect | flag and inbox updated apart; a crash leaves a row *running*; disconnect crosses a listing and a device flow | each task is tried; parks are kept; a secret has its account; a gone account's work ends |
| **Identity, scan, uninstall** (`identity/`, `scan/`, `uninstall/`, `removal/`, `detail/relocate.rs`) | projects, locations; a scan's candidates and finds; the copy being removed | classify, probe, hand off, presence, listing, rename answer, relocate, analyse, trash, commit | each acts on what it read before: a probe, a project id, a row, a verdict | one repository is one tile; a removed copy's row stays its project's |
| **Install** (`install/`) | run row, token, staging directory, destination, location row | start, register, clone, rename, index, mark done, cancel, clean up | a thread per start and one staging directory per destination; a crash or a failure between any two steps | a run that reads *done* has a location; a run's end clears its staging; a start ends unless its clone hangs and nobody cancels it |
| **Content scan and debt** (`jobs/j7_markers.rs`, `debt/`, `health/`, `restoration/`) | scan row, cursor, blob cache; items and sweeps per source; the day's receipt; switches, grant, enrolment | enumerate, read a chunk, observe, settle; withdraw, revoke, switch, enrol, uninstall | a run writes what it read before a copy left, HEAD moved or a grant went, with the lock let go between any two of its reads; a chunk and its cursor are two transactions | only a complete sweep of the present copy closes an item; nobody is paid for what nobody fixed; withdrawn evidence is read again |
| **XP ledger** (`ledger/`) | append-only rows, latches, a floor | pay, hold back, restore, recompute | an award evaluated before a rebuilt project's record is found again | an award is paid once per repository, and comes back to it |
| **Git slots** (`git/slots.rs`) | counters per store and overall, waiting interactive reads | acquire, cancel, drop | an interactive waiter holds back all background reads for as long as it waits | counts match guards; a cancelled waiter is counted out |
| **Renderer feed** (`bridge.ts`, `coalesce.ts`, projections) | 16 ms buffer, projected rows | push, flush, respond | responses are not coalesced | a row is never older than one already shown |
| **WSL workers** (`wsl/`) | a worker process per distribution | start, frame, retry, break | a worker dying under a call | a call ends once |
| **Provider, HTTP, advisories** | advisories | request, sweep | external services | - |
| **Launch and commands** | none of their own | one arm of the loop per command | the spawn precedes its row | - |
| **Composition, lifecycle** (`assembly/`) | wiring | startup, pump, shutdown | order of startup steps | - |
| **Read models, art, deletion analysis, shell services, renderer views, tooling** | none, or platform state | queries, drawing, verdicts, windows, dialogs, updates | - | - |

### What is modelled

The first nine rows, and the part of the tenth that a rebuild touches: they are where threads,
processes, files and clocks meet. The rest is not modelled: pure functions, pure presentation or
external I/O, which a state model adds little to, or it is in the plan (section 7); `PROJECT.json`
says which and why.

## 2. The modules

| Module | Stands for |
|---|---|
| `TopicStream`, `TopicStream_proofs` | one topic from a committed row to the shell's view of it; their theorems |
| `TopicFeed` | what a topic promises, with no frames, numbers or processes |
| `TopicStreamFeed` | the mapping under which the first implements the second |
| `JobScheduler`, `JobScheduler_proofs` | queue, slots, workers and rows; their theorems |
| `CoreSupervisor` | shell, core processes, pipes, requests |
| `SessionLedger`, `SessionLedger_proofs` | ledger rows, machines, watcher, clocks; their theorems |
| `IndexRecovery`, `IndexRecovery_proofs` | the index's files, the sidecar, a start, a migration, a rebuild; their theorems |
| `SyncRunner` | the sync thread, its table, an account's row and secret |
| `Identity` | what identity decides and writes, as operators on the index; no behaviour of its own |
| `Library`, `Library_proofs` | the scan, an install's tail, the sync thread and the command loop over one `Identity` index; their theorems |
| `Restore` | whose a record is when a rebuild's walk finds its copies in another order; also over `Identity` |
| `Install` | starts, their threads, staging and destination |
| `Debt` | what one project owes and what a transaction may change of it, as operators on the index |
| `ContentScan`, `ContentScan_proofs` | the content scan of one project's copies over `Debt`, and what happens to it; their theorems |
| `CoreAndInstall_proofs` | the theorems of `CoreSupervisor` and of `Install`, which share no state |
| `SyncAndRestore_proofs` | the theorems of `SyncRunner` and of `Restore`, which share no state |
| `MC...` | the instances TLC runs |

A definition preceded by a comment that calls it a mutant, or that names a version of its successor
with something left out (*"A flush that pops a frame the writer refused"*), is not reached by the
specification: it is the plausible bug the property must catch. A few properties are in no
configuration (`SnapshotCoversItsDeltas`, `ThreeAttempts`, `PendingDiesWithItsEpoch`,
`QuitLeavesNoCore`, `ParksEnd`, `MissingIsGone`, `SubjectsSurvive`, `PaidIsGone`, `WatchedIsHeard`): they say what a comment of the code promises and
the model shows not to hold. Section 3 reports them; two more of that kind are runs of their own (`NeverHalfWritten`,
`CompleteIsCovered`).

### TopicStream, TopicFeed

`db` is the committed row per key. A worker is idle or holds a payload computed in its transaction
(`WorkerCommit`) that it has yet to emit; `publish_row_change` may read the row again in between
(`WorkerReread`). `run_loop` is `loop`: a receive followed by its arm's steps, in the order of the
code - the snapshot is read in one step and supplied in the next, with the publisher's lock let go in
between. `pending` is the topic's queue, `wants` the snapshot requests overflow left, `pipe` the
writer's channel per epoch. The shell's side is `handler`, `stream` (`StreamState`) and `view`.
`Crash` loses all of the core's memory, keeps the pipe, and `Launch` starts the next epoch.

`announced` is history: what the stream was given to convey. It separates two claims. The transport's
is that the shell is shown what was announced, in its order, and ends at the last of it. The
program's is that `announced` is `db`, and that one does not hold: two workers may emit in the other
order than they committed (the re-read in `publish_row_change` narrows that window and does not
close it), and a snapshot may be older than it says.

`TopicFeed` states the first claim: while the feed is on, states told come in order, one may be
skipped only by one told later, none already on its way is taken back. The mapping's `coming` folds
the unread frames of the current epoch with the client's own `Verdict`, so it is not a copy of the
queue but what the queue will be made of; the feed is on when both ends are subscribed and no
subscribe, unsubscribe or resync is unanswered. Between those, the shell may show anything.

Left out: other topics (topics share only the channel), the frame size limit, the parent probe.

### JobScheduler

`ready` is `JobQueue` in sequence order, with `Push` its replace-in-place; `inFlight`, `j4InFlight`,
`used`, `cap` and `j4Used` are `SlotState`. A worker goes `take -> check -> run -> load -> settle ->
follow -> release`, the steps of `worker_loop` that the mutexes separate: `take` is one critical
section of the pool's mutex, `check`, `load` and `settle` one each of the index's, and each follow-up
job one enqueue. `IndexFree` says that the loop thread holds the index while it queues what a view
asked for. Any read or write of the index may be refused: a refused `check` drops the job unrun
(`unwrap_or(false)`), a refused `load` settles it as if it had no row (`unwrap_or_default`). `strikes` is history: the failures of one location's job, as opposed to its project's row;
`dropped` too: the projects that lost a job because its copy was removed.

What a job does is its outcome. Time is `due`: whether a parked job's backoff has run out.

### CoreSupervisor

A core is named by the epoch it was launched in, so several may exist. `phase` takes it through lock,
greeting, opening the index and serving; the pipes `inbox` and `outbox` outlive it. `reaped` separates
a core's death from the shell hearing of it: frames may be read on either side of that, but timers
and presses belong to later turns of the event loop (`LaterTurn`). `OnDeath` is given the code of the
core that died and not which core it was, as in the code. A handler may act and answer, refuse, or
fail after it has acted. A spawn fails by throwing or by an error event on a handle that never
reports an exit.

Left out: the id 0 request of the hello, topics, frames that do not decode, stderr.

### SessionLedger

`db` is the two tables and the credit paid per project and day; `live` the manager's map with each
machine (`in` a segment, `between` segments, `ended`), `watch` the roots, the operating system's
watches and the channel - what notify has reported, in batches between the errors it reported with it,
since the drain of a tick stops at the first error (`Drained`, `WatcherErrs`) - `focus` the last claim, `clock` a monotonic and a wall time. Launch,
focus and stop are commands of the loop thread; a tick is `PumpBegins`, then one transaction per
session in id order (`TickObserve`), then one per finished process (`TickReap`). Every transaction
may be refused after the machine has already moved (`Refuse`), which ends the pass. A project may be
launched again while it runs: two sessions then share its worktree, of which the older alone is given the edits
(`Pending::absorb`), and the first to end takes the watch from the other (`watch.outlived`). `Crash` may fall
between any two; `Start` runs `close_orphans`, which may be refused too. `ClockJumps` sets the wall
clock, or sleeps, with a monotonic clock that stops (Linux) or does not (Windows).

`evidence` is history: the wall seconds some input accounts for - a launch, an edit of the session's
own worktree, a claim of its own view - each for no longer than the code's bounds believe it.

A behaviour lasts as long as its budget says (`until`), and `met` remembers a refusal, a jump or an
error of the watcher, after which `UnaskedEndIsNotNow`, `CreditIsEvidenced` and `ClosesInTime` say nothing: a refused
transaction leaves memory ahead of the rows, a clock set back has no evidence to be held to, and
an edit behind an error is credited when it is drained and not when it was made.

Left out: the ignore filter and its path buffer (an ignored path is an edit not made), nested
worktrees, `awaiting_restore` and reference projects, time zones (a day is a fixed
number of seconds), published events.

### IndexRecovery

The directory: `db`, its `journal` (`-wal`, `-shm`), the file being built beside it (`side`),
`sidecar`, and the set put `aside`. `run` is the process and how far it is: a start opens, checks the
version, backs up, migrates in one transaction and stamps the mirror in another; a start with
`--rebuild` goes `build -> restore -> aside (database, journal, copy of the sidecar) -> swap ->
report`, each act recorded in its undo list as `Undo` records it, and a failure takes the list back
in `after`'s order. Serving, it exports, hourly or as the last act of a shutdown: the document is
renamed into place (`WriteSidecar`), then the generation is recorded (`StampGeneration`). A user's decision is a number, so a lost one shows;
"row" stands for what hangs off a project's record, "ruling" for a section that needs the evaluator's
rows first. `saved` is history: the newest decision a readable document has carried.

### SyncRunner

`rows` is `sync_task_state`; `loop` the thread's place in its turn, in the steps the mutex separates:
`top -> poll? -> take -> look -> store -> verdict -> token -> request -> settle`. `look` and `store`
are the two halves of `outstanding.store(outstanding || !self.inbox_is_empty())`: the flag stored is
the one of the look, and an `Ask` may fall between them. An ask is itself two steps (`Ask`,
`SetFlag`). `command` is a disconnect between its two writes, `pump` a device flow between its own.
A token is read before the request and the request may be answered after the account is gone;
a listing's page writes the account row's own next task, and `settle` writes its row whatever
became of the account. Rates are what the response said of the budget.

`stuck` is history: the rows a refused write left running. `crossed` is history: whether two
connections or a disconnect met, which is the exception `SecretIsTheAccounts` makes.

Left out: the evaluators that settle runs after its write, the alert, `connect_pat`, time (a clock
comes or has not).

### Identity and Library

`Identity` is the index (`projects`, `locations`) and one operator per function of
`core/src/identity` that decides or writes: `Decide`, `CreateOrHydrate`, `ResolveIdentity`,
`ClaimRemovedRow`, `UpsertLocation`, `HandOff`, `IngestListing`, `Relocate`,
`CommitRemoval`. A repository is its lineage, its remote and its common directory; a remote is a
host, an owner and a name, and `Fold` is the alias folding a listing is matched under. Merged projects are
left out: no part of the program sends `projects.merge`, so every project is live.

`Library` is what runs over it. A walk's worker classifies a directory (`Look`: where its common directory
lies), probes it later (`Probe`: lineage and remote of whatever is there by then, both with nothing
locked) and only then decides the pair against the index of that moment (`HandOffFound`); an
install's tail is `CloneLands`, `CloneProbed`, `CloneIndexed`. The presence pass reads the rows in one
transaction and writes each in its own; a rename answer is for a project id read before the request;
an uninstall reads, analyses, looks again, moves the directory and only then writes. The command
loop is busy while it uninstalls (`removal.pc = "none"` guards its other commands); the scan, an
install's tail and the sync thread are not. `Put` is the user: clones, linked worktrees, moves and
deletions, at any time. Listings and rename probes are the one sync thread's, so no listing is
written while a probe is asked (`asked = None` guards `Ingest`).

`emptied` is history: the projects whose last copy a find gave to another (`upsert_location` moves a
row whose repository changed). `hydrate` refuses a project that earned git XP; of the emptied ones
some did and some did not, so a find that would hydrate one may land or be refused (`Lands`).

### Restore

`Identity` again, under an index that is thrown away and rebuilt from the document: a project's
record is keyed on what its row says its first copy was (`Subject`), a `Rebuild` stages the records,
and each hand-off claims those of its project (`Claimed`). An award is one retained row, held back
while a record may still come (`AwaitingRestore`); `of` is history, the copy it was paid for.

### Install

A run is its row, its token, its thread's `pc` and its reason. `handle_start` composes a destination
that is free on disk and in the index; two starts before either lands therefore compose the same, and
with it the same `staging` directory. `inFlight` and `waiting` are `InstallQueue`, which holds no
thread back; a start whose commit is refused has no row and no thread and keeps its place there. A run is
`cloning` while git runs, for as long as git likes. `Occupy` is a directory the user makes at the destination, `Fault` a write or a removal
that fails, `Crash` the core's death, after which rows and directories stay as they were.

### Debt and ContentScan

`Debt` is the index as one record: the copies, the scan row and its cursor, the blob cache, the items
and the sweep row per source, the switches, the grant and whether the project is enrolled or archived.
Its operators are the functions of `debt/`, `health/`, `restoration/` and `j7_markers.rs` that decide
or write: `Observe` with its three rules, `Pays`, `OutcomeAtRoot`, `MarkRootUnobserved`, `BuildItems`,
`EvaluateSingletons`, `WriteEnumeration`, `CommitChunk`, `LayerValue` and the `Deltas` a write may
record. Two sources stand for the nine: `"todo"`, found in blobs, and `"readme"`, decided by what the
last enumeration stored. A tree is the blobs of its filtered entries in path order.

`ContentScan` is who calls them. A run of J7 takes the index's lock for one read or one write at a time,
and each is a step: `J7Begins`, `J7ReadsCursor`, `J7ReadsGates`, `J7ReadsHead`, and for a complete
head `J7ReadsSweep` and `J7Restarts`; then `J7ReadsTree` (git is given whatever HEAD is by then) and
`J7Enumerates`, or `J7TreeFails` and `J7NotRead`; `J7ReadsCache` (what the cache lacks of the window),
`J7ReadsBlobs` or `J7BlobsFail`, with no lock held, `J7Commits`, which writes by the gates read before,
and `Settle`. Every other actor comes between any two, and the index may refuse each (`J7Refused`). `deltas` are
the `health_delta` rows of the step, `paid` the sources on the receipt of the day's `debt_day` row. All
of it is within one local date. Beside it run the walk, the page that
enrols, an uninstall, the grant, the switches, the archive, commits, copies that leave and return,
failing git, refused writes and a crash.

`steady` is history. The count of pending blobs is right only while nothing of `Disturbs` happened,
and the exceptions are the finding and the list at the end of section 3: one claim holds always
(`NothingClosesAway`), two only while steady (`ClosedIsGone`, `EarnedIsGone`).

Left out: reference projects and N/A checks, the byte budget of a chunk (a window is read whole), the
amount on the day's receipt and its cap, the jobs that touch none of this, the queue's order (`JobScheduler` has it).

## 3. The runs

Every property of a passing run has a mutant in `PROJECT.json`; TLC finds the property violated in it.

| Run | Question | States |
|---|---|---|
| `topic_stream` | Do overflow, resubscription, late frames and a relaunch keep the stream whole, and does a quiet shell catch up? | 1.3 M |
| `jobs` | Are slots, caps and chains right while views queue work, runs fail, a read or a settle is refused, a copy goes and caps move; is each take within its store's cap; do retries and the queue end? | 0.9 M |
| `supervisor` | A write and a read, crashes, failing spawns or another protocol, a rebuild, a quit: is a write ever replayed, do loops, quits and requests end? | 0.4 M |
| `session` | Two sessions, of one project or of two, or one through every threshold; crash, clock jump, refused writes, a deaf watch, an error of the watcher: is each second evidenced and paid once, are ends observed, is a quiet session closed, an edit heard by the oldest of its worktree? | 6 M |
| `index_recovery` | Two corruptions, a failing step, a death anywhere, clean shutdowns: is anything lost, repeated or left behind? | 3.9 M |
| `sync` | A disconnect, a device flow, refused writes, a restart, every rate: is work tried, are parks kept, is a secret its account's? | 0.1 M |
| `library` | Scan, installs, listings, renames, moves, removals over what each read before: is the index one tile per repository, and does a removed row stay its project's? | 3.0 M |
| `restore` | After rebuilds and other walks, does what was earned come home, and do records come back? | 1.0 M |
| `install` | Three starts of one destination, failing and cancelled and dying: is *done* true, is staging cleared, does each end though a clone may hang? | 0.6 M |
| `install_half` | Is the destination never half written? **No.** | - |
| `content_scan` | Does a copy that left close nothing, is nobody credited for what nobody fixed, is a closed item gone, is withdrawn evidence read again? | 0.5 M |
| `content_scan_covered` | Has a complete scan read every blob of its head? **No.** | - |

### What they show

**Topic streams.** `ImplementsFeed` is the refinement of section 2. `NoGap`: the `gap` branch of
`acceptFrame` is never taken on frames of the current epoch. `CatchesUp` needs its hypothesis: a
shell that keeps asking fills the writer with responses, which wait for room, and deltas do not.

**Job pool.** `SlotsCountHolders` equates the four counters with the workers that hold a slot.
`WithinCaps` says what the caps mean when they may drop under running jobs, and `TakesWithinStoreCap` that a
take stays within the cap its store has at that moment. `ChainsGoOn`: a settled job's follow-up is queued,
running or has a row; after a refused read or settle, and of a project that lost a job to the removal of its copy (`dropped`), both of which lose it by design,
nothing is said. `QueueDrains`: the queue empties, or the pool is stopping.

**Supervision.** `NeverReplayed`: no write takes effect twice. `CrashLoopStops`: two crashes in a
window leave no restart scheduled. `StopEnds`, `LaneSettles`, `SentIsSettled`: the quit, the lane and
every request a core was sent come to an end.

**Sessions.** `CreditIsEvidenced`: every credited second has an input behind it. `UnaskedEndIsNotNow`:
an idle or orphaned end is never stamped when the core noticed. `FocusIsTheUnion`: the seconds paid
per day are the union of the counted segments, in whatever order they closed. `EditsAreHeard`: the
next tick signals a session whose worktree was edited, if it is the oldest live one there and none that shared the
worktree has ended; an edit behind an error of the watcher is the tick's after that. Of the others it says
nothing, and the code does nothing for them (`WatchedIsHeard`, end of this section). `ClosedCreditIsTheSum` survives refusals
and jumps. `ClosesInTime`: once no input counts any more and both idle times have passed, a session
without a process is closed, by the tick or, after a crash, by the next start.

**Index.** `SavedIsNotLost`: what a readable document has carried is in the index, waiting in it, or
in the document - over a second corruption while records still wait. Its one exception, `torn`, is
below. `AppliesOnce`, `CorruptIsKept` (no journal of a corrupt file is ever left beside a sound one,
to be replayed into it), `UndoneLeavesAsFound` (the directory is equal to what the start found).

**Sync.** `AskedIsTried` is the interesting one: an ask that lands between the thread's look at the
inbox and its store of the flag is not lost, though nothing but the next poll finds it. `RunningIsHeld`:
a row reads running only while the thread holds it, refused writes excepted. `ParksAreKept`,
`InFlightIsTried`, and `SecretIsTheAccounts` as long as no two connections cross.

**Library.** `StrongIdentityIsUnique`, `NoTileBesideItsClone`: what identity promises of lineage, remote and
listing, under any order of finds and listings, of every project but those in `emptied`: what the
code does with these is the divergence of `hydrate` below. `RemovedRowsAreKept`: another repository at the path
of a removed copy takes neither its row nor its project.

**Restore.** `RowsComeHome` and `RecordsComeBack` hold of repositories that are their own family -
no copy without its remote, no change while the record waited. `SubjectsSurvive`, which asks for
the rest, does not hold; see below.

**Install.** `DoneHasItsRow` and `EndedRunsLeaveNoClone`, with up to three runs in one staging
directory. `StartsEnd`: a start ends, or its clone hangs and nobody cancels it; a clone that hangs keeps
no other start from ending, and a cancel ends it.

**Content scan.** `NothingClosesAway`: whatever left, was uninstalled or came back since a run read,
an item is closed only by a complete sweep of the very copy it was seen at, present in that
transaction. `EarnedIsGone`: while nothing disturbs the scans, a `health_delta` records a fall only down to
what the head that was read really owes, and the day is paid for a source only when an item of it is really
gone; doubt, a copy that leaves, another copy's tree, an enrolment, a switch, the archive and half a tree earn nothing. Disturbed,
they may (`PaidIsGone`, end of this section). `ClosedIsGone`: an undisturbed
scan closes no item that is in the tree it read. `ReturnedIsRescanned`: a copy that came back is read
again at an unchanged head.

### The two disagreements with a run

- **Starts of one destination share its staging directory** (`install_half`). `queue.rs:47-49`
  promises "**Capacity one in flight** ... never concurrently, because two clones under one root
  would contend for the same staging directory", and `run.rs:172-174` that "there is no window in
  which the destination is half written". `install_start_arm` (`assembly/mod.rs:559`) starts a thread
  per start, and the queue holds none back. It takes three starts: run 1 clones whole; run 2's git
  refuses the staging directory, which is not empty, and the clean-up of that failure removes it
  with run 1's clone; run 3 begins a clone there, and run 1's rename takes run 3's half clone to the
  destination. Two do not suffice: one whose git refuses it begins no clone.
- **A scan reads complete with blobs that were never read** (`content_scan_covered`). `j7_markers.rs:640`
  says of `Complete` that "Every filtered blob at `head_oid` has a cache row", and line 60 that a NULL
  count is "*not enumerated*, never 0". A failed `ls-tree` of a new head stores NULL in
  `blobs_pending`; the retry of the same head keeps it (line 140); the first chunk takes
  `coalesce(NULL, 0)` to 0 and the head is complete. Items of blobs past the first chunk (512 in the
  code) are then closed as fixed, and paid.

### Disagreements met without a run

Each is a step of a model (or a step it leaves out) that a comment words differently. The first nine
are stated as properties in the modules, and TLC violates them; the runs are kept for what holds.

- **A snapshot may be older than it says** (`SnapshotCoversItsDeltas`). `dispatch.rs:174` reads the
  rows, then `supply_snapshot` stamps them with the newest sequence number. A delta emitted in
  between is removed from the queue as covered and is not in the rows; the shell shows the old row
  until the next change (`client.ts:51` says it does not).
- **Two copies share three attempts** (`ThreeAttempts`). The row is per project and kind
  (`scheduler.rs:308`), J1 and J2 run per copy, so failures add up across copies (`state.rs:9`).
- **A request asked in the backoff is in no epoch** (`PendingDiesWithItsEpoch`). `client.ts:87`
  neither sends nor rejects it; it hangs until some later core dies (`supervisor.ts:83`).
- **A quit in the backoff starts a core** (`QuitLeavesNoCore`). `stopAndWait` answers `not-running`;
  the timer at `supervisor.ts:275` does not look at `stopping` (`index.ts:698`).
- **A park on the budget may not end** (`ParksEnd`). `budget.rs:211` says that past the reset the
  request is what refreshes the mirror, and that the answer is Spend; `may_spend` answers Reserved
  whenever something, but less than the reserve, remains, past the reset too.
- **A copy may be called missing while it stands** (`MissingIsGone`). `presence.rs:165` calls missing
  "gone from a store that was reachable"; an install that finishes while a scan crosses it has
  generation 0 and is not in the walk's finds.
- **A subject does not survive a rebuild** (`SubjectsSurvive`, on `MCRestore`'s `WalkedTwice`).
  `index/subject.rs:4-8` says lineage and remote are "recomputed from the repository". They are read
  from the project's row, which only `create` and `hydrate` write, from the copy found first. With a
  clone and a copy of it without its remote, another walk order gives the project another subject
  and its record waits for ever.
- **A project that had copies is taken for one never cloned.** `hydrate.rs:105` says its update takes
  `lineage_key` from NULL to the observed key, since a not-cloned project "has never had a commit read
  from it", and `store.rs` that no project loses a location without another gaining it. Neither looks:
  a project whose copies all went to another by `upsert_location`, and that has no git XP, is offered
  to `hydrate`, which overwrites its lineage; another project then shows that lineage and remote
  without a flag. TLC reaches it in fifteen steps of a busier scenario than the run's (four moves,
  three scans); it is why the two invariants except `emptied`.
- **A day may be paid for markers nobody removed** (`PaidIsGone`, on `MCContentScan`'s `Regranted`).
  `debt/store.rs:97` says of `Fixed` that "A complete, comparable sweep no longer saw the item: the user acted, and
  it pays". The user takes the grant back after a second chunk's run has read its gates and blobs and
  before it commits: `revoke_content_scan` deletes every cached blob and sets `blobs_pending` to NULL
  (`jobs/content_scan.rs:245-253`), the chunk takes that to 0 and completes the head, and the occurrences of
  the sweep are this chunk's alone. The first chunk's items are closed as fixed and the day's row is written.
- **A session hears no edits beside an older one** (`WatchedIsHeard`, on `MCSessionLedger`'s `Untroubled`).
  `watch.rs:37` promises "a recursive watch per live session", and `watch.rs:47-49` every path "grouped by
  session". `Pending::absorb` gives a path to the first session whose root contains it (`watch.rs:97`), and
  `unwatch` (`watch.rs:164-168`) takes the OS watch of the root away with the first session to end. Two launches
  and an edit show it.
- The count of pending blobs goes wrong in other ways, all in `Disturbs`, and a scan then reads
  complete early: a grant revoked and given again at one head, or an archive and its undoing in the
  middle of a scan; a crash or a refused settle between a chunk and its cursor, so that the chunk
  counts twice; HEAD moving between J1 and the enumeration; two runs at once. A project has one scan
  row and one cursor for all its copies: a copy with nothing left to read settles *done* and clears
  the other's cursor, which then counts its entries again; and two copies at different heads, each of
  more than a chunk, restart each other for ever. A cursor of the old head that survives a failed run
  leaves the new head's count above zero for ever. Revoking the grant lets a run in flight still write
  its blobs, and close items at a copy that is still there (`surfaces/settings.rs:200` says turning it off "**deletes what it wrote**"). `DebtStore::reap` has no
  production caller.
- `pubsub.rs:3` says overflow is replaced by a snapshot; the timeout arm (`dispatch.rs:164`) flushes
  without answering the request, so the deltas go out one by one and the queue outgrows high water.
- `scheduler.rs:249` says a job whose copy was removed does not run; the check and the run are apart
  (`scheduler.rs:237`).
- `supervisor.ts:216` lets a hello read after a fatal exit show *ready* over *failed*.
- `supervisor.ts:248`: a rebuild pressed before the exit of a core killed at its hello counts that
  exit as the new core's, forgets the new core and may leave it running. If a spawn fails after
  that, `CrashLoopStops` and `SentIsSettled` do not hold; hence a scenario has one kind of trouble,
  failing spawns or another protocol.
- `wire.rs:48` says an error with no outcome "definitely did not take effect"; `commands/launch.rs:271`
  returns one after the process was spawned.
- `manager.rs:316`: after two refused transactions a watermark spans an idle gap, and recovery
  credits it, where `orphan.rs:8` says "It invents nothing."
- `manager.rs:269`: a refused stop leaves an ended machine over an open row, and the next stop is
  answered Ok (`manager.rs:203`).
- `segment.rs:213` credits a sleep whole; `segment.rs:250` speaks of at most twenty minutes.
- `watch.rs:171`: the drain is `while let Ok(Ok(event))`, so one error of notify ends it and what was reported
  behind the error waits for the next tick, where `watch.rs:47` says "Every distinct path seen since the last call".
- `index/mod.rs`: a death between a migration's commit and `stamp_schema_mirror` makes every later
  start refuse with `VersionMirrorMismatch`. A death between the set-aside and the swap leaves no
  index.db; the next start makes an empty one, whose first export replaces the document
  (`rebuild.rs:4-6`; `torn` in the model). A death between the document's rename and its
  generation's record gives two documents of one generation.
- `sync/runner.rs:348`: `idle` clears `signalled` and never reads it, so a signal before the wait is
  lost and an ask then waits for the minute's poll. `requeue` (`surfaces/repair.rs`) resets rows
  and signals nobody. A take whose transaction is refused has already emptied the inbox. A settle
  whose write is refused leaves the row running until a restart. `blocked` is left only by a
  disconnect.
- A disconnect that crosses a device flow's grant leaves a secret without a row or a row without one
  (`accounts/pump.rs:289`). A listing in flight then writes its row again for an account that is gone.
- A clone has no deadline (`gitw/intent.rs:521-529`), and `gitw/exec.rs:524-552` waits for it until it ends or is
  cancelled. A start whose commit is refused leaves its id in `InstallQueue`.
- `install/run.rs:126` says a failure leaves "nothing outside the staging directory"; one after the
  rename leaves the destination. `InstallQueue::finish` of a run not in flight does nothing, and the
  `next` it returns is discarded. `sweep_staging` has no production caller, so after a crash the row
  stays *running*. `staging_warrant_for` mints the current session's nonce, so its check never refuses.
- `identity/`: a directory replaced in place is attached to the old project through `worktree_owner`. Relocation
  leaves the common directory. `handle_merge`, `mark_root_unscanned` and any write of
  `project.removed_at` have no production caller.
- A removed row may be reclaimed by a scan that probed the directory before it went to the trash.
- When one live project holds a subject, every record on it is that project's, so of two projects
  with one subject the first found again takes the other's record (`pending.rs:204`).

## 4. Bounds, and why they are enough

Bounds are constants, or fields of a scenario chosen in `Init`; every one sits in a guard.

- **TopicStream**: two workers, one key, three versions, `HighWater` and `Capacity` one, `MaxInbox`
  two, `MaxEpoch` two. Two workers already reorder emissions of one key; queues of one make overflow
  and a full writer the common case; two epochs are a crash with frames left over.
- **JobScheduler**: two workers, one location, one store with a cap that moves between 1 and 2,
  `GlobalCap` 8 (J4's share is then 2, so that the limit per store is what keeps two apart), one refused
  read or settle, one ask, one chunk of J7. Two workers and a retry are enough to run one piece of work
  twice; the proofs cover the rest.
- **CoreSupervisor**: three `Scenarios`, each with one kind of trouble, its requests, two faults and a
  window or a rebuild; `MaxEpoch` five follows from them. Two faults are a crash loop, and a third
  start needs a window or a rebuild. One write and one read.
- **SessionLedger**: the code's 15 s tick, 2 min claim and 20 min segment become 1, 2 and 5 units, the
  smallest numbers for which `mod.rs:46`'s two compile-time relations hold (the module assumes them);
  the 60 min of a session count from its last segment's close, and 1 unit is enough. `SomeBudgets` has one
  session for twelve units, past every threshold, with a crash; two sessions of any projects for five, with a crash,
  a clock jump, or a refused transaction and a refused watch; and two sessions on one worktree, with a jump and a
  crash, or with an error of the watcher. Projects are symmetric. A tick waits for its time.
- **IndexRecovery**: a project and the settings, two schema versions, two decisions, three exports, two
  corruptions (the second while records of the first still wait), one failing step, one death and any
  number of clean shutdowns. A decision is a number and records are matched per item, so more
  items add no interaction.
- **SyncRunner**: the two tasks and one account, `MaxConnects` one, and one of three `Budgets`: two
  device flows, a flow and a listing's page, or a flow with one refused write and one restart; every rate.
- **Library**: two paths, six repositories (one under two spellings of its remote, a fork, a stranger
  under the same remote, a copy without a remote, an empty clone), four listings, four scenarios of
  at most three moves, two scans, two listings, and one each of relocation, uninstall, install
  and death. The two paths are symmetric: they differ in name alone. A scan holds one directory in hand and the index moves between; two paths are a copy and where it goes.
- **Restore**: three paths, three scenarios (two unborn repositories, a linked worktree, a clone and its
  copy), two corruptions, two exports.
- **ContentScan**: two copies, two heads whose trees are three entries at a chunk of two, so that a
  scan takes two chunks; two markers in one head, of which the other keeps one. One worker: its chunks,
  settles and everybody else's steps interleave; two runs at once are a disturbance of their own. Three
  budgets: a move, a leave and two walks; two choices; or a fault, a refusal and a crash - each
  after the page was opened once. `content_scan_covered` has one fault and nothing else.
- **Install**: one destination, three runs, and one each of cancel, occupied directory, fault and death; `install_half`
  has three runs and nothing else.
  Three is the least number in which one run's failure clears what a second wrote for the
  third to find; the proofs cover the rest.

`CHECK_DEADLOCK FALSE` is said wherever a bound or the system itself ends: a pool stops, a shell quits,
time and budgets run out. `TopicStream` and `SyncRunner` never stop, and deadlock is checked there.

## 5. Fairness

- **TopicStream**: weak fairness of the loop, the readers of the pipe, each worker's emit and the
  relaunch: scheduled threads and an event loop. No commit, request or crash is assumed.
- **JobScheduler**: weak, of each worker, of the two producers that are half way through, and of a
  backoff's end: `wait_timeout` re-examines the queue at least every 250 ms.
- **CoreSupervisor**: weak, of each core, of reading each pipe, of each exit report, of the restart
  timer and of the stop deadline. That a core greets is the fairness of its process: the shell has no
  timer for it, so `LaneSettles` is only as good as that.
- **SyncRunner**: weak, of the thread, its start, the poll (a timed wait), a command's and a grant's
  second step, and clocks and budgets coming round. Strong, of looking at the flag, which the thread
  does between any two polls, a minute apart; and of taking each runnable task, since of one priority
  the oldest deadline goes first. Nobody has to ask, connect or stop.
- **ContentScan**: weak, of each worker, as in the job pool. No walk, page or commit is assumed: the
  claim starts from a copy that was handed off.
- **Install**: weak, of each thread, except while its clone runs and nobody has cancelled it: a clone has no
  deadline (`gitw/intent.rs:521-529`) and is waited for as long as it runs (`gitw/exec.rs:524-552`); only a cancel
  is sure to end it. The probe of the indexing has a deadline.
- **SessionLedger, IndexRecovery, Library, Restore**: none; they check what a step may never do.
  `ClosesInTime` needs none, since it counts in the pump's time: a tick waits for its time, and
  time for the tick.

## 6. Proofs

Eight modules hold theorems about all ten models with a behaviour (and, through them, about the
operators of `Identity` and `Debt`), each for every value of the constants that the named assumptions of the
model allow; `tlapm` checks every proof to its last leaf. Every invariant, action property and
refinement of the runs is a theorem; liveness is not. `Install` and `Restore` prefix `Init`, `Next`, `Spec` and
the like with their name, so that one module can speak of two models.

| Module | Theorem | States |
|---|---|---|
| `TopicStream_proofs` | `SpecTypeOK` | `Spec => [](TypeOK /\ EpochsFit)` |
| | `SpecNoGap` | `Spec => []NoGap` |
| | `SpecImplementsFeed` | `Spec => ImplementsFeed` |
| `JobScheduler_proofs` | `TypeCorrect` | `Spec => []TypeOK` |
| | `SlotsAreCounted` | `Spec => []SlotsCountHolders` |
| | `CapsHold` | `Spec => []WithinCaps` |
| | `TakesAreCapped` | `Spec => TakesWithinStoreCap` |
| | `NothingQueuedTwice` | `Spec => []NoWorkQueuedTwice` |
| | `ChainsAreKept` | `Spec => []ChainsGoOn` |
| `SessionLedger_proofs` | `SpecTypeOK` | `Spec => []TypeOK` |
| | `CreditIsTheSum` | `Spec => []ClosedCreditIsTheSum` |
| | `PaidIsTheDaysUnion` | `Spec => []FocusIsTheUnion` |
| | `EditsReachTheTick` | `Spec => EditsAreHeard` |
| | `CreditHasItsInput` | `Spec => []CreditIsEvidenced` |
| | `UnaskedEndsAreEarlier` | `Spec => []UnaskedEndIsNotNow` |
| | `QuietSessionsClose` | `Spec => []ClosesInTime` |
| `CoreAndInstall_proofs` | `SpecTypeOK` | `Spec => [](TypeOK /\ StartsCounted)` |
| | `SpecNeverReplayed` | `Spec => []NeverReplayed` |
| | `SpecCrashLoopStops` | `Spec => []CrashLoopStops` |
| | `SpecDoneHasItsRow` | `InstallSpec => []DoneHasItsRow` |
| | `SpecEndedRunsLeaveNoClone` | `InstallSpec => []EndedRunsLeaveNoClone` |
| `IndexRecovery_proofs` | `SpecTypeOK` | `Spec => [](TypeOK /\ Found)` |
| | `SpecCorruptIsKept` | `Spec => []CorruptIsKept` |
| | `SpecAppliesOnce` | `Spec => []AppliesOnce` |
| | `SpecSavedIsNotLost` | `Spec => []SavedIsNotLost` |
| | `SpecUndoneLeavesAsFound` | `Spec => UndoneLeavesAsFound` |
| `SyncAndRestore_proofs` | `SpecTypeOK` | `Spec => [](TypeOK /\ OthersTyped /\ HandFitsLoop)` |
| | `SpecRunningIsHeld` | `Spec => []RunningIsHeld` |
| | `SpecSecretIsTheAccounts` | `Spec => []SecretIsTheAccounts` |
| | `SpecParksAreKept` | `Spec => ParksAreKept` |
| | `SpecRestoreTypeOK` | `RestoreSpec => []RestoreTypeOK` |
| | `SpecRowsComeHome` | `RestoreSpec => []RowsComeHome` |
| | `SpecRecordsComeBack` | `RestoreSpec => []RecordsComeBack` |
| `Library_proofs` | `SpecTypeOK` | `Spec => []TypeOK` |
| | `SpecRemovedRowsAreKept` | `Spec => RemovedRowsAreKept` |
| | `SpecStrongIdentityIsUnique` | `Spec => []StrongIdentityIsUnique` |
| | `SpecNoTileBesideItsClone` | `Spec => []NoTileBesideItsClone` |
| `ContentScan_proofs` | `SpecTypeOK` | `Spec => []TypeOK` |
| | `SpecNothingClosesAway` | `Spec => NothingClosesAway` |
| | `SpecClosedIsGone` | `Spec => ClosedIsGone` |
| | `SpecEarnedIsGone` | `Spec => EarnedIsGone` |

### The arguments

**TopicStream.** `EpochsFit` is what the launches leave room for: without it `TypeOK` is not inductive,
since `Launch` writes the pipe of the next epoch. `NoGap` speaks of the frame the shell reads next, so
the invariant, `NoGapAhead`, is of all that are on their way: there are numbers a, b, c such that the
shell has seen at least a, the frames in the pipe lead from a to b without a gap (`Chain`), the
queued ones from b to c, and the next number follows c. What a queue leads to is a recursion over it;
as a `RECURSIVE` operator is out of reach, `Numbering` gives instead the function from places to
numbers whose existence says the same, and each way a queue changes - append, take the head, keep only
the snapshots, replace by one, lose all - is a lemma that builds the new function from the old. A
snapshot may follow anything, which is why an overflow, a resubscription or a death never needs
to know what was lost.

`SpecImplementsFeed` is the refinement of `TopicFeed` under the mapping of `TopicStreamFeed`, initial states and
every step. What is coming is a fold of the unread frames with the client's own `Verdict`; the lemmas say what
appending, taking, dropping and moving frames does to a fold, by induction on their number. The induction is over a set of
naturals that has 0 and with each number the next, since the library's own theorem takes an operator. A step of
the stream is then the feed's telling, showing or dropping, its turning on or off, or leaves all three of its variables alone.

**SessionLedger.** Two of the properties are of the rows alone: `Balanced` says that a closed session's
credit is the sum over its segments, that what was paid for a day is the union of its counted segments (each close pays
the difference its segment makes), and that an open segment counts nothing yet. Every transaction keeps it; the recovery's, which
closes any number of sessions and segments, by induction over the segments of a session and then over the sessions. What
a handler needs for that is `Follows`: a live session has a row that is open, and its segment, if any, is its own and open.

That a tick hears of an edit needs `WatchInv`: a live session with a root watches its own worktree, that root
has its OS watch unless a session that shared it has ended (`watch.outlived`), and then each batch of `edited`
that names the session has its worktree in the same batch of the channel: errors cut both at the same places, so the
first batch is what the drain takes. That the path is then given to this session and no other on the root
is `Alone`, the property's own condition.

The other three are matters of time, and hold of every session on its own, alone on its worktree or not. `TimeInv` says, until
a clock jumped, a transaction was refused or the watcher erred, how far behind the clocks everything is: `OnTime`, the two
clocks and the last and next tick; `MachineFits`, where a machine's last evidence lies, that its credit ends there, and that every second up to
the idle close it is due is evidenced; `InTime`, that the last tick had no reason to close it; the edit, claim and signal that wait to be
heard, which have evidence for as long as they may still be used; `Accounted`, that what the rows say has
evidence; and `EndsWithCredit`. None of these is inductive alone: an idle end is evidenced because the machine was in time,
which it is because the tick came, which came because the pump's time stops for it. The invariant was checked by TLC on the run's
instance, and on one whose tick is coarser than its claims, before it was proved.

**JobScheduler.** For any finite set of workers. `IInv` is the types, that a worker past its take
carries a job (`Carrying`), and `SlotsInv`, that each counter is the cardinality of the set of workers
holding it. `TypeOK` alone is not inductive: `release` reads the job a worker carries. `WithinCaps`
alone is not either: a release that saturates at zero could hide a slot given twice, so the
counters must be known to be exact, and then the caps follow from the guard of the one action that
adds a holder. The rest is the arithmetic of adding one worker to, or taking one from, a set.
`NoWorkQueuedTwice` has an invariant of its own, since only `Push` can break it. `ChainsInv` adds to
`ChainsGoOn` the worker between its settle and the last of its follow-ups: its own kind has a row, what
it has left to queue is exactly what follows it, and one that releases without following up has
marked its project `dropped`. A push that replaces a queued job keeps its kind and project, a
take moves it from the queue to a worker, and a parked job is queued again.

**CoreSupervisor.** `StartsCounted` is the number of starts made and scheduled against first start,
rebuilds and crashes that can still restart; from it each epoch is within its bound. `WrittenOnce`: a request's
copies in all inboxes are one, and it has not acted while that one is unread - a fact about pairs
of places in pairs of pipes, kept because a request is written only when it is asked. `CrashInv`
adds to `CrashLoopStops` that, unless the shell is stopping, the core whose exit is owed is the current one and
no restart is scheduled beside it (`OneCore`): so the second crash of a window finds no timer. It is proved for the
scenarios whose cores speak the shell's protocol, as the property says.

**IndexRecovery.** `IInv` is `FilesInv /\ ContentInv /\ Kept`. `FilesInv` is of files: what is open while a
core is where it is (`Opened`), how what is set aside is numbered (`AsideBefore`), and, for a rebuild,
`Found`: the acts its undo list records (`Recorded`) lead from the directory it found to the one there is
(`Undoable`), which spells out the five lists there can be. A failed rebuild therefore
leaves the directory it found. `ContentInv` is of records: every index that opens and every document that
reads is tidy, and, unless a death fell between set-aside and swap, what a document has carried is
known to it, to a sound index and to the one about to be swapped in (`Carried`). A migration may be undone by restoring its
backup, so `Opened` says the backup has the same content. `Kept` numbers the corrupt files.

**SyncRunner.** `RunningIsHeld` needs that the row of the task in hand is as the take left it, or went with its
account (`HeldIsRunning`); that again needs that only the thread's own steps are taken with a task in hand
(`HandFitsLoop`). `SecretFollows` says where the secret is between the two halves of a connect and of a
disconnect, as long as none have crossed. `ParksAreKept` is an action property: one step for each action, from `HeldIsRunning`.

**Library.** For any paths, repositories, listings, aliases and scenarios. `Inv` is `TypeOK /\ Sound(db)`:
copies belong to projects there are. Since every thread works from what it read before the index was
locked, the argument is about the operators of `Identity`, for any find, listing, row or project id
whatever: resolving and creating only add projects (`Grown`), and what a find is attached to is live
in the index it is written to. `RemovedRowsAreKept` is then a lemma per operator
(`RowsKept`, or the claim of a removed row, which asks for the lineage of the row's own project).

The two tile invariants are proved together, as `TilesInv`. A listed project without a copy is bound, has no lineage
and has its remote (`ListedOnly`), and is apart from every other on its remote (`BareApart`); two projects of one lineage and
remote are apart (`LineagesApart`); *apart* is: bound to two forge ids, or both flagged. None is inductive alone. A find that
creates a project must know that no project of its lineage and remote is there, and that every bare tile on its remote was
a candidate to hydrate (`Unlike`); a hydration writes a lineage on a bare tile, and `BareApart` says what
becomes its twin; a find that takes a project's last copy makes it bare with a lineage, which is `emptied`. `AskedIsUnbound`
is why a rename answer never gives a bound project a second id.

That a non-empty set of naturals has a least member (`LeastNatural`), on which "the first match"
rests, is the well-foundedness of their order.

**Restore.** For any paths, repositories, scenarios, and any order of walks. Both properties speak of what is on disk now, so
`RestoreInv` says how the index and every record stand to the disk. A family's copies - a repository and its linked
worktrees - are in one project (`FamiliesTogether`); hence a copy never changes its project, every
project keeps one, and no find is hydrated into a bare row (`ProjectsAreHeld`). A project's lineage is that of
one of its copies; so a repository of its own shares no project, and its project has its lineage and remote
(`AloneStandAlone`). The records' half: one that names a repository of its own names nothing else and is on
its subject (`RecordFits`), what is in the index under `of` is with its project (`EarnedInv`), and what waits has not been found
(`WaitingInv`). A hand-off keeps them because a project on such a subject has that copy, and the project with that
copy is its only holder (`SubjectFinds`, `AloneHolds`). Nothing becomes a repository of its own later:
a lineage or a remote it got while known to the index or a record is in `moved` (`DiskMoves`).

**Install.** For any destinations and any bounds on runs, cancels, faults and deaths. The invariant is
`Shape /\ Writers /\ Marks /\ Landed /\ Cleared`. `DoneHasItsRow` speaks of the row alone; that a
thread about to mark a row done has indexed its copy is `Marks`. That an ended run leaves no clone is
a matter of who wrote what staging holds: `Writers` says it was a run that exists (runs are
numbered, and grow as they start), `Landed` that a run past its rename has nothing there any more, and
`Cleared` that, as long as no step failed and no core died, neither has one that is past its clean-up.
`Shape` types the run records and bounds the budgets those two rest on.

**ContentScan.** For any finite sets of copies and of workers, and any heads, trees, markers, chunk
and budgets. `TypeOK` is inductive here and is all `NothingClosesAway` needs: that what a run has read may be stale does not
matter, because the copy is looked at again in the transaction that closes. So the argument is one
lemma per operation of `Debt`. Each either keeps every item's key and copy (`KeepsItems`: doubting,
withdrawing, enumerating, restarting, caching, revoking, switching off, enrolling), or closes an item
only as `ClosesThere` allows; the two that do, `BuildItems` and `EvaluateSingletons`, end in `Observe`
with an outcome that went through `OutcomeAtRoot`. A step of `Next` is then a step of one of them, or
keeps the items.

`ClosedIsGone` speaks of the time before anything disturbs a scan (section 3 lists what does). Its
invariant, `ScanCounts`, is that one worker has a scan, that a chunk reads the tree of the head the row is of,
and that the row is *honest* (`Counted`) where a run stands, where the next would start, and where one about
to write the cursor got to: as many of the entries before that place as the row has counted down, counted
back from it, are in the cache. A row that counts down to nothing has therefore everything in the cache, wherever
its runs began: a cursor left over from another head makes a row count too little, never too much.
The completing chunk then sees every key of the tree, and closes none of them.

`EarnedIsGone` needs the same invariant and what an observation does to a source's items. What a sweep saw is among
them afterwards (`ObserveFinds`); a layer's value is only known to fall when the sweep was complete and
left nothing in doubt (`FallsAreWhole`), and then the keys are exactly those it saw (`ObserveLeaves`); and
the day is paid only over a closed key, which it did not see (`SawEarns`). What is seen is by `ScanCounts` what the
head owes: a chunk's commit that completes sees the whole tree (`CommitSees`), and a settle judges the README of the
head its row is of (`SettleSees`).

### What the proofs changed in the models

Four attempts failed for a reason in the model, and each was a statement the instance was too small to
refute: `ChainsGoOn` is false of a project that lost a job to a removal once its copy is found again
(a third ask reaches it), hence `dropped`; a listing could be written while a probe was asked,
which the one sync thread cannot do, and gave one project two forge ids; `StrongIdentityIsUnique` is
false of a project that lost its last copy to a find, hence `emptied`; and several `CASE`s had arms that
overlapped, which TLC reads in order and logic does not (`Verdict`, `Decide`, `IngestListing`,
`ClaimRemovedRow`). A few
assumptions were left unsaid: that bounds are numbers, that a listing has a remote and an id, that
the workers are finitely many.

`SessionLedger` was corrected where time mattered, which the run's tick of one unit could not tell: a launch is evidence, and
`ClosesInTime` waits, a tick's period less one longer than was written, since it is a tick that notices; a tick
is assumed no longer than a session's idle time; and after two refusals and a jump back of the clock a segment's end is no day of the instance, which the type had
said. `Restore` had left unsaid that a linked worktree has its repository's lineage. Where a theorem
needed a fold or a sum, a `RECURSIVE` operator became a recursive function.

### What is only model-checked

Liveness: `CatchesUp`, `QueueDrains`, `StopEnds`, `LaneSettles`, `SentIsSettled`, `AskedIsTried`, `InFlightIsTried`,
`StartsEnd` and `ReturnedIsRescanned`, which with fairness and `ENABLED` are out of TLAPS's reach. Nothing else the
passing runs check lacks a theorem.

## 7. Not modelled, and next

Left for later, in this order, because each has state that two actors share:

1. `GitSlots` (`git/slots.rs:115-180`): counters, cancellation and the interactive preference, under
   which one waiting interactive read holds back background reads of every store - starvation for as long as it
   waits, at most: a cancelled waiter is counted out, and who holds a slot waits for no other.
2. `ProjectionFeed` (`bridge.ts`, `coalesce.ts` and the projections) over `TopicFeed`: events wait
   16 ms in the coalescer and responses do not.
3. The WSL pool (`wsl/conn.rs`, `dispatch.rs`, `deploy.rs`). Read, and three things stand out: a
   worker that died stays in the pool's map; a frame that does not parse is skipped, so its caller
   waits on, holding the worker's mutex; `get` may race `shutdown_all` and leave a worker. But
   `WslGitBackend` and `shutdown_all` have no production caller yet, so there is no program to
   compose them with.
4. The other seven debt sources, N/A and reference projects in `ContentScan`, the amount of a day's payout and
   its cap (`debt/xp.rs`), and the XP ledger's floor and level over the awards.
5. Two runs of J7 at once in `content_scan`: the model has the steps, the instance one worker.

Not modelled, and not planned: the git child processes, HTTP, the keychain, the trash and the
file dialogs (external I/O, whose outcomes are choices in the models); queries, deletion analysis,
completion, art and condition values (pure functions of what is stored); windows, updates, the React views
(presentation and platform); build scripts and recorded acceptance evidence.

Within the modelled parts, these hazards are known and not covered: a head frame refused for its
size rather than for room blocks its topic (`pubsub.rs:272`); a topic that overflows on the timeout
arm waits for the next request (`dispatch.rs:164`); a hello read after its core's exit
(`supervisor.ts:216`); a job queue that lives in memory, so that a dead core's work waits for the next
walk (`queue.rs:127`); a machine that sleeps in a segment is credited the sleep (`segment.rs:213`).
Those that have a property the model violates are listed in section 3.

Theorems still worth proving: that `NothingQueuedTwice` survives a second copy of a project, once the model has one; and
that the payout of a day over all debt sources stays within its cap, when item 4 is modelled.
