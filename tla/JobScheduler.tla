------------------------------ MODULE JobScheduler ------------------------------
(***************************************************************************)
(* The job pool: the queue and slot table behind one mutex (jobs/queue.rs),*)
(* the workers that take, run, settle and release (jobs/scheduler.rs), and *)
(* the durable row per project and kind (jobs/state.rs).                   *)
(*                                                                         *)
(* The walk and the user's views queue jobs; a settled job queues its      *)
(* follow-ups; a transient failure parks the job behind a backoff.         *)
(*                                                                         *)
(* Abstracted: time is whether a parked job is due yet; what a job reads   *)
(* and writes is its outcome and, for J1.5, whether the project is         *)
(* Reference; origin, reasons and elapsed times are left out.              *)
(***************************************************************************)
EXTENDS Integers, Sequences, FiniteSets

CONSTANTS
    Workers,
    Projects,
    Locations,      \* copies on disk
    ProjectOf,      \* the project a location belongs to
    Stores,
    StoreOf,        \* the store a location sits on
    ClassCaps,      \* the values StoreClass::per_store_cap takes
    DefaultStoreCap,\* DEFAULT_STORE_CAP
    GlobalCap,      \* global_cap()
    Outcomes,       \* bound: the outcomes a run of each kind may have
    MaxRefusals,    \* bound: reads and writes of the index that are refused
    Removable,      \* bound: the locations the user may remove
    MayStop,        \* bound: whether the core may shut down
    MaxAsks,        \* bound: times the walk or the user queues something
    MaxChunks       \* bound: chunk boundaries of one location's J7

Kinds == {"j1", "j1_5", "j2", "j3", "j4", "j5", "j6", "j7"}
PerLocation == {"j1", "j2"}         \* JobKind::scope: the others are the project's
AllOutcomes == {"done", "transient", "hard", "partial"}

ASSUME ProjectOfAssumption == ProjectOf \in [Locations -> Projects]
ASSUME StoreOfAssumption == StoreOf \in [Locations -> Stores]
ASSUME ClassCapsAssumption == ClassCaps \subseteq Nat \ {0} /\ DefaultStoreCap \in ClassCaps
ASSUME GlobalCapAssumption == GlobalCap \in Nat \ {0}
ASSUME WorkersAssumption == IsFiniteSet(Workers)
ASSUME BoundsAssumption ==
    /\ Outcomes \in [Kinds -> SUBSET AllOutcomes] /\ MaxRefusals \in Nat
    /\ Removable \subseteq Locations /\ MayStop \in BOOLEAN /\ MaxAsks \in Nat /\ MaxChunks \in Nat

VARIABLES
    ready,      \* JobQueue: the queued jobs, oldest sequence number first
    inFlight,   \* SlotState.in_flight
    j4InFlight, \* SlotState.j4_in_flight
    used,       \* SlotState.stores: jobs in flight per store key
    cap,        \* SlotState.stores: the cap per store key
    j4Used,     \* SlotState.j4_stores
    indexed,    \* the J1 the walk has yet to queue for the row it wrote
    visible,    \* the jobs on_visible has left to queue
    stopping,   \* Shared.stopping
    at,         \* where a worker is
    job,        \* the job a worker took, or NoJob
    result,     \* the outcome of its run
    prev,       \* the row it loaded before it settled
    todo,       \* the jobs it has left to queue before it releases
    row,        \* project_job_state: [state, fails] per project and kind
    reference,  \* what J1.5 wrote of a project: unknown, yes or no
    removed,    \* the locations the user has removed
    asks,       \* pushes the environment has made
    chunks,     \* chunk boundaries each location's J7 has had
    refusals,   \* reads and writes of the index refused
    strikes,    \* history: consecutive transient failures of one location's J1 or J2
    dropped     \* history: the projects one of whose jobs was dropped before it ran

queueVars == <<ready, inFlight, j4InFlight, used, cap, j4Used>>
indexVars == <<row, reference, removed>>
boundVars == <<asks, chunks, refusals, strikes, dropped>>
vars == <<queueVars, indexed, visible, stopping, at, job, result, prev, todo, indexVars, boundVars>>

-----------------------------------------------------------------------------
(* Jobs, rows and the queue.                                                 *)

\* Priority: Interactive 0, RefState 1, Authorship 2, Standard 3, Reference 4, Deferred 5.
Priorities == 0..5
StoreKeys  == {"git", "art"} \X Stores
MaxTransientFails == 3

Job == [kind : Kinds, loc : Locations, store : StoreKeys, class : ClassCaps,
        prio : Priorities, due : BOOLEAN]
NoJob == [kind |-> "none"]

\* art_store_key: a card takes a slot keyed apart from the repository's own.
StoreKeyFor(kind, loc) == <<IF kind = "j5" THEN "art" ELSE "git", StoreOf[loc]>>

NewJob(kind, loc, class, prio) ==
    [kind |-> kind, loc |-> loc, store |-> StoreKeyFor(kind, loc), class |-> class,
     prio |-> prio, due |-> TRUE]

RowStates == {"none", "queued", "ok", "failed", "deferred_slow"}
Fresh == [state |-> "none", fails |-> 0]

\* A key that forgets the kind.
SameLocation(a, b) == a.loc = b.loc

SameWork(a, b) == a.kind = b.kind /\ a.loc = b.loc
QueuedAt(q, j) == {i \in DOMAIN q : SameWork(q[i], j)}

\* JobQueue::push: an equal or better entry stays; a worse one is replaced in its place, so
\* a better priority keeps the sequence number it had.
Push(q, j) ==
    IF QueuedAt(q, j) = {} THEN Append(q, j)
    ELSE LET i == CHOOSE i \in QueuedAt(q, j) : TRUE
         IN  IF q[i].prio <= j.prio THEN q ELSE [q EXCEPT ![i] = j]

Without(q, i) == SubSeq(q, 1, i - 1) \o SubSeq(q, i + 1, Len(q))

\* SlotState::new: a quarter of the global cap, and at least one.
J4Cap == IF GlobalCap \div 4 = 0 THEN 1 ELSE GlobalCap \div 4

TakesJ4Slot(j) == j.kind = "j4"

\* can_take without the per-store limit on J4.
CanTakeManyJ4(j) ==
    /\ inFlight < GlobalCap
    /\ used[j.store] < cap[j.store]
    /\ TakesJ4Slot(j) => j4InFlight < J4Cap

\* can_take that lets a store one past its cap.
CanTakeOneMore(j) ==
    /\ inFlight < GlobalCap
    /\ used[j.store] <= cap[j.store]
    /\ TakesJ4Slot(j) => j4InFlight < J4Cap /\ j4Used[j.store] < 1

\* SlotState::can_take.
CanTake(j) ==
    /\ inFlight < GlobalCap
    /\ used[j.store] < cap[j.store]
    /\ TakesJ4Slot(j) => j4InFlight < J4Cap /\ j4Used[j.store] < 1

\* The entries pop_ready may choose: past their backoff, with a slot free.
Eligible(q) == {i \in DOMAIN q : q[i].due /\ CanTake(q[i])}

\* The one it chooses: the best band, and the oldest of it.
Chosen(q, i) ==
    /\ i \in Eligible(q)
    /\ \A k \in Eligible(q) : q[i].prio < q[k].prio \/ (q[i].prio = q[k].prio /\ i <= k)

Less(n) == IF n = 0 THEN 0 ELSE n - 1

-----------------------------------------------------------------------------
(* Outcomes.                                                                 *)

Saturated(n) == IF n > MaxTransientFails THEN MaxTransientFails ELSE n

\* apply_outcome without its ceiling on retries.
ApplyOutcomeForever(r, outcome) ==
    CASE outcome = "done"      -> [state |-> "ok", fails |-> 0]
      [] outcome = "partial"   -> [r EXCEPT !.state = "queued"]
      [] outcome = "transient" -> [state |-> "queued", fails |-> Saturated(r.fails + 1)]
      [] outcome = "hard"      -> [state |-> "failed", fails |-> Saturated(r.fails + 1)]

\* apply_outcome: the row to persist.  Degraded is a Done with a reason.  The count is read
\* only against MAX_TRANSIENT_FAILS, so it stops there.
ApplyOutcome(r, outcome) ==
    CASE outcome = "done"      -> [state |-> "ok", fails |-> 0]
      [] outcome = "partial"   -> [r EXCEPT !.state = "queued"]
      [] outcome = "transient" ->
           [state |-> IF r.fails + 1 >= MaxTransientFails THEN "deferred_slow" ELSE "queued",
            fails |-> Saturated(r.fails + 1)]
      [] outcome = "hard"      -> [state |-> "failed", fails |-> Saturated(r.fails + 1)]

\* apply_outcome's requeue: at once after a chunk, parked after a transient failure.
Requeues(outcome, r) == outcome = "partial" \/ (outcome = "transient" /\ r.state = "queued")

\* next_jobs_after: the kinds and bands to queue once `kind` is done.
NextJobsAfter(kind, ref) ==
    LET band == IF ref = "yes" THEN 4 ELSE 3
    IN  CASE kind = "j1"   -> <<<<"j1_5", 2>>>>
          [] kind = "j1_5" -> <<<<"j2", band>>, <<"j3", band>>, <<"j4", 5>>>>
                                  \o (IF ref = "no" THEN <<<<"j7", 5>>>> ELSE <<>>)
          [] kind = "j3"   -> <<<<"j6", 5>>, <<"j5", 5>>>>
          [] OTHER         -> <<>>

\* What settle queues: the job again, or the follow-ups of a job that is done.
FollowUps(j, outcome, r, ref) ==
    IF Requeues(outcome, r) THEN <<[j EXCEPT !.due = outcome = "partial"]>>
    ELSE IF r.state # "ok" THEN <<>>
    ELSE LET next == NextJobsAfter(j.kind, ref)
         IN  [i \in DOMAIN next |-> NewJob(next[i][1], j.loc, j.class, next[i][2])]

-----------------------------------------------------------------------------
(* The pool's two producers: JobRunner::enqueue and its callers.             *)

\* enqueue: the store's cap is whatever class the caller resolved last.
Enqueue(j) ==
    /\ cap' = [cap EXCEPT ![j.store] = j.class]
    /\ ready' = Push(ready, j)

Current(loc) == loc \notin removed

Asked ==
    /\ asks < MaxAsks
    /\ asks' = asks + 1
    /\ UNCHANGED <<inFlight, j4InFlight, used, j4Used, stopping, at, job, result, prev, todo,
                   chunks, refusals, strikes, dropped>>

\* The command loop queues what a view asks for while it holds the index.
IndexFree == visible = <<>>

\* index_one, install::run: the location's row is written, which takes back a removal of the copy
\* found again, and the index is let go ...
HandOff(loc, class) ==
    /\ Asked
    /\ IndexFree
    /\ indexed = <<>>
    /\ indexed' = <<NewJob("j1", loc, class, 1)>>
    /\ removed' = removed \ {loc}
    /\ UNCHANGED <<ready, cap, visible, row, reference>>

\* on_location_indexed: ... then its J1 is queued.
LocationIndexed ==
    /\ indexed # <<>>
    /\ Enqueue(Head(indexed))
    /\ indexed' = <<>>
    /\ UNCHANGED <<inFlight, j4InFlight, used, j4Used, visible, stopping, at, job, result, prev, todo,
                   indexVars, boundVars>>

\* on_visible: a tile, an opened page or a Peek; removed copies are not asked for.  Its two or
\* three jobs are queued one enqueue at a time.
LocationVisible(loc, class, needsArt, wantsContent) ==
    /\ Asked
    /\ Current(loc)
    /\ IndexFree
    /\ visible' = <<NewJob("j2", loc, class, 0)>>
                     \o (IF needsArt THEN <<NewJob("j5", loc, class, 0)>> ELSE <<>>)
                     \o (IF wantsContent THEN <<NewJob("j7", loc, class, 3)>> ELSE <<>>)
    /\ UNCHANGED <<ready, cap, indexed, indexVars>>

EnqueueVisible ==
    /\ visible # <<>>
    /\ Enqueue(Head(visible))
    /\ visible' = Tail(visible)
    /\ UNCHANGED <<inFlight, j4InFlight, used, j4Used, indexed, stopping, at, job, result, prev, todo,
                   indexVars, boundVars>>

\* The user removes a copy: its row is marked in a transaction of the command loop's.
RemoveLocation(loc) ==
    /\ loc \in Removable
    /\ Current(loc)
    /\ IndexFree
    /\ removed' = removed \cup {loc}
    /\ UNCHANGED <<queueVars, indexed, visible, stopping, at, job, result, prev, todo, row, reference, boundVars>>

\* reset_for: the user's confirmation or merge revives a project's deferred and failed rows; it
\* queues nothing.
ResetRows(p) ==
    LET given == {k \in Kinds : row[p][k].state \in {"deferred_slow", "failed"}}
    IN  /\ IndexFree
        /\ given # {}
        /\ row' = [row EXCEPT ![p] = [k \in Kinds |->
                     IF k \in given THEN [state |-> "queued", fails |-> 0] ELSE row[p][k]]]
        /\ UNCHANGED <<queueVars, indexed, visible, stopping, at, job, result, prev, todo, reference, removed,
                       boundVars>>

\* A parked retry's backoff runs out.
Due(i) ==
    /\ i \in DOMAIN ready
    /\ ~ready[i].due
    /\ ready' = [ready EXCEPT ![i].due = TRUE]
    /\ UNCHANGED <<inFlight, j4InFlight, used, cap, j4Used, indexed, visible, stopping, at, job, result, prev, todo,
                   indexVars, boundVars>>

RequestStop ==
    /\ MayStop
    /\ ~stopping
    /\ stopping' = TRUE
    /\ UNCHANGED <<queueVars, indexed, visible, at, job, result, prev, todo, indexVars, boundVars>>

-----------------------------------------------------------------------------
(* A worker: take_next, then dispatchable, execute, settle and release.      *)

Goto(w, from, to) == at[w] = from /\ at' = [at EXCEPT ![w] = to]

\* SlotState::take.
TakeSlot(j) ==
    /\ inFlight' = inFlight + 1
    /\ used' = [used EXCEPT ![j.store] = @ + 1]
    /\ j4InFlight' = IF TakesJ4Slot(j) THEN j4InFlight + 1 ELSE j4InFlight
    /\ j4Used' = IF TakesJ4Slot(j) THEN [j4Used EXCEPT ![j.store] = @ + 1] ELSE j4Used

\* A release that gives back the global slot and the store's only.
ReleaseSlotKeepingJ4(j) ==
    /\ inFlight' = Less(inFlight)
    /\ used' = [used EXCEPT ![j.store] = Less(@)]
    /\ UNCHANGED <<j4InFlight, j4Used>>

\* SlotState::release.
ReleaseSlot(j) ==
    /\ inFlight' = Less(inFlight)
    /\ used' = [used EXCEPT ![j.store] = Less(@)]
    /\ j4InFlight' = IF TakesJ4Slot(j) THEN Less(j4InFlight) ELSE j4InFlight
    /\ j4Used' = IF TakesJ4Slot(j) THEN [j4Used EXCEPT ![j.store] = Less(@)] ELSE j4Used

\* take_next: pop the chosen job and take its slots, under the one mutex.
Take(w) ==
    /\ ~stopping
    /\ Goto(w, "take", "check")
    /\ \E i \in DOMAIN ready :
         /\ Chosen(ready, i)
         /\ job' = [job EXCEPT ![w] = ready[i]]
         /\ TakeSlot(ready[i])
         /\ ready' = Without(ready, i)
    /\ UNCHANGED <<cap, indexed, visible, stopping, result, prev, todo, indexVars, boundVars>>

Exit(w) ==
    /\ stopping
    /\ Goto(w, "take", "exited")
    /\ UNCHANGED <<queueVars, indexed, visible, stopping, job, result, prev, todo, indexVars, boundVars>>

\* dispatchable: a removed copy's job is dropped, and J5 reads no copy.
Dispatchable(j) == j.kind = "j5" \/ Current(j.loc)

\* It reads the index, and runs nothing when the read is refused.
Check(w) ==
    /\ IndexFree
    /\ \/ /\ Goto(w, "check", "run")
          /\ Dispatchable(job[w])
          /\ UNCHANGED <<refusals, dropped>>
       \/ /\ Goto(w, "check", "release")
          /\ job[w].kind # "j5"
          /\ dropped' = dropped \cup {ProjectOf[job[w].loc]}
          /\ \/ ~Dispatchable(job[w]) /\ UNCHANGED refusals
             \/ refusals < MaxRefusals /\ refusals' = refusals + 1
    /\ UNCHANGED <<queueVars, indexed, visible, stopping, job, result, prev, todo, indexVars,
                   asks, chunks, strikes>>

\* What a run of the job may come to: only J7 stops at a chunk boundary.
OutcomeOf(j) ==
    {o \in Outcomes[j.kind] : o = "partial" => j.kind = "j7" /\ chunks[j.loc] < MaxChunks}

\* execute: git runs without a lock, then run_one writes what the job owns.
Run(w) ==
    /\ Goto(w, "run", "load")
    /\ \E o \in OutcomeOf(job[w]) :
         /\ result' = [result EXCEPT ![w] = o]
         /\ chunks' = IF o = "partial" THEN [chunks EXCEPT ![job[w].loc] = @ + 1] ELSE chunks
         /\ strikes' = IF job[w].kind \in PerLocation
                       THEN [strikes EXCEPT ![job[w].loc][job[w].kind] =
                               IF o = "transient" THEN Saturated(@ + 1) ELSE 0]
                       ELSE strikes
         /\ IF o = "done" /\ job[w].kind = "j1_5"
            THEN \E a \in {"yes", "no"} :
                   reference' = [reference EXCEPT ![ProjectOf[job[w].loc]] = a]
            ELSE UNCHANGED reference
    /\ UNCHANGED <<queueVars, indexed, visible, stopping, job, prev, todo, row, removed, asks, refusals,
                   dropped>>

\* settle reads the row in one transaction, and takes a refused read for no row ...
Load(w) ==
    /\ IndexFree
    /\ Goto(w, "load", "settle")
    /\ \/ /\ prev' = [prev EXCEPT ![w] = row[ProjectOf[job[w].loc]][job[w].kind]]
          /\ UNCHANGED refusals
       \/ /\ refusals < MaxRefusals
          /\ refusals' = refusals + 1
          /\ prev' = [prev EXCEPT ![w] = Fresh]
    /\ UNCHANGED <<queueVars, indexed, visible, stopping, job, result, todo, indexVars,
                   asks, chunks, strikes, dropped>>

\* ... and writes it in another, which may be refused; what follows is decided by the row it
\* computed either way.
Settle(w) ==
    LET p == ProjectOf[job[w].loc]
        r == ApplyOutcome(prev[w], result[w])
    IN  /\ IndexFree
        /\ Goto(w, "settle", "follow")
        /\ \/ row' = [row EXCEPT ![p][job[w].kind] = r] /\ UNCHANGED refusals
           \/ refusals < MaxRefusals /\ refusals' = refusals + 1 /\ UNCHANGED row
        /\ todo' = [todo EXCEPT ![w] = FollowUps(job[w], result[w], r, reference[p])]
        /\ UNCHANGED <<queueVars, indexed, visible, stopping, job, result, prev, reference, removed, asks,
                       chunks, strikes, dropped>>

\* settle queues its follow-ups one enqueue at a time.
Follow(w) ==
    /\ todo[w] # <<>>
    /\ Goto(w, "follow", "follow")
    /\ Enqueue(Head(todo[w]))
    /\ todo' = [todo EXCEPT ![w] = Tail(@)]
    /\ UNCHANGED <<inFlight, j4InFlight, used, j4Used, indexed, visible, stopping, job, result, prev, indexVars,
                   boundVars>>

\* A job that was dropped, or has nothing left to queue, gives its slot back.
Release(w) ==
    /\ todo[w] = <<>>
    /\ at[w] \in {"follow", "release"}
    /\ at' = [at EXCEPT ![w] = "take"]
    /\ ReleaseSlot(job[w])
    /\ job' = [job EXCEPT ![w] = NoJob]
    /\ result' = [result EXCEPT ![w] = "none"]
    /\ prev' = [prev EXCEPT ![w] = Fresh]
    /\ UNCHANGED <<ready, cap, indexed, visible, stopping, todo, indexVars, boundVars>>

-----------------------------------------------------------------------------
Init ==
    /\ ready = <<>>
    /\ inFlight = 0 /\ j4InFlight = 0
    /\ used = [k \in StoreKeys |-> 0]
    /\ cap = [k \in StoreKeys |-> DefaultStoreCap]
    /\ j4Used = [k \in StoreKeys |-> 0]
    /\ indexed = <<>>
    /\ visible = <<>>
    /\ stopping = FALSE
    /\ at = [w \in Workers |-> "take"]
    /\ job = [w \in Workers |-> NoJob]
    /\ result = [w \in Workers |-> "none"]
    /\ prev = [w \in Workers |-> Fresh]
    /\ todo = [w \in Workers |-> <<>>]
    /\ row = [p \in Projects |-> [k \in Kinds |-> Fresh]]
    /\ reference = [p \in Projects |-> "unknown"]
    /\ removed = {}
    /\ asks = 0
    /\ chunks = [l \in Locations |-> 0]
    /\ refusals = 0
    /\ strikes = [l \in Locations |-> [k \in PerLocation |-> 0]]
    /\ dropped = {}

Work(w) ==
    \/ Take(w) \/ Exit(w) \/ Check(w) \/ Run(w) \/ Load(w)
    \/ Settle(w) \/ Follow(w) \/ Release(w)

Next ==
    \/ \E l \in Locations, c \in ClassCaps : HandOff(l, c)
    \/ LocationIndexed
    \/ \E l \in Locations, c \in ClassCaps, art, content \in BOOLEAN :
          LocationVisible(l, c, art, content)
    \/ EnqueueVisible
    \/ \E l \in Locations : RemoveLocation(l)
    \/ \E p \in Projects : ResetRows(p)
    \/ \E i \in DOMAIN ready : Due(i)
    \/ RequestStop
    \/ \E w \in Workers : Work(w)

\* Worker threads are scheduled, a run ends (git is bounded or cancelled), and backoffs run out.
Fairness ==
    /\ \A w \in Workers : WF_vars(Work(w))
    /\ WF_vars(LocationIndexed) /\ WF_vars(EnqueueVisible)
    /\ WF_vars(\E i \in DOMAIN ready : Due(i))

Spec == Init /\ [][Next]_vars /\ Fairness

-----------------------------------------------------------------------------
(* Properties.                                                               *)

Places == {"take", "check", "run", "load", "settle", "follow", "release", "exited"}

\* Every variable keeps to its type: the one type invariant of the module.
TypeOK ==
    /\ ready \in Seq(Job)
    /\ inFlight \in Nat /\ j4InFlight \in Nat
    /\ used \in [StoreKeys -> Nat]
    /\ cap \in [StoreKeys -> ClassCaps]
    /\ j4Used \in [StoreKeys -> Nat]
    /\ indexed \in Seq(Job)
    /\ visible \in Seq(Job)
    /\ stopping \in BOOLEAN
    /\ at \in [Workers -> Places]
    /\ job \in [Workers -> Job \cup {NoJob}]
    /\ result \in [Workers -> AllOutcomes \cup {"none"}]
    /\ prev \in [Workers -> [state : RowStates, fails : 0..MaxTransientFails]]
    /\ todo \in [Workers -> Seq(Job)]
    /\ row \in [Projects -> [Kinds -> [state : RowStates, fails : 0..MaxTransientFails]]]
    /\ reference \in [Projects -> {"unknown", "yes", "no"}]
    /\ removed \subseteq Locations
    /\ asks \in 0..MaxAsks
    /\ chunks \in [Locations -> 0..MaxChunks]
    /\ refusals \in 0..MaxRefusals
    /\ strikes \in [Locations -> [PerLocation -> 0..MaxTransientFails]]
    /\ dropped \subseteq Projects

\* The workers that hold a slot, and those of them on one store or on J4.
Holders      == {w \in Workers : at[w] \notin {"take", "exited"}}
HoldersOf(k) == {w \in Holders : job[w].store = k}
J4Holders    == {w \in Holders : job[w].kind = "j4"}
J4HoldersOf(k) == {w \in J4Holders : job[w].store = k}

\* queue.rs:70: however workers, requeues and caps that move under them interleave, no more
\* than the global cap of workers run jobs, no more than a quarter of it (and at least one)
\* run J4, and no two run J4 on one store.
WithinCaps ==
    /\ Cardinality(Holders) <= GlobalCap
    /\ Cardinality(J4Holders) <= J4Cap
    /\ \A k \in StoreKeys : Cardinality(J4HoldersOf(k)) <= 1

\* The slot table counts the workers: nothing a worker does on the way, a drop, a refused
\* settle or a requeue, leaks a slot or gives one back twice.
SlotsCountHolders ==
    /\ inFlight = Cardinality(Holders)
    /\ j4InFlight = Cardinality(J4Holders)
    /\ \A k \in StoreKeys : /\ used[k] = Cardinality(HoldersOf(k))
                            /\ j4Used[k] = Cardinality(J4HoldersOf(k))

\* A worker that takes a job is within the cap its store has at that moment.
TakesWithinStoreCap ==
    [][ \A w \in Workers, k \in StoreKeys :
          (at[w] = "take" /\ at'[w] = "check" /\ job'[w].store = k)
              => Cardinality(HoldersOf(k)') <= cap[k] ]_vars

\* queue.rs:140: nothing is queued twice for the same kind and location, whatever chains,
\* retries and views pushed.
NoWorkQueuedTwice ==
    \A i, k \in DOMAIN ready : SameWork(ready[i], ready[k]) => i = k

\* Some job of the kind is queued, held by a worker, or about to be queued for the project.
Pending(p, kind) ==
    LET isIt(j) == j.kind = kind /\ ProjectOf[j.loc] = p
    IN  \/ \E i \in DOMAIN ready : isIt(ready[i])
        \/ \E w \in Holders : isIt(job[w]) \/ \E n \in DOMAIN todo[w] : isIt(todo[w][n])

\* A chain is not lost: once a job of a project is recorded as done, each of the jobs that
\* follow it has a row of its own or is still coming, whatever other pushes it met in the queue
\* and whatever copies were removed and found again.  (A job dropped with its copy ends its
\* chain, and so may a read or a settle the index refused: this is for projects none of whose
\* jobs was dropped, while nothing was refused.)
ChainsGoOn ==
    \A p \in Projects \ dropped, k \in Kinds :
        row[p][k].state = "ok" /\ refusals = 0
            => \A n \in DOMAIN NextJobsAfter(k, "unknown") :
                   LET next == NextJobsAfter(k, "unknown")[n][1]
                   IN  row[p][next].state # "none" \/ Pending(p, next)

\* Whatever is queued is eventually run or dropped, parked retries and follow-ups included, and
\* every slot is given back, unless the pool is told to stop.
QueueDrains == (ready # <<>>) ~> ((ready = <<>> /\ Holders = {}) \/ stopping)

\* state.rs:9: "Three attempts, then `deferred_slow`": a job is deferred on the third
\* consecutive transient failure of that job and not before.
ThreeAttempts ==
    [][ \A w \in Workers : (at[w] = "settle" /\ at'[w] = "follow" /\ result[w] = "transient"
                              /\ job[w].kind \in PerLocation
                              /\ row'[ProjectOf[job[w].loc]][job[w].kind].state = "deferred_slow")
            => strikes[job[w].loc][job[w].kind] >= MaxTransientFails ]_vars
=============================================================================
