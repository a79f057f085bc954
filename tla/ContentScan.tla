---------------------------- MODULE ContentScan ----------------------------
(***************************************************************************)
(* J7, the content scan of core/src/jobs/j7_markers.rs, and the debt that  *)
(* is built from it, over one project's copies: the job workers run it a   *)
(* chunk at a time, each chunk one transaction and its settle another,     *)
(* while HEAD moves, copies leave and come back, the user opens the page,  *)
(* uninstalls, archives, switches a check or takes the grant back, git     *)
(* fails, writes are refused and the core dies.                            *)
(*                                                                         *)
(* A run holds the index's lock for one read or one write at a time, and   *)
(* reads git with no lock held: each is a step, and the tree it is given   *)
(* is of whatever HEAD is then.  J1 reads and stores HEAD in one step, and *)
(* J1.5 and the jobs that touch none of this are left out of the chain;    *)
(* JobScheduler has the queue and the pool.  All of it is within one local *)
(* date.                                                                   *)
(***************************************************************************)
EXTENDS Debt

CONSTANTS Workers,
          Chunk,        \* J7_CHUNK_BLOBS
          Budgets       \* bound: how often each event may happen, one member a behaviour

ASSUME ScanAssumption ==
  /\ Chunk \in Nat \ {0} /\ IsFiniteSet(Workers)
  /\ Budgets \subseteq [moves : Nat, leaves : Nat, opens : Nat, walks : Nat, choices : Nat,
                        faults : Nat, refusals : Nat, crashes : Nat]

VARIABLES
  db,       \* the index: Debt's record, with the job row's cursor
  disk,     \* each copy: where it is, and its HEAD
  queue,    \* jobs queued, <<kind, copy>>
  run,      \* what each worker is at
  deltas,   \* the health_delta rows of the step's own transaction
  paid,     \* the sources on the receipt of the day's debt_day row, or {} without one
  budget,   \* what may still happen
  steady    \* nothing that Disturbs a scan has happened yet

vars == <<db, disk, queue, run, deltas, paid, budget, steady>>

Free == [step |-> "free"]
Done == [is |-> "done"]
Partial(n) == [is |-> "partial", cursor |-> n]
Transient == [is |-> "transient"]
HardFail == [is |-> "failed"]

Spend(what) == budget[what] > 0 /\ budget' = [budget EXCEPT ![what] = @ - 1]
NothingEarned == deltas' = NoDeltas /\ UNCHANGED paid

(* What a transaction that closes items records with them: how far the     *)
(* layers fell, and the day's receipt.                                     *)
Earns == deltas' = Deltas(db, db') /\ paid' = paid \cup Pays(db, db')

(* A project classified by an earlier pass and never content-scanned.      *)
Init ==
  /\ \E h \in Heads :
       /\ db = [loc |-> [c \in Copies |-> [presence |-> "present", removed |-> FALSE,
                                           head |-> None]],
                newest |-> Preferred, scan |-> NoScan, cursor |-> None, cache |-> {},
                items |-> [src \in Sources |-> {}], sweep |-> [src \in Sources |-> NoSweep],
                on |-> Sources, granted |-> TRUE, enrolled |-> FALSE, archived |-> FALSE]
       /\ disk = [c \in Copies |-> [place |-> "present", head |-> h]]
  /\ queue = {}
  /\ run = [w \in Workers |-> Free]
  /\ deltas = NoDeltas /\ paid = {}
  /\ budget \in Budgets
  /\ steady = TRUE

Is(w, step) == run[w].step = step
Here(c) == disk[c].place = "present"

-----------------------------------------------------------------------------
(* A worker takes a job whose copy is current, and begins it.              *)

LocationIsCurrent(c) == ~db.loc[c].removed

Settling(kind, c, outcome, at) ==
  [step |-> "settle", kind |-> kind, copy |-> c, outcome |-> outcome, since |-> at]

TakeStale(w, job) ==
  /\ Is(w, "free") /\ job \in queue
  /\ ~LocationIsCurrent(job[2])
  /\ queue' = queue \ {job}
  /\ NothingEarned /\ UNCHANGED <<db, disk, run, budget>>

(* J1: HEAD as git reads it.                                               *)
J1(w, c) ==
  /\ Is(w, "free") /\ <<"J1", c>> \in queue
  /\ LocationIsCurrent(c)
  /\ queue' = queue \ {<<"J1", c>>}
  /\ IF Here(c)
     THEN /\ db' = [db EXCEPT !.loc[c].head = Some(disk[c].head)]
          /\ run' = [run EXCEPT ![w] = Settling("J1", c, Done, TRUE)]
     ELSE /\ run' = [run EXCEPT ![w] = Settling("J1", c, HardFail, TRUE)]
          /\ UNCHANGED db
  /\ NothingEarned /\ UNCHANGED <<disk, budget>>

Gates == [granted |-> db.granted, suppressed |-> Suppressed(db)]
ReadsBlobs(gates) == gates.granted /\ ~gates.suppressed

CompleteAt(h) == ScanComplete(db) /\ db.scan.head = h

(* Mutant: an unchanged head vouches for the evidence too. *)
WithdrawnNever(c) == FALSE

Withdrawn(c) == db.sweep["todo"].outcome = "unobservable" /\ Observable(db, c)

CursorOrdinal == IF db.cursor = None THEN 0 ELSE db.cursor[1]

(* run_j7, from the job that is current: what it has read so far.          *)
Started(c) ==
  [step |-> "cursor", copy |-> c, since |-> TRUE, from |-> 0, head |-> None, tree |-> None,
   gates |-> [granted |-> FALSE, suppressed |-> FALSE], reads |-> {}, outcome |-> Done]

J7Begins(w, c) ==
  /\ Is(w, "free") /\ <<"J7", c>> \in queue
  /\ LocationIsCurrent(c)
  /\ queue' = queue \ {<<"J7", c>>}
  /\ run' = [run EXCEPT ![w] = Started(c)]
  /\ NothingEarned /\ UNCHANGED <<db, disk, budget>>

OnlyReads == NothingEarned /\ UNCHANGED <<db, disk, queue, budget>>

Ends(w, outcome) ==
  run' = [run EXCEPT ![w] = Settling("J7", @.copy, outcome, @.since)]

J7ReadsCursor(w) ==
  /\ Is(w, "cursor")
  /\ run' = [run EXCEPT ![w] = [@ EXCEPT !.step = "gates", !.from = CursorOrdinal]]
  /\ OnlyReads

J7ReadsGates(w) ==
  /\ Is(w, "gates")
  /\ run' = [run EXCEPT ![w] = [@ EXCEPT !.step = "head", !.gates = Gates]]
  /\ OnlyReads

(* The head comparison: a complete head is read again only for evidence    *)
(* that was withdrawn, and a moved one from the start.                     *)
J7ReadsHead(w) ==
  /\ Is(w, "head")
  /\ LET h == db.loc[run[w].copy].head
         moved == db.scan # NoScan /\ db.scan.head # h
     IN \/ /\ h = None \/ (CompleteAt(h) /\ ~ReadsBlobs(run[w].gates))
           /\ Ends(w, Done)
        \/ /\ h # None /\ (CompleteAt(h) => ReadsBlobs(run[w].gates))
           /\ run' = [run EXCEPT ![w] =
                [@ EXCEPT !.step = IF CompleteAt(h) THEN "withdrawn" ELSE "tree",
                          !.head = h[1], !.from = IF moved THEN 0 ELSE run[w].from]]
  /\ OnlyReads

J7ReadsSweep(w) ==
  /\ Is(w, "withdrawn")
  /\ \/ ~Withdrawn(run[w].copy) /\ Ends(w, Done)
     \/ /\ Withdrawn(run[w].copy)
        /\ run' = [run EXCEPT ![w] = [@ EXCEPT !.step = "restart"]]
  /\ OnlyReads

J7Restarts(w) ==
  /\ Is(w, "restart")
  /\ db' = RestartScan(db)
  /\ run' = [run EXCEPT ![w] = [@ EXCEPT !.step = "tree", !.from = 0]]
  /\ NothingEarned /\ UNCHANGED <<disk, queue, budget>>

(* The enumeration, of HEAD as it is now.                                  *)
J7ReadsTree(w) ==
  /\ Is(w, "tree") /\ Here(run[w].copy)
  /\ run' = [run EXCEPT ![w] =
        [@ EXCEPT !.step = "enumerate", !.tree = disk[run[w].copy].head]]
  /\ OnlyReads

(* git failed: a copy that is away is a hard failure, a busy repository or *)
(* an exceeded budget a transient one.                                     *)
J7TreeFails(w) ==
  /\ Is(w, "tree")
  /\ \E outcome \in {HardFail, Transient} :
       /\ \/ outcome = HardFail /\ ~Here(run[w].copy) /\ UNCHANGED budget
          \/ outcome = Transient /\ Spend("faults")
       /\ run' = [run EXCEPT ![w] = [@ EXCEPT !.step = "not_read", !.outcome = outcome]]
  /\ NothingEarned /\ UNCHANGED <<db, disk, queue>>

J7NotRead(w) ==
  /\ Is(w, "not_read")
  /\ db' = WriteEnumeration(db, run[w].head, "not_read", None)
  /\ Ends(w, run[w].outcome)
  /\ NothingEarned /\ UNCHANGED <<disk, queue, budget>>

Window(w) ==
  {i \in DOMAIN Tree[run[w].tree] : run[w].from < i /\ i <= run[w].from + Chunk}
Wanted(w) == {Tree[run[w].tree][i] : i \in Window(w)} \ db.cache

(* Its answers are stored before any blob is read.                         *)
J7Enumerates(w) ==
  /\ Is(w, "enumerate")
  /\ LET h == run[w].tree IN
     db' = WriteEnumeration(db, run[w].head,
                            IF h \in HasReadme THEN "present" ELSE "absent", Some(Len(Tree[h])))
  /\ run' = [run EXCEPT ![w] =
        [@ EXCEPT !.step = IF Window(w) = {} THEN "commit" ELSE "cache"]]
  /\ NothingEarned /\ UNCHANGED <<disk, queue, budget>>

(* What the cache lacks of the window, and then the blobs themselves.      *)
J7ReadsCache(w) ==
  /\ Is(w, "cache")
  /\ \/ ~ReadsBlobs(run[w].gates) /\ Ends(w, Done)
     \/ /\ ReadsBlobs(run[w].gates)
        /\ run' = [run EXCEPT ![w] = [@ EXCEPT !.step = "blobs", !.reads = Wanted(w)]]
  /\ OnlyReads

J7ReadsBlobs(w) ==
  /\ Is(w, "blobs")
  /\ run[w].reads # {} => Here(run[w].copy)
  /\ run' = [run EXCEPT ![w] = [@ EXCEPT !.step = "commit"]]
  /\ OnlyReads

J7BlobsFail(w) ==
  /\ Is(w, "blobs") /\ run[w].reads # {}
  /\ \/ ~Here(run[w].copy) /\ Ends(w, HardFail) /\ UNCHANGED budget
     \/ Spend("faults") /\ Ends(w, Transient)
  /\ NothingEarned /\ UNCHANGED <<db, disk, queue>>

Finish(d, done) ==
  LET left == IF d.scan.pending = None THEN 0 ELSE d.scan.pending[1]
  IN IF left = 0 THEN Done ELSE Partial(done)

(* One chunk, one transaction: the reads, the count, the items, the day's  *)
(* receipt and the deltas between the reading before and the one after.    *)
Chunked(w) ==
  LET r == run[w]
      read == CommitChunk(db, r.head, r.reads, Cardinality(Window(w)))
  IN BuildItems(read, r.copy, r.tree, r.gates, r.since)

J7Commits(w) ==
  /\ Is(w, "commit")
  /\ db' = Chunked(w)
  /\ Earns
  /\ Ends(w, Finish(db', run[w].from + Cardinality(Window(w))))
  /\ UNCHANGED <<disk, queue, budget>>

(* The index may refuse each of these reads and writes.                    *)
J7Refused(w) ==
  /\ run[w].step \in {"cursor", "gates", "head", "withdrawn", "restart", "not_read", "enumerate",
                     "cache", "commit"}
  /\ Spend("refusals")
  /\ Ends(w, HardFail)
  /\ NothingEarned /\ UNCHANGED <<db, disk, queue>>

-----------------------------------------------------------------------------
(* settle: the job's row, with the cursor, then the singletons, in one     *)
(* transaction; the follow-ups are queued whether or not it was written.   *)

CursorAfter(outcome) ==
  CASE outcome.is = "done" -> None
    [] outcome.is = "partial" -> Some(outcome.cursor)
    [] OTHER -> db.cursor

Put(r) == IF r.kind = "J7" THEN [db EXCEPT !.cursor = CursorAfter(r.outcome)] ELSE db

FollowUps(r) ==
  IF r.outcome.is \in {"partial", "transient"} THEN {<<r.kind, r.copy>>}
  ELSE IF r.kind = "J1" /\ r.outcome = Done THEN {<<"J7", r.copy>>} ELSE {}

Settle(w) ==
  /\ Is(w, "settle")
  /\ \/ /\ db' = EvaluateSingletons(Put(run[w]))
        /\ Earns
        /\ UNCHANGED budget
     \/ Spend("refusals") /\ NothingEarned /\ UNCHANGED db
  /\ queue' = queue \cup FollowUps(run[w])
  /\ run' = [run EXCEPT ![w] = Free]
  /\ UNCHANGED disk

-----------------------------------------------------------------------------
(* The walk.  A repository found is handed off, which withdraws what was   *)
(* observed at a copy that was away, and queues its chain; a copy not      *)
(* found is marked when the run ends.                                      *)

HandOff(c) ==
  /\ Here(c) /\ Spend("walks")
  /\ LET returning == db.loc[c].removed \/ db.loc[c].presence # "present"
         found == [db EXCEPT !.loc[c].presence = "present", !.loc[c].removed = FALSE]
     IN db' = IF returning THEN MarkRootUnobserved(found, c) ELSE found
  /\ queue' = queue \cup {<<"J1", c>>}
  /\ NothingEarned /\ UNCHANGED <<disk, run>>

ApplyPresence(c) ==
  /\ ~Here(c) /\ db.loc[c].presence # disk[c].place
  /\ Spend("walks")
  /\ db' = [db EXCEPT !.loc[c].presence = disk[c].place]
  /\ NothingEarned /\ UNCHANGED <<disk, queue, run>>

(* An opened page enrols the project, and asks for its primary copy's scan.*)
OpenPage ==
  /\ Spend("opens")
  /\ db' = StampAcknowledged(db)
  /\ LET c == Primary(db) IN
     queue' = queue \cup IF LocationIsCurrent(c) THEN {<<"J7", c>>} ELSE {}
  /\ run' = IF db.enrolled THEN run
            ELSE [w \in Workers |-> IF Is(w, "free") THEN run[w] ELSE [run[w] EXCEPT !.since = FALSE]]
  /\ NothingEarned /\ UNCHANGED disk

(* The user: an uninstall's transaction, the grant, a switch, the archive. *)
Uninstall(c) ==
  /\ LocationIsCurrent(c) /\ Here(c) /\ Spend("leaves")
  /\ disk' = [disk EXCEPT ![c].place = "missing"]
  /\ db' = MarkUnverified([db EXCEPT !.loc[c].removed = TRUE])
  /\ NothingEarned /\ UNCHANGED <<queue, run>>

SetGrant ==
  /\ Spend("choices")
  /\ db' = IF db.granted THEN RevokeContentScan(db) ELSE [db EXCEPT !.granted = TRUE]
  /\ NothingEarned /\ UNCHANGED <<disk, queue, run>>

SetSwitch(src) ==
  /\ Spend("choices")
  /\ db' = IF src \in db.on THEN SwitchOff(db, src) ELSE [db EXCEPT !.on = @ \cup {src}]
  /\ NothingEarned /\ UNCHANGED <<disk, queue, run>>

SetArchived ==
  /\ Spend("choices")
  /\ db' = [db EXCEPT !.archived = ~@]
  /\ NothingEarned /\ UNCHANGED <<disk, queue, run>>

(* The world: commits, a copy that goes away or comes back, a worktree     *)
(* edited last (J2's mtime), and the end of a core.                        *)
Commit(c) ==
  /\ Here(c) /\ Spend("moves")
  /\ \E h \in Heads : disk' = [disk EXCEPT ![c].head = h]
  /\ NothingEarned /\ UNCHANGED <<db, queue, run>>

Edited(c) ==
  /\ Here(c) /\ db.newest # c /\ Spend("moves")
  /\ db' = [db EXCEPT !.newest = c]
  /\ NothingEarned /\ UNCHANGED <<disk, queue, run>>

Leaves(c) ==
  /\ Here(c) /\ Spend("leaves")
  /\ \E place \in {"missing", "offline"} : disk' = [disk EXCEPT ![c].place = place]
  /\ NothingEarned /\ UNCHANGED <<db, queue, run>>

Returns(c) ==
  /\ ~Here(c)
  /\ disk' = [disk EXCEPT ![c].place = "present"]
  /\ NothingEarned /\ UNCHANGED <<db, queue, run, budget>>

Crash ==
  /\ Spend("crashes")
  /\ queue' = {}
  /\ run' = [w \in Workers |-> Free]
  /\ NothingEarned /\ UNCHANGED <<db, disk>>

Works(w) ==
  \/ \E c \in Copies : J1(w, c) \/ J7Begins(w, c) \/ \E k \in {"J1", "J7"} : TakeStale(w, <<k, c>>)
  \/ J7ReadsCursor(w) \/ J7ReadsGates(w) \/ J7ReadsHead(w) \/ J7ReadsSweep(w) \/ J7Restarts(w)
  \/ J7ReadsTree(w) \/ J7TreeFails(w) \/ J7NotRead(w) \/ J7Enumerates(w) \/ J7ReadsCache(w)
  \/ J7ReadsBlobs(w) \/ J7BlobsFail(w) \/ J7Commits(w) \/ J7Refused(w)
  \/ Settle(w)

Step ==
  \/ \E w \in Workers : Works(w)
  \/ OpenPage \/ SetGrant \/ SetArchived \/ Crash
  \/ \E src \in Sources : SetSwitch(src)
  \/ \E c \in Copies :
       HandOff(c) \/ ApplyPresence(c) \/ Uninstall(c) \/ Commit(c) \/ Edited(c)
         \/ Leaves(c) \/ Returns(c)

(* A chunk's transaction and the cursor's are two, and the row of a head   *)
(* counts entries whoever consumed them.  So the count is not to be        *)
(* trusted once a write was refused, a core died, a failed enumeration or  *)
(* a revoked grant made the count unknown, two scans met, the tree read    *)
(* was not the head's, or the cursor of a scan under way was cleared, by   *)
(* another copy's run or one that found its gates closed.                  *)
Treed == {"enumerate", "cache", "blobs", "commit"}
Steps == {"cursor", "gates", "head", "withdrawn", "restart", "tree", "not_read"} \cup Treed
InScan(r) == r.step \in Steps \/ (r.step = "settle" /\ r.kind = "J7")

Disturbs ==
  \/ \E what \in {"refusals", "crashes"} : budget'[what] # budget[what]
  \/ db'.scan # NoScan /\ db'.scan.total = None
  \/ Cardinality({w \in Workers : InScan(run'[w])}) > 1
  \/ \E w \in Workers : run'[w].step \in Treed /\ run'[w].tree # run'[w].head
  \/ db'.cursor # db.cursor /\ db'.cursor = None /\ db'.scan.pending # Some(0)

Next == Step /\ steady' = (steady /\ ~Disturbs)

Spec == Init /\ [][Next]_vars
FairSpec == Spec /\ \A w \in Workers : WF_vars(Works(w) /\ steady' = (steady /\ ~Disturbs))

-----------------------------------------------------------------------------
Job == {"J1", "J7"} \X Copies
Outcome == {Done, Transient, HardFail} \cup [is : {"partial"}, cursor : Nat]
GatesRead == [granted : BOOLEAN, suppressed : BOOLEAN]

(* A run has a head once it has compared it, and a tree once git gave it.  *)
Reading ==
  {r \in [step : Steps, copy : Copies, since : BOOLEAN, from : Nat, gates : GatesRead,
           head : Heads \cup {None}, tree : Heads \cup {None}, reads : SUBSET Blobs,
           outcome : Outcome] :
     /\ r.step \notin {"cursor", "gates", "head"} => r.head \in Heads
     /\ r.step \in Treed => r.tree \in Heads}

Run ==
  {Free} \cup Reading
    \cup [step : {"settle"}, kind : {"J1", "J7"}, copy : Copies, outcome : Outcome, since : BOOLEAN]

(* Type invariant: the rows, the job row's cursor, the copies, the jobs    *)
(* queued and what each run has read.                                      *)
TypeOK ==
  /\ db \in Index
  /\ disk \in [Copies -> [place : Places, head : Heads]]
  /\ queue \subseteq Job
  /\ run \in [Workers -> Run]
  /\ paid \subseteq Sources

Closed(src) == ClosedKeys(db, db', src)

(* An item is closed, as fixed, only by a complete sweep of the very copy  *)
(* it was seen at, while that copy is present and not removed: a copy that *)
(* left between a run's reading and its write closes nothing.              *)
NothingClosesAway ==
  [][\A src \in Sources : \A i \in db.items[src] :
       i.key \in Closed(src) =>
         /\ Observable(db', i.at)
         /\ db'.sweep[src].outcome = "complete" /\ db'.sweep[src].at = Some(i.at)]_vars

WholeKeys(h) == Keys([db EXCEPT !.cache = Blobs], h)

(* While nothing disturbs the scans, an item closed as fixed is not in the *)
(* tree that was read, whole: no chunk that completes a head it did not    *)
(* finish closes what later blobs hold.                                    *)
ClosedIsGone ==
  [][steady' => \A w \in Workers :
       Is(w, "commit") /\ run'[w].step = "settle"
         => Closed("todo") \cap WholeKeys(run[w].tree) = {}]_vars

(* What a head owes of each source.                                        *)
Owed(src, h) ==
  IF src = "todo" THEN WholeKeys(h) ELSE IF h \in HasReadme THEN {} ELSE {<<"readme", 0>>}

(* A fall is recorded only down to what the head really owes, and the day  *)
(* is paid for a source only when something it owed is really gone.        *)
EarnsRightly(src, h) ==
  /\ deltas'[src] > 0 => KeysOf(db'.items[src]) = Owed(src, h)
  /\ src \in paid' \ paid => Closed(src) \ Owed(src, h) # {}

(* While nothing disturbs the scans, nobody is credited for what nobody    *)
(* fixed: doubt, a copy that leaves, another copy's tree, an enrolment, a  *)
(* switch, the archive and a chunk of the tree record no fall and write no *)
(* debt_day row.                                                           *)
EarnedIsGone ==
  [][steady' => \A w \in Workers :
       /\ Is(w, "commit") /\ run'[w].step = "settle" => EarnsRightly("todo", run[w].tree)
       /\ Is(w, "settle") /\ run'[w].step = "free" => EarnsRightly("readme", db.scan.head[1])]_vars

(* store.rs: "A complete, comparable sweep no longer saw the item: the     *)
(* user acted, and it pays".                                               *)
PaidIsGone ==
  [][\A w \in Workers :
       Is(w, "commit") /\ "todo" \in paid' \ paid
         => Closed("todo") \ WholeKeys(run[w].tree) # {}]_vars

(* j7_markers.rs: "Every filtered blob at head_oid has a cache row".       *)
CompleteIsCovered ==
  ScanComplete(db) => \A i \in DOMAIN Tree[db.scan.head[1]] : Tree[db.scan.head[1]][i] \in db.cache

Nothing == \A what \in DOMAIN budget : budget[what] = 0

Readable(c) ==
  /\ Here(c) /\ Observable(db, c)
  /\ db.granted /\ db.enrolled /\ ~db.archived /\ "todo" \in db.on

(* A copy handed off on its return, whose evidence was withdrawn, is read  *)
(* again although its head has not moved, once nothing else happens.       *)
ReturnedIsRescanned ==
  Nothing /\ (\E c \in Copies : Readable(c) /\ <<"J1", c>> \in queue)
    ~> db.sweep["todo"].outcome \in {"complete", "partial"}
=============================================================================
