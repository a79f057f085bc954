---------------------------- MODULE SessionLedger ----------------------------
(***************************************************************************)
(* The playtime ledger: the live sessions of core/src/session/manager.rs,  *)
(* each with the state machine of segment.rs, the rows of store.rs they    *)
(* write, the worktree watch of watch.rs that feeds them, and the recovery *)
(* of orphan.rs.  One thread, the core's loop, runs every handler; around  *)
(* it move the two clocks, the worktrees, the launched processes, the      *)
(* shell's focus claims, and a crash between any two transactions.         *)
(*                                                                         *)
(* The idle rule is decided on the monotonic clock and recorded on the     *)
(* wall clock.  A machine moves before the transaction that records its    *)
(* move, and the transaction may fail: what the rows say and what the      *)
(* machine believes are two pieces of state.                               *)
(*                                                                         *)
(* A project has one worktree here, named by the project, and no worktree  *)
(* is inside another.  notify keeps one watch per path, so an unwatch ends *)
(* it for every session on that root.  Time is counted in a unit of the    *)
(* model's own, which every constant is expressed in; a tick is finer than *)
(* the staleness of a claim (mod.rs:48), or as coarse once rounded.        *)
(***************************************************************************)
EXTENDS Integers, Sequences, FiniteSets, SequencesExt

CONSTANTS Projects, MaxSessions,
          SegmentIdle, SessionIdle, FocusStale, TickPeriod,   \* mod.rs:22-52
          DayLength,        \* a local day, in the model's unit
          MaxTime,          \* bound: no behaviour's monotonic clock goes beyond
          Epoch,            \* the wall clock's first reading
          Jumps,            \* <<wall, mono>>: how the clocks may leap
          Budgets           \* bound: what a behaviour may meet and last, one member each

ASSUME ConstantsAssumption ==
  /\ IsFiniteSet(Projects)
  /\ {MaxSessions, SegmentIdle, SessionIdle, FocusStale, MaxTime, Epoch} \subseteq Nat
  /\ {TickPeriod, DayLength} \subseteq Nat \ {0}
  /\ 2 * FocusStale < SegmentIdle /\ TickPeriod < FocusStale /\ TickPeriod <= SessionIdle
  /\ Jumps \subseteq Int \X Nat
  /\ Budgets \subseteq [jumps : Nat, crashes : Nat, refusals : Nat, deaf : Nat, errors : Nat,
                        met : {FALSE}, launches : Nat, waits : SUBSET BOOLEAN,
                        of : SUBSET Projects, inputs : Nat, until : 0 .. MaxTime]

VARIABLES
  db,        \* the index: session rows, segment rows, focus seconds paid
  live,      \* SessionManager.live
  watch,     \* the activity source: roots per session, OS watches, the channel, and the
             \* sessions (history) that lost the OS watch to the end of another on their root
  focus,     \* SessionManager.focus
  loop,      \* where the loop thread stands in a pass over the sessions
  clock,     \* both clocks and the time of the last tick
  up,        \* does the core run
  edited,    \* sessions whose worktree was edited since the last tick began, and after each
             \* error the watcher has reported since
  evidence,  \* per session, the wall seconds some input accounts for
  faults     \* jumps, crashes, refused transactions, refused watches and errors of the watcher
             \* still to come, has a refusal, a jump or such an error been met, and the bounds

vars == <<db, live, watch, focus, loop, clock, up, edited, evidence, faults>>

Sessions == 1 .. MaxSessions
None == <<>>
Some(x) == <<x>>
Later(a, b) == IF a >= b THEN a ELSE b
Earlier(a, b) == IF a <= b THEN a ELSE b

-----------------------------------------------------------------------------
(* The machine of one session: a step gives the machine and its outcome.   *)

InSegment(started, at, mono) ==
  [phase |-> "in", started |-> started, at |-> at, mono |-> mono]
Between(at, mono) == [phase |-> "between", started |-> at, at |-> at, mono |-> mono]
Ended == [phase |-> "ended", started |-> 0, at |-> 0, mono |-> 0]

Quiet == [activity |-> None, closed |-> None, opened |-> None, ended |-> None]

Closing(started, at, by) ==
  Some([ended |-> at, credit |-> Later(at - started, 0), by |-> by])

ObserveSignal(m, now) ==
  IF m.phase = "in"
  THEN LET at == Later(now.wall, m.at) IN
       [machine |-> InSegment(m.started, at, Later(now.mono, m.mono)),
        out |-> [Quiet EXCEPT !.activity = Some(at)]]
  ELSE [machine |-> InSegment(now.wall, now.wall, now.mono),
        out |-> [Quiet EXCEPT !.opened = Some(now.wall)]]

IdleEnd(m, now) ==
  Later(Earlier(m.at + SegmentIdle, now.wall), m.started)

ObserveNothing(m, wait, now) ==
  CASE m.phase = "in" /\ now.mono - m.mono >= SegmentIdle ->
         LET at == IdleEnd(m, now) IN
         [machine |-> Between(at, m.mono + SegmentIdle),
          out |-> [Quiet EXCEPT !.closed = Closing(m.started, at, "idle")]]
    [] m.phase = "between" /\ ~wait /\ now.mono - m.mono >= SessionIdle ->
         [machine |-> Ended,
          out |-> [Quiet EXCEPT !.ended = Some([at |-> m.at, reason |-> "idle"])]]
    [] OTHER -> [machine |-> m, out |-> Quiet]

Observe(m, wait, now, signal) ==
  IF m.phase = "ended" THEN [machine |-> m, out |-> Quiet]
  ELSE IF signal THEN ObserveSignal(m, now)
  ELSE ObserveNothing(m, wait, now)

(* No trailing idle window: the end was seen. *)
SeenEnd(m, now) == Later(now.wall, m.started)

ClosedByEnd(m, now, reason) ==
  IF m.phase = "in"
  THEN Closing(m.started, SeenEnd(m, now),
               IF reason = "app_exit" THEN "app_exit" ELSE "session_end")
  ELSE None

EndWith(m, now, reason) ==
  [machine |-> Ended, out |-> [Quiet EXCEPT !.closed = ClosedByEnd(m, now, reason),
                                           !.ended = Some([at |-> now.wall, reason |-> reason])]]

End(m, now, reason) ==
  IF m.phase = "ended" THEN [machine |-> m, out |-> Quiet] ELSE EndWith(m, now, reason)

-----------------------------------------------------------------------------
(* The rows.  A segment's id is its place in segs; by = "open" is the      *)
(* NULL closed_by of an open one.                                          *)

NoSession == [state |-> "none"]

OpenSession(d, s, p, at) ==
  [d EXCEPT !.sess[s] = [state |-> "open", project |-> p, started |-> at]]

OpenSegment(d, s, at, signalled) ==
  [d EXCEPT !.segs = Append(@, [session |-> s, started |-> at, ended |-> at, credit |-> 0,
                                by |-> "open", signalled |-> signalled])]

MarkActivity(d, g, at) ==
  IF d.segs[g].by # "open" THEN d
  ELSE [d EXCEPT !.segs[g].credit = Later(Later(at - d.segs[g].started, 0), @),
                 !.segs[g].signalled = TRUE]

CloseSegment(d, g, c) ==
  IF d.segs[g].by # "open" THEN d
  ELSE [d EXCEPT !.segs[g].ended = c.ended, !.segs[g].credit = c.credit, !.segs[g].by = c.by]

SegmentsOf(d, s) == {g \in DOMAIN d.segs : d.segs[g].session = s}
SumOf(f) == MapThenSumSet(LAMBDA x : f[x], DOMAIN f)
CreditedSeconds(d, s) == SumOf([g \in SegmentsOf(d, s) |-> d.segs[g].credit])

CloseSession(d, s, at, reason) ==
  IF d.sess[s].state # "open" THEN d
  ELSE [d EXCEPT !.sess[s] =
         [state |-> "closed", project |-> @.project, started |-> @.started,
          ended |-> Later(at, @.started), reason |-> reason,
          credit |-> CreditedSeconds(d, s)]]

-----------------------------------------------------------------------------
(* Focus: a segment's interval is its credit, and a close pays the seconds *)
(* of each day that no other closed counted segment covers, whichever      *)
(* project that one is of.  Only a signalled segment counts.               *)

Seconds(g) == g.started .. g.started + g.credit - 1
DayOf(t) == t \div DayLength

CountedClosed(d) == {g \in DOMAIN d.segs : d.segs[g].signalled /\ d.segs[g].by # "open"}
Union(d, gs) == UNION {Seconds(d.segs[g]) : g \in gs}

(* Mutant: only the project's own segments cover. *)
MarginalOfProject(d, g) ==
  LET own == {h \in CountedClosed(d) : d.sess[d.segs[h].session].project
                                         = d.sess[d.segs[g].session].project}
  IN IF d.segs[g].signalled THEN Seconds(d.segs[g]) \ Union(d, own \ {g}) ELSE {}

MarginalSeconds(d, g) ==
  IF d.segs[g].signalled
  THEN Seconds(d.segs[g]) \ Union(d, CountedClosed(d) \ {g})
  ELSE {}

CreditSegmentClose(d, g) ==
  LET p == d.sess[d.segs[g].session].project IN
  [d EXCEPT !.paid[p] =
    [day \in DOMAIN @ |-> @[day] + Cardinality({t \in MarginalSeconds(d, g) : DayOf(t) = day})]]

-----------------------------------------------------------------------------
(* apply: one outcome in one transaction.                                  *)

WithActivity(d, g, out) ==
  IF out.activity # None /\ g # 0 THEN MarkActivity(d, g, out.activity[1]) ELSE d
WithClose(d, g, out) ==
  IF out.closed # None /\ g # 0
  THEN CreditSegmentClose(CloseSegment(d, g, out.closed[1]), g) ELSE d
WithOpen(d, s, out) ==
  IF out.opened # None THEN OpenSegment(d, s, out.opened[1], TRUE) ELSE d
WithEnd(d, s, out) ==
  IF out.ended # None THEN CloseSession(d, s, out.ended[1].at, out.ended[1].reason) ELSE d

(* Mutant: the session is closed before its last segment is. *)
WrittenEndFirst(d, s, g, out) ==
  WithOpen(WithClose(WithEnd(WithActivity(d, g, out), s, out), g, out), s, out)

Written(d, s, g, out) ==
  WithEnd(WithOpen(WithClose(WithActivity(d, g, out), g, out), s, out), s, out)

NextSegment(d, g, out) ==
  IF out.opened # None THEN Len(d.segs)
  ELSE IF out.closed # None THEN 0 ELSE g

NotLive == [on |-> FALSE]
LiveSessions == {s \in Sessions : live[s].on}
FirstOf(S) == CHOOSE s \in S : \A t \in S : s <= t

Sharing(s) == {t \in Sessions : t # s /\ watch.roots[t] = watch.roots[s]}

(* Mutant: the root stays the ended session's. *)
UnwatchKeepingRoot(s) ==
  IF watch.roots[s] = None THEN watch
  ELSE [watch EXCEPT !.os = @ \ {watch.roots[s][1]}, !.outlived = @ \cup (Sharing(s) \cap LiveSessions)]

Unwatch(s) ==
  IF watch.roots[s] = None THEN watch
  ELSE [watch EXCEPT !.roots[s] = None, !.os = @ \ {watch.roots[s][1]},
                     !.outlived = @ \cup Sharing(s)]

(* The transaction commits, and the manager follows what it wrote; an      *)
(* outcome of nothing opens no transaction.  l is the live table as the    *)
(* handler left it.                                                        *)
Commit(l, s, step) ==
  /\ db' = Written(db, s, l[s].segment, step.out)
  /\ IF step.out.ended # None
     THEN live' = [l EXCEPT ![s] = NotLive] /\ watch' = Unwatch(s)
     ELSE /\ live' = [l EXCEPT ![s].machine = step.machine,
                               ![s].segment = NextSegment(db', @, step.out)]
          /\ UNCHANGED watch
  /\ UNCHANGED faults

(* The transaction fails: the machine has moved, the rows have not.        *)
Refuse(l, s, step) ==
  /\ step.out # Quiet
  /\ faults.refusals > 0
  /\ faults' = [faults EXCEPT !.refusals = @ - 1, !.met = TRUE]
  /\ live' = [l EXCEPT ![s].machine = step.machine]
  /\ UNCHANGED <<db, watch>>

-----------------------------------------------------------------------------
Idle == [at |-> "idle", todo |-> {}, signals |-> {}]
(* The channel: what is heard by the next drain, and behind each error by the one after. *)
Quietly == <<{}>>
Drained(rx) == IF Len(rx) = 1 THEN Quietly ELSE Tail(rx)
WithLast(rx, S) == [rx EXCEPT ![Len(rx)] = @ \cup S]
NoWatch == [roots |-> [s \in Sessions |-> None], os |-> {}, rx |-> Quietly, outlived |-> {}]

(* Input at wall time t accounts for the seconds until it stops counting.  *)
Window(t, length) == t .. t + length - 1
Touch(t) == Window(t, FocusStale + TickPeriod + SegmentIdle)

Init ==
  /\ db = [sess |-> [s \in Sessions |-> NoSession], segs |-> <<>>,
           paid |-> [p \in Projects |-> [day \in 0 .. DayOf(2 * MaxTime + Epoch) |-> 0]]]
  /\ live = [s \in Sessions |-> NotLive]
  /\ watch = NoWatch
  /\ focus = None
  /\ loop = Idle
  /\ clock = [mono |-> 0, wall |-> Epoch, ticked |-> None]
  /\ up = TRUE
  /\ edited = Quietly
  /\ evidence = [s \in Sessions |-> {}]
  /\ faults \in Budgets

AtRest == up /\ loop.at = "idle"
Inputs == clock.mono <= faults.inputs

(* The three commands.  A launch whose transaction fails leaves nothing in *)
(* the ledger; its process runs on, which CoreSupervisor models.           *)

Launched(p, wait) ==
  [on |-> TRUE, project |-> p, segment |-> Len(db.segs) + 1,
   machine |-> InSegment(clock.wall, clock.wall, clock.mono),
   launched |-> clock.mono, wait |-> wait,
   waiter |-> IF wait THEN "running" ELSE "none"]

ClaimedNow(p) == focus # None /\ focus[1] = [project |-> p, at |-> clock.mono]

Launch(p, wait) ==
  /\ AtRest /\ Inputs /\ wait \in faults.waits /\ p \in faults.of
  /\ \E s \in Sessions, watched \in BOOLEAN :
       /\ s <= faults.launches
       /\ db.sess[s].state = "none" /\ \A t \in Sessions : t < s => db.sess[t].state # "none"
       /\ db' = OpenSegment(OpenSession(db, s, p, clock.wall), s, clock.wall, FALSE)
       /\ live' = [live EXCEPT ![s] = Launched(p, wait)]
       /\ watch' = IF watched
                   THEN [watch EXCEPT !.roots[s] = Some(p), !.os = @ \cup {p}]
                   ELSE watch
       /\ evidence' = [evidence EXCEPT ![s] =
            IF ClaimedNow(p) \/ p \in watch.rx[1]
            THEN Touch(clock.wall) ELSE Window(clock.wall, SegmentIdle + TickPeriod - 1)]
       /\ IF watched THEN UNCHANGED faults
          ELSE faults.deaf > 0 /\ faults' = [faults EXCEPT !.deaf = @ - 1]
  /\ UNCHANGED <<focus, loop, clock, up, edited>>

SetFocus(claim) ==
  /\ AtRest /\ Inputs
  /\ focus' = IF claim = None THEN None
              ELSE Some([project |-> claim[1], at |-> clock.mono])
  /\ evidence' = [s \in Sessions |->
       evidence[s] \cup
         IF live[s].on /\ claim = Some(live[s].project) THEN Touch(clock.wall) ELSE {}]
  /\ UNCHANGED <<db, live, watch, loop, clock, up, edited, faults>>

Stop(s) ==
  /\ AtRest
  /\ live[s].on
  /\ LET step == End(live[s].machine, clock, "stop")
     IN  Commit(live, s, step) \/ Refuse(live, s, step)
  /\ UNCHANGED <<focus, loop, clock, up, edited, evidence>>

-----------------------------------------------------------------------------
(* The tick: drain the watcher, find who is signalled, then a transaction  *)
(* for each session in id order, then the finished wait-mode processes.    *)

Due == clock.ticked # None => clock.mono - clock.ticked[1] >= TickPeriod

Absorbed(p) == {s \in Sessions : watch.roots[s] = Some(p)}
Heard == {FirstOf(Absorbed(p)) : p \in {q \in watch.rx[1] : Absorbed(q) # {}}}

(* Mutant: a claim holds until it is released. *)
FocusHeld == focus # None

FocusFresh == focus # None /\ clock.mono - focus[1].at < FocusStale
OwnView == {s \in LiveSessions : /\ FocusFresh
                                 /\ live[s].project = focus[1].project
                                 /\ focus[1].at >= live[s].launched}

(* The drain goes as far as the first error and takes it; what was         *)
(* reported after it waits for the next tick.                              *)
PumpBegins ==
  /\ AtRest /\ Due
  /\ clock' = [clock EXCEPT !.ticked = Some(clock.mono)]
  /\ loop' = [at |-> "observe", todo |-> LiveSessions,
              signals |-> (Heard \cap LiveSessions) \cup OwnView]
  /\ watch' = [watch EXCEPT !.rx = Drained(@)]
  /\ edited' = Drained(edited)
  /\ UNCHANGED <<db, live, focus, up, evidence, faults>>

(* A pass goes on with the next session, or an error ends it.              *)
Apply(l, s, step) ==
  \/ Commit(l, s, step) /\ loop' = [loop EXCEPT !.todo = @ \ {s}]
  \/ Refuse(l, s, step) /\ loop' = [loop EXCEPT !.at = IF @ = "shutdown" THEN @ ELSE "idle",
                                              !.todo = {}, !.signals = {}]

TickObserve ==
  /\ up /\ loop.at = "observe" /\ loop.todo # {}
  /\ LET s == FirstOf(loop.todo) IN
     Apply(live, s, Observe(live[s].machine, live[s].wait, clock, s \in loop.signals))
  /\ UNCHANGED <<focus, clock, up, edited, evidence>>

TickReaps ==
  /\ up /\ loop.at = "observe" /\ loop.todo = {}
  /\ loop' = [Idle EXCEPT !.at = "reap", !.todo = LiveSessions]
  /\ UNCHANGED <<db, live, watch, focus, clock, up, edited, evidence, faults>>

TickReap ==
  /\ up /\ loop.at = "reap" /\ loop.todo # {}
  /\ LET s == FirstOf(loop.todo) IN
     IF live[s].waiter = "finished"
     THEN Apply([live EXCEPT ![s].waiter = "none"], s,
                End(live[s].machine, clock, "process_exit"))
     ELSE /\ loop' = [loop EXCEPT !.todo = @ \ {s}]
          /\ UNCHANGED <<db, live, watch, faults>>
  /\ UNCHANGED <<focus, clock, up, edited, evidence>>

TickEnds ==
  /\ up /\ loop.at = "reap" /\ loop.todo = {}
  /\ loop' = Idle
  /\ UNCHANGED <<db, live, watch, focus, clock, up, edited, evidence, faults>>

-----------------------------------------------------------------------------
(* The end of a core, in order or not, and the start of the next one.      *)

GoneDown ==
  /\ up' = FALSE
  /\ live' = [s \in Sessions |-> NotLive]
  /\ watch' = NoWatch
  /\ focus' = None
  /\ loop' = Idle
  /\ clock' = [clock EXCEPT !.ticked = None]
  /\ edited' = Quietly
  /\ UNCHANGED <<db, evidence>>

ShutdownBegins ==
  /\ AtRest
  /\ faults.crashes > 0
  /\ faults' = [faults EXCEPT !.crashes = @ - 1]
  /\ loop' = [Idle EXCEPT !.at = "shutdown", !.todo = LiveSessions]
  /\ UNCHANGED <<db, live, watch, focus, clock, up, edited, evidence>>

ShutdownOne ==
  /\ up /\ loop.at = "shutdown" /\ loop.todo # {}
  /\ LET s == FirstOf(loop.todo) IN Apply(live, s, End(live[s].machine, clock, "app_exit"))
  /\ UNCHANGED <<focus, clock, up, edited, evidence>>

ShutdownEnds ==
  /\ up /\ loop.at = "shutdown" /\ loop.todo = {}
  /\ GoneDown /\ UNCHANGED faults

Crash ==
  /\ up
  /\ faults.crashes > 0
  /\ faults' = [faults EXCEPT !.crashes = @ - 1]
  /\ GoneDown

(* close_orphans, one transaction: every open segment of every open        *)
(* session ends at its watermark, then the session at its latest segment.  *)
OpenSegments(d, s) == {g \in SegmentsOf(d, s) : d.segs[g].by = "open"}

(* Mutant: a session between two segments is no orphan. *)
OpenSessionsInSegment(d) ==
  {s \in Sessions : d.sess[s].state = "open" /\ OpenSegments(d, s) # {}}

OpenSessions(d) == {s \in Sessions : d.sess[s].state = "open"}

CloseAtWatermark(d, g) ==
  CreditSegmentClose(
    [d EXCEPT !.segs[g].ended = d.segs[g].started + d.segs[g].credit, !.segs[g].by = "crash"], g)

(* Mutant: stamped when the core noticed. *)
LatestEndNow(d, s) == clock.wall

LatestEnd(d, s) ==
  CHOOSE at \in {d.segs[g].ended : g \in SegmentsOf(d, s)} :
    \A g \in SegmentsOf(d, s) : d.segs[g].ended <= at

CloseSegments(d, s) ==
  LET upTo[g \in 0 .. Len(d.segs)] ==
        IF g = 0 THEN d
        ELSE IF g \in OpenSegments(d, s) THEN CloseAtWatermark(upTo[g - 1], g) ELSE upTo[g - 1]
  IN upTo[Len(d.segs)]

CloseOrphan(d, s) ==
  LET closed == CloseSegments(d, s) IN
  CloseSession(closed, s, LatestEnd(closed, s), "orphaned")

CloseOrphans(d) ==
  LET upTo[s \in 0 .. MaxSessions] ==
        IF s = 0 THEN d
        ELSE IF s \in OpenSessions(d) THEN CloseOrphan(upTo[s - 1], s) ELSE upTo[s - 1]
  IN upTo[MaxSessions]

Start ==
  /\ ~up
  /\ up' = TRUE
  /\ \/ db' = CloseOrphans(db) /\ UNCHANGED faults
     \/ /\ faults.refusals > 0
        /\ faults' = [faults EXCEPT !.refusals = @ - 1, !.met = TRUE]
        /\ UNCHANGED db
  /\ UNCHANGED <<live, watch, focus, loop, clock, edited, evidence>>

-----------------------------------------------------------------------------
(* The world: worktrees, processes and clocks.  A tick is never late       *)
(* except across a jump: the loop wakes every PARENT_POLL, well within a   *)
(* tick, and a pass takes no time.                                         *)

(* A change 9 counts, to a path git does not ignore: one that is ignored,  *)
(* that git could not be asked about or that overflowed the buffer is no   *)
(* signal, as if it had not been made.                                     *)
Edit(p) ==
  /\ up /\ Inputs
  /\ LET seen == {s \in LiveSessions : live[s].project = p} IN
     /\ seen # {}
     /\ edited' = WithLast(edited, seen)
     /\ evidence' = [s \in Sessions |->
          evidence[s] \cup IF s \in seen THEN Touch(clock.wall) ELSE {}]
  /\ watch' = IF p \in watch.os THEN [watch EXCEPT !.rx = WithLast(@, {p})] ELSE watch
  /\ UNCHANGED <<db, live, focus, loop, clock, up, faults>>

(* notify reports an error of its own, in its place among the events.      *)
WatcherErrs ==
  /\ up /\ Inputs
  /\ faults.errors > 0
  /\ faults' = [faults EXCEPT !.errors = @ - 1, !.met = TRUE]
  /\ watch' = [watch EXCEPT !.rx = Append(@, {})]
  /\ edited' = Append(edited, {})
  /\ UNCHANGED <<db, live, focus, loop, clock, up, evidence>>

ProcessExits(s) ==
  /\ up /\ live[s].on /\ live[s].waiter = "running"
  /\ live' = [live EXCEPT ![s].waiter = "finished"]
  /\ UNCHANGED <<db, watch, focus, loop, clock, up, edited, evidence, faults>>

TimePasses ==
  /\ clock.mono < faults.until
  /\ up => loop.at = "idle" /\ ~Due
  /\ clock' = [clock EXCEPT !.mono = @ + 1, !.wall = @ + 1]
  /\ UNCHANGED <<db, live, watch, focus, loop, up, edited, evidence, faults>>

(* The wall clock is set, or the machine sleeps: a monotonic clock that    *)
(* stops in a sleep (Linux) leaps by nothing, one that does not by as much *)
(* as the wall clock.                                                      *)
ClockJumps ==
  /\ up => loop.at = "idle"
  /\ faults.jumps > 0
  /\ faults' = [faults EXCEPT !.jumps = @ - 1, !.met = TRUE]
  /\ \E j \in Jumps :
       /\ clock.wall + j[1] >= 0
       /\ clock.mono + j[2] <= faults.until
       /\ clock' = [clock EXCEPT !.wall = @ + j[1], !.mono = @ + j[2]]
  /\ UNCHANGED <<db, live, watch, focus, loop, up, edited, evidence>>

Next ==
  \/ \E p \in Projects, wait \in BOOLEAN : Launch(p, wait)
  \/ \E claim \in {None} \cup {Some(p) : p \in faults.of} : SetFocus(claim)
  \/ \E s \in Sessions : Stop(s) \/ ProcessExits(s)
  \/ PumpBegins \/ TickObserve \/ TickReaps \/ TickReap \/ TickEnds
  \/ ShutdownBegins \/ ShutdownOne \/ ShutdownEnds \/ Crash \/ Start
  \/ \E p \in Projects : Edit(p)
  \/ WatcherErrs
  \/ TimePasses \/ ClockJumps

Spec == Init /\ [][Next]_vars

-----------------------------------------------------------------------------
(* Properties.                                                             *)

Machines == [phase : {"in", "between", "ended"}, started : Nat, at : Nat, mono : Nat]

(* The variables keep to their types: ids in range, rows in the closed     *)
(* sets of 1.6's CHECKs, no negative credit.                               *)
TypeOK ==
  /\ \A s \in Sessions :
       /\ db.sess[s].state \in {"none", "open", "closed"}
       /\ db.sess[s].state = "closed" =>
            /\ db.sess[s].reason \in {"stop", "idle", "process_exit", "app_exit", "orphaned"}
            /\ db.sess[s].ended >= db.sess[s].started
       /\ live[s].on =>
            /\ live[s].machine \in Machines
            /\ live[s].segment \in 0 .. Len(db.segs)
            /\ live[s].waiter \in {"none", "running", "finished"}
  /\ \A g \in DOMAIN db.segs :
       /\ db.segs[g].session \in Sessions
       /\ db.segs[g].by \in {"open", "idle", "session_end", "app_exit", "crash"}
       /\ {db.segs[g].started, db.segs[g].ended, db.segs[g].credit} \subseteq Nat
  /\ loop.at \in {"idle", "observe", "reap", "shutdown"} /\ loop.todo \subseteq LiveSessions
  /\ up \in BOOLEAN /\ (~up => LiveSessions = {})

(* mod.rs:58: every credited second is accounted for by a launch, an edit  *)
(* of the session's own worktree or a claim of its own view, each believed *)
(* no longer than its bound, through crashes and recoveries.  (No refused  *)
(* transaction, no sleep and no error of the watcher: after those it does  *)
(* not hold, as README says.)                                              *)
CreditIsEvidenced ==
  ~faults.met =>
    \A g \in DOMAIN db.segs : Seconds(db.segs[g]) \subseteq evidence[db.segs[g].session]

(* store.rs:7: a closed session's stored credit is the sum over its        *)
(* segments, whatever was refused, recovered or stamped by a moved clock.  *)
ClosedCreditIsTheSum ==
  \A s \in Sessions :
    db.sess[s].state = "closed" => db.sess[s].credit = CreditedSeconds(db, s)

(* measure.rs:77: the seconds paid for a day, over every project and       *)
(* whatever the order of the closes, are exactly the union of the counted  *)
(* closed segments on it.                                                  *)
FocusIsTheUnion ==
  \A day \in 0 .. DayOf(2 * MaxTime + Epoch) :
    SumOf([p \in Projects |-> db.paid[p][day]])
      = Cardinality({t \in Union(db, CountedClosed(db)) : DayOf(t) = day})

(* segment.rs:10 and orphan.rs:10: an end nobody asked for is stamped when *)
(* the session stopped being used, never when the core noticed.            *)
UnaskedEndIsNotNow ==
  \A s \in Sessions :
    ~faults.met /\ db.sess[s].state = "closed" /\ db.sess[s].reason \in {"idle", "orphaned"}
      => \E t \in evidence[s] : db.sess[s].ended <= t + 1

(* watch.rs:37 and 49: a tick signals every live session whose watched     *)
(* worktree was edited since the last one.  An error of the watcher makes  *)
(* the edits behind it wait for one tick more.  Of sessions on one         *)
(* worktree only the oldest is signalled, and the end of one takes the OS  *)
(* watch from the others (WatchedIsHeard, which fails).                    *)
Alone(s) ==
  /\ s \notin watch.outlived
  /\ \A t \in LiveSessions : t < s => watch.roots[t] # watch.roots[s]
EditsAreHeard ==
  [][PumpBegins => \A s \in LiveSessions \cap edited[1] :
       watch.roots[s] # None /\ Alone(s) => s \in loop'.signals]_vars

(* watch.rs:37, "a recursive watch per live session": a tick signals each  *)
(* of them whose watched worktree was edited.  It does not: paths go to    *)
(* the first session whose root contains them (watch.rs:97).               *)
WatchedIsHeard ==
  [][PumpBegins => \A s \in LiveSessions \cap edited[1] :
       watch.roots[s] # None => s \in loop'.signals]_vars

(* mod.rs:27: a session with no process to wait for is closed, by the idle *)
(* rule or, after a crash, by the next start, once the last input no       *)
(* longer counts, both idle times have passed and a tick has found it so.  *)
LongQuiet ==
  clock.mono >= faults.inputs + FocusStale + SegmentIdle + SessionIdle + TickPeriod - 1

ClosesInTime ==
  LongQuiet /\ AtRest /\ ~Due /\ ~faults.met =>
    \A s \in Sessions : db.sess[s].state = "open" => live[s].on /\ live[s].wait
==============================================================================
