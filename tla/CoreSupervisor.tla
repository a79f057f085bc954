----------------------------- MODULE CoreSupervisor -----------------------------
(***************************************************************************)
(* The shell's supervision of the core: CoreSupervisor launches one core   *)
(* process per epoch, reads its frames, restarts it once after a crash and *)
(* stops it at quit (supervisor.ts); CoreClient keeps the requests no core *)
(* has answered (client.ts); the core takes the advisory lock, greets,     *)
(* opens its index and serves until its stdin closes (main.rs, dispatch.rs)*)
(*                                                                         *)
(* A core is named by the epoch it was launched in.  The two pipes are     *)
(* sequences; a pipe outlives its writer, so a frame may be read after the *)
(* exit of the core that wrote it was reported.                            *)
(*                                                                         *)
(* Abstracted: topics (TopicStream), the command a request names (whether  *)
(* it writes is kept), stderr, and clock readings: the last crash is       *)
(* recent or old.  Frames that do not decode are left out.                 *)
(***************************************************************************)
EXTENDS Integers, Sequences

CONSTANTS
    Requests,
    Writes,          \* the requests whose command acts: COMMAND_EFFECT is 'write'
    Scenarios,       \* bound: each a record of the fields named below
    MaxEpoch         \* bound: the starts of a scenario

ASSUME RequestsAssumption == Writes \subseteq Requests
\* trouble: what may be wrong with the core on disk, that it fails to spawn or that it speaks
\* another protocol.  asked: the requests made.  faults: crashes and fatal indexes.  windows:
\* times CRASH_LOOP_WINDOW_MS passes without a crash.  rebuilds: presses of REBUILD.
ASSUME ScenariosAssumption ==
    Scenarios \subseteq [trouble : {"spawn", "protocol"}, asked : SUBSET Requests, faults : Nat,
                         windows : Nat, rebuilds : Nat]

\* Every start is the first, a REBUILD or a restart, and a restart needs a crash that no
\* earlier one shares a window with.
ASSUME EpochsAssumption ==
    /\ MaxEpoch \in Nat
    /\ \A s \in Scenarios : MaxEpoch >= 2 + 2 * s.rebuilds + s.windows

Epochs == 1..MaxEpoch

VARIABLES
    scenario,   \* bound: the member of Scenarios this behaviour keeps to
    lane,       \* CoreSupervisor.state.kind; of a failed one, its reason
    epoch,      \* CoreSupervisor.epoch
    child,      \* CoreSupervisor.child, 0 for null
    stopping,   \* CoreSupervisor.stopping
    lastCrash,  \* CoreSupervisor.lastCrashAt, against the window
    timers,     \* restarts scheduled and not yet started
    stop,       \* the promise of stopAndWait
    stopChild,  \* the child its deadline kills
    phase,      \* where each core process is
    exitCode,   \* how it ended
    reaped,     \* its exit has been reported to the shell
    stdinEnded, \* the shell has closed its stdin
    inbox,      \* requests written to its stdin and not taken
    doing,      \* the request its loop is handling, and whether it answers it
    outbox,     \* frames written to its stdout and not read
    req,        \* a request's promise; the pending ones are CoreClient.pending
    askedIn,    \* history: the epoch a request was made in
    sentTo,     \* history: the core it was written to, 0 if none
    executed,   \* history: times a request took effect
    crashes,    \* history: crashes reported inside the running window
    windows,    \* bound
    faults,     \* bound
    rebuilds    \* bound

shellVars == <<lane, epoch, child, stopping, lastCrash, timers>>
stopVars  == <<stop, stopChild>>
coreVars  == <<phase, exitCode, doing>>
pipeVars  == <<stdinEnded, inbox, outbox>>
reqVars   == <<req, askedIn, sentTo>>
countVars == <<scenario, windows, faults, rebuilds>>
vars == <<shellVars, stopVars, coreVars, reaped, pipeVars, reqVars, executed, crashes, countVars>>

Failures == {"spawn", "protocol_version", "index_fatal", "crash_loop"}
Failed == lane \in Failures
Alive == {"spawned", "locked", "greeted", "serving"}
Idle == [id |-> "none"]

Hello == [t |-> "hello"]
Response(r) == [t |-> "response", id |-> r]
Error(r) == [t |-> "error", id |-> r]   \* outcome null, as every CommandFailure's is
Frames == {Hello} \cup {Response(r) : r \in Requests} \cup {Error(r) : r \in Requests}

-----------------------------------------------------------------------------
(* The client's promises.                                                    *)

\* restartError: a lost write may have happened, a lost read may be asked again.
RestartError(r) == IF r \in Writes THEN "unknown" ELSE "retryable"

Pending == {r \in Requests : req[r] = "pending"}

\* An epoch end nobody listens to.
KeepPending == req

\* rejectAllPending.
RejectAllPending == [r \in Requests |-> IF r \in Pending THEN RestartError(r) ELSE req[r]]

\* route: an answer settles the request it names, if that is still pending.
Route(f) == IF f.id \notin Pending THEN req
            ELSE [req EXCEPT ![f.id] = IF f.t = "response" THEN "resolved" ELSE "refused"]

-----------------------------------------------------------------------------
(* Sending and launching.                                                    *)

\* CoreSupervisor.send writes only to a child, and never once the lane has failed.
CanSend == child # 0 /\ ~Failed

\* A write after stdin.end() is not an EPIPE, so onError fails the lane as a spawn.
WriteAfterEnd == CanSend /\ stdinEnded[child]

Kill(c, p, x) ==    \* SIGKILL of core c, which may be null or gone
    IF c # 0 /\ p[c] \in Alive
    THEN /\ phase' = [p EXCEPT ![c] = "dead"]
         /\ exitCode' = [x EXCEPT ![c] = "signal"]
         /\ doing' = [doing EXCEPT ![c] = Idle]
    ELSE phase' = p /\ exitCode' = x /\ UNCHANGED doing

\* launch: spawn throws, reports an error of its own and never an exit, or starts a core.
Launch ==
    /\ epoch' = epoch + 1
    /\ \/ /\ lane' = "starting"
          /\ child' = epoch'
          /\ phase' = [phase EXCEPT ![epoch'] = "spawned"]
          /\ UNCHANGED reaped
       \/ /\ scenario.trouble = "spawn"
          /\ lane' = "spawn"
          /\ child' \in {child, epoch'}
          /\ phase' = [phase EXCEPT ![epoch'] = "dead"]
          /\ reaped' = [reaped EXCEPT ![epoch'] = TRUE]
    /\ UNCHANGED <<exitCode, doing>>

\* runStartup starts the core lane.
Start ==
    /\ epoch = 0
    /\ Launch
    /\ UNCHANGED <<stopping, lastCrash, timers, stopVars, pipeVars, reqVars, executed, crashes,
                   countVars>>

\* A timer or a press comes in a later turn of the event loop than an exit does, and what the
\* core had written is delivered in the turn of its exit, before it or after it.
LaterTurn == \A e \in Epochs : reaped[e] => outbox[e] = <<>>

\* The backoff of a restart ends.
RestartDue ==
    /\ timers > 0
    /\ LaterTurn
    /\ timers' = timers - 1
    /\ Launch
    /\ UNCHANGED <<stopping, lastCrash, stopVars, pipeVars, reqVars, executed, crashes, countVars>>

\* rebuild: only from failed, and the crash window starts over.
Rebuild ==
    /\ Failed
    /\ LaterTurn
    /\ rebuilds < scenario.rebuilds
    /\ rebuilds' = rebuilds + 1
    /\ lastCrash' = "never"
    /\ crashes' = 0
    /\ Launch
    /\ UNCHANGED <<stopping, timers, stopVars, pipeVars, reqVars, executed, scenario, windows,
                   faults>>

\* CoreClient.request.
Request(r) ==
    /\ r \in scenario.asked /\ epoch > 0
    /\ req[r] = "idle"
    /\ req' = [req EXCEPT ![r] = IF Failed THEN RestartError(r) ELSE "pending"]
    /\ askedIn' = [askedIn EXCEPT ![r] = epoch]
    /\ IF CanSend /\ ~stdinEnded[child]
       THEN /\ sentTo' = [sentTo EXCEPT ![r] = child]
            /\ inbox' = IF phase[child] \in Alive
                        THEN [inbox EXCEPT ![child] = Append(@, r)] ELSE inbox
       ELSE UNCHANGED <<sentTo, inbox>>
    /\ lane' = IF WriteAfterEnd THEN "spawn" ELSE lane
    /\ UNCHANGED <<epoch, child, stopping, lastCrash, timers, stopVars, coreVars, reaped,
                   stdinEnded, outbox, executed, crashes, countVars>>

-----------------------------------------------------------------------------
(* What the core does.                                                       *)

Exit(e, code) ==
    /\ phase' = [phase EXCEPT ![e] = "dead"]
    /\ exitCode' = [exitCode EXCEPT ![e] = code]
    /\ doing' = [doing EXCEPT ![e] = Idle]

LockHeld == \E e \in Epochs : phase[e] \in Alive \ {"spawned"}

\* CoreLock::acquire; a core that finds it held exits.
TakeLock(e) ==
    /\ phase[e] = "spawned"
    /\ IF LockHeld THEN Exit(e, "lock_held")
       ELSE phase' = [phase EXCEPT ![e] = "locked"] /\ UNCHANGED <<exitCode, doing>>
    /\ UNCHANGED <<shellVars, stopVars, reaped, pipeVars, reqVars, executed, crashes, countVars>>

\* send_hello, the first frame on stdout.
Greet(e) ==
    /\ phase[e] = "locked"
    /\ phase' = [phase EXCEPT ![e] = "greeted"]
    /\ outbox' = [outbox EXCEPT ![e] = Append(@, Hello)]
    /\ UNCHANGED <<shellVars, stopVars, exitCode, doing, reaped, stdinEnded, inbox, reqVars,
                   executed, crashes, countVars>>

\* open_index, which exits the process when the index is one it cannot open.
OpenIndex(e) ==
    /\ phase[e] = "greeted"
    /\ \/ /\ phase' = [phase EXCEPT ![e] = "serving"]
          /\ UNCHANGED <<exitCode, doing, faults>>
       \/ /\ faults < scenario.faults
          /\ faults' = faults + 1
          /\ Exit(e, "index_fatal")
    /\ UNCHANGED <<shellVars, stopVars, reaped, pipeVars, reqVars, executed, crashes, windows,
                   scenario, rebuilds>>

\* run_loop takes the next request.  Its handler acts and answers, refuses before it has acted,
\* or fails once it has: handle_launch's session row may be refused after the spawn.
Handle(e) ==
    /\ phase[e] = "serving"
    /\ doing[e] = Idle
    /\ inbox[e] # <<>>
    /\ inbox' = [inbox EXCEPT ![e] = Tail(@)]
    /\ \E acts \in BOOLEAN, ok \in BOOLEAN :
        /\ ok => acts
        /\ doing' = [doing EXCEPT ![e] = [id |-> Head(inbox[e]), ok |-> ok]]
        /\ executed' = IF acts THEN [executed EXCEPT ![Head(inbox[e])] = @ + 1] ELSE executed
    /\ UNCHANGED <<shellVars, stopVars, phase, exitCode, reaped, stdinEnded, outbox, reqVars,
                   crashes, countVars>>

\* respond.
Respond(e) ==
    /\ phase[e] = "serving"
    /\ doing[e] # Idle
    /\ outbox' = [outbox EXCEPT ![e] = Append(@, IF doing[e].ok THEN Response(doing[e].id)
                                                 ELSE Error(doing[e].id))]
    /\ doing' = [doing EXCEPT ![e] = Idle]
    /\ UNCHANGED <<shellVars, stopVars, phase, exitCode, reaped, stdinEnded, inbox, reqVars,
                   executed, crashes, countVars>>

\* stdin has ended and every request before the end is answered: the loop breaks, the handler
\* shuts down and the process exits.
ExitAtEof(e) ==
    /\ phase[e] = "serving"
    /\ stdinEnded[e] /\ inbox[e] = <<>> /\ doing[e] = Idle
    /\ Exit(e, "success")
    /\ UNCHANGED <<shellVars, stopVars, reaped, pipeVars, reqVars, executed, crashes, countVars>>

Crash(e) ==
    /\ phase[e] \in Alive
    /\ faults < scenario.faults
    /\ faults' = faults + 1
    /\ Exit(e, "signal")
    /\ UNCHANGED <<shellVars, stopVars, reaped, pipeVars, reqVars, executed, crashes, windows,
                   scenario, rebuilds>>

-----------------------------------------------------------------------------
(* What the shell hears from it.                                             *)

\* dispatch of a hello that sends a pending request again.
HelloReplays(e) ==
    /\ lane' = "ready"
    /\ IF child # 0 /\ phase[child] \in Alive /\ Pending # {}
       THEN \E r \in Pending : inbox' = [inbox EXCEPT ![child] = Append(@, r)]
       ELSE UNCHANGED inbox
    /\ UNCHANGED coreVars

\* dispatch of a hello: of whichever core, in whatever lane.  Its ack may be the write that
\* finds stdin ended.
OnHello(e) ==
    /\ UNCHANGED inbox
    /\ \E matches \in IF scenario.trouble = "protocol" THEN BOOLEAN ELSE {TRUE} :
       IF matches
       THEN /\ lane' = IF WriteAfterEnd THEN "spawn" ELSE "ready"
            /\ UNCHANGED coreVars
       ELSE /\ lane' = "protocol_version"
            /\ Kill(child, phase, exitCode)

\* dispatch of an answer: one from another epoch is dropped.
OnAnswer(e, f) ==
    /\ req' = IF e = epoch THEN Route(f) ELSE req
    /\ UNCHANGED <<lane, inbox, coreVars>>

\* The shell reads a frame of core e's stdout, its exit reported or not.
Read(e) ==
    /\ outbox[e] # <<>>
    /\ outbox' = [outbox EXCEPT ![e] = Tail(@)]
    /\ IF Head(outbox[e]) = Hello THEN OnHello(e) /\ UNCHANGED req
       ELSE OnAnswer(e, Head(outbox[e]))
    /\ UNCHANGED <<epoch, child, stopping, lastCrash, timers, stopVars, reaped, stdinEnded,
                   askedIn, sentTo, executed, crashes, countVars>>

\* The restart policy without the crash loop.
AlwaysRestart ==
    /\ lane' = "restarting"
    /\ timers' = timers + 1
    /\ lastCrash' = "recent"

\* The restart policy that reports a restart and schedules none.
RestartUnscheduled ==
    /\ lastCrash' = "recent"
    /\ lane' = IF lastCrash = "recent" THEN "crash_loop" ELSE "restarting"
    /\ UNCHANGED timers

\* A crash restarts the core after the backoff; a second one inside the window ends that.
RestartPolicy ==
    /\ lastCrash' = "recent"
    /\ IF lastCrash = "recent"
       THEN lane' = "crash_loop" /\ UNCHANGED timers
       ELSE lane' = "restarting" /\ timers' = timers + 1

\* onDeath.  It is told the code of the core that died and not which core that was.
OnDeath(e) ==
    /\ child' = 0
    /\ stop' = IF stop = "waiting" THEN "exited" ELSE stop
    /\ req' = RejectAllPending
    /\ IF stopping \/ Failed THEN UNCHANGED <<lane, lastCrash, timers, crashes>>
       ELSE IF exitCode[e] = "index_fatal"
       THEN lane' = "index_fatal" /\ UNCHANGED <<lastCrash, timers, crashes>>
       ELSE RestartPolicy /\ crashes' = crashes + 1

ExitReported(e) ==
    /\ phase[e] = "dead"
    /\ ~reaped[e]
    /\ reaped' = [reaped EXCEPT ![e] = TRUE]
    /\ OnDeath(e)
    /\ UNCHANGED <<epoch, stopping, stopChild, coreVars, pipeVars, askedIn, sentTo, executed,
                   countVars>>

\* CRASH_LOOP_WINDOW_MS has gone by since the last crash.
WindowPasses ==
    /\ lastCrash = "recent"
    /\ windows < scenario.windows
    /\ windows' = windows + 1
    /\ lastCrash' = "old"
    /\ crashes' = 0
    /\ UNCHANGED <<lane, epoch, child, stopping, timers, stopVars, coreVars, reaped, pipeVars,
                   reqVars, executed, scenario, faults, rebuilds>>

-----------------------------------------------------------------------------
(* Quitting: the gate runs stopAndWait once.                                 *)

StopAndWait ==
    /\ epoch > 0
    /\ stop = "none"
    /\ stopping' = TRUE
    /\ stopChild' = child
    /\ IF child = 0
       THEN stop' = "not-running" /\ UNCHANGED stdinEnded
       ELSE stop' = "waiting" /\ stdinEnded' = [stdinEnded EXCEPT ![child] = TRUE]
    /\ UNCHANGED <<lane, epoch, child, lastCrash, timers, coreVars, reaped, inbox, outbox, reqVars,
                   executed, crashes, countVars>>

\* A deadline that kills and leaves the promise to the exit.
StopDeadlineKills ==
    /\ stop = "waiting"
    /\ Kill(stopChild, phase, exitCode)
    /\ UNCHANGED <<shellVars, stopVars, reaped, pipeVars, reqVars, executed, crashes, countVars>>

\* CORE_STOP_DEADLINE_MS passes with the promise unsettled.
StopDeadline ==
    /\ stop = "waiting"
    /\ stop' = "timed-out"
    /\ Kill(stopChild, phase, exitCode)
    /\ UNCHANGED <<shellVars, stopChild, reaped, pipeVars, reqVars, executed, crashes, countVars>>

-----------------------------------------------------------------------------
Init ==
    /\ lane = "starting" /\ epoch = 0 /\ child = 0 /\ stopping = FALSE
    /\ lastCrash = "never" /\ timers = 0
    /\ stop = "none" /\ stopChild = 0
    /\ phase = [e \in Epochs |-> "unborn"]
    /\ exitCode = [e \in Epochs |-> "none"]
    /\ reaped = [e \in Epochs |-> FALSE]
    /\ stdinEnded = [e \in Epochs |-> FALSE]
    /\ inbox = [e \in Epochs |-> <<>>]
    /\ outbox = [e \in Epochs |-> <<>>]
    /\ doing = [e \in Epochs |-> Idle]
    /\ req = [r \in Requests |-> "idle"]
    /\ askedIn = [r \in Requests |-> 0]
    /\ sentTo = [r \in Requests |-> 0]
    /\ executed = [r \in Requests |-> 0]
    /\ scenario \in Scenarios /\ crashes = 0 /\ windows = 0 /\ faults = 0 /\ rebuilds = 0

CoreStep(e) == TakeLock(e) \/ Greet(e) \/ OpenIndex(e) \/ Handle(e) \/ Respond(e) \/ ExitAtEof(e)

Next ==
    \/ Start \/ RestartDue \/ Rebuild \/ WindowPasses
    \/ StopAndWait \/ StopDeadline
    \/ \E r \in Requests : Request(r)
    \/ \E e \in Epochs : CoreStep(e) \/ Crash(e) \/ Read(e) \/ ExitReported(e)

Spec == Init /\ [][Next]_vars

\* The scheduler runs a live core, libuv delivers what a pipe holds and every exit, and timers
\* fire; users, crashes and the crash window owe nothing.
Fairness ==
    /\ WF_vars(RestartDue) /\ WF_vars(StopDeadline)
    /\ \A e \in Epochs : WF_vars(CoreStep(e)) /\ WF_vars(Read(e)) /\ WF_vars(ExitReported(e))

FairSpec == Spec /\ Fairness

-----------------------------------------------------------------------------
(* Properties.                                                               *)

Lanes == {"starting", "ready", "restarting"} \cup Failures
Doing == {Idle} \cup [id : Requests, ok : BOOLEAN]

\* Every variable holds a value of its kind.
TypeOK ==
    /\ lane \in Lanes /\ epoch \in 0..MaxEpoch /\ child \in 0..MaxEpoch
    /\ stopping \in BOOLEAN /\ lastCrash \in {"never", "recent", "old"} /\ timers \in Nat
    /\ stop \in {"none", "waiting", "exited", "timed-out", "not-running"}
    /\ stopChild \in 0..MaxEpoch
    /\ phase \in [Epochs -> {"unborn", "dead"} \cup Alive]
    /\ exitCode \in [Epochs -> {"none", "success", "signal", "lock_held", "index_fatal"}]
    /\ reaped \in [Epochs -> BOOLEAN] /\ stdinEnded \in [Epochs -> BOOLEAN]
    /\ inbox \in [Epochs -> Seq(Requests)] /\ outbox \in [Epochs -> Seq(Frames)]
    /\ doing \in [Epochs -> Doing]
    /\ req \in [Requests -> {"idle", "pending", "resolved", "refused", "retryable", "unknown"}]
    /\ askedIn \in [Requests -> 0..MaxEpoch] /\ sentTo \in [Requests -> 0..MaxEpoch]
    /\ executed \in [Requests -> Nat]
    /\ crashes \in Nat /\ windows \in Nat /\ faults \in Nat /\ rebuilds \in Nat

\* A write reaches the core at most once, whatever dies in between: a replayed launch opens the
\* editor twice (client.ts:4-6).
NeverReplayed == \A r \in Writes : executed[r] <= 1

\* Two crashes inside one window leave no restart to come (supervisor.ts:4-5), while every core
\* speaks the shell's protocol: the exit of one killed at its hello may count against the next.
CrashLoopStops == (scenario.trouble = "spawn" /\ crashes >= 2) => timers = 0

\* A lane that is starting or restarting comes to ready or failed, or the shell is quitting.
LaneSettles ==
    (epoch > 0 /\ lane \in {"starting", "restarting"}) ~> 
        (lane \notin {"starting", "restarting"} \/ stopping)

\* A request that was written to a core is answered or rejected, however that core ends.
SentIsSettled == \A r \in Requests : (req[r] = "pending" /\ sentTo[r] # 0) ~> (req[r] # "pending")

\* The quit step that stops the core ends, though the core may be gone, deaf or orphaned.
StopEnds == (stop = "waiting") ~> (stop # "waiting")

\* Said of the program (supervisor.ts:83): every pending request dies with its epoch.
PendingDiesWithItsEpoch == \A r \in Pending : askedIn[r] = epoch

\* Said of the program (index.ts:698): once the quit step has resolved, the core is gone.
QuitLeavesNoCore == stop \in {"exited", "timed-out", "not-running"} => \A e \in Epochs : phase[e] \notin Alive
=============================================================================
