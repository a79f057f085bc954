-------------------------------- MODULE Install --------------------------------
(***************************************************************************)
(* Installs (core/src/install): each accepted start is a row, a place in a *)
(* queue and a thread that clones into a staging directory, renames it     *)
(* onto the destination, indexes that and marks the row done; a thread     *)
(* that fails removes the staging directory and records why.  Starts,      *)
(* cancels, threads, the user and a crash interleave.                      *)
(*                                                                         *)
(* A destination has one staging directory, derived from it, so two starts *)
(* before either lands share both.  A directory is [by, whole]: who wrote  *)
(* it and whether the clone is complete.                                   *)
(*                                                                         *)
(* Abstracted: what composes a destination apart from its being free,      *)
(* stages and events, which repository it is (Identity), the job queued.   *)
(* External: git clone, which fails rather than finish once its directory  *)
(* is no longer the one it made.                                           *)
(***************************************************************************)
EXTENDS Naturals, SequencesExt

CONSTANTS
    None,
    User,        \* who else puts a directory at a destination
    Dests,
    MaxRuns,     \* starts accepted
    MaxCancels,  \* runs the user cancels
    MaxOccupied, \* directories the user makes
    MaxFaults,   \* index writes, commits and removals that fail
    MaxCrashes

ASSUME InstallAssumption ==
    /\ User \notin Nat
    /\ {MaxRuns, MaxCancels, MaxOccupied, MaxFaults, MaxCrashes} \subseteq Nat

VARIABLES
    runs,        \* install_run's rows, each with its thread
    inFlight,    \* InstallQueue: the run it holds as running, or None
    waiting,     \* InstallQueue: the runs behind it
    staging,     \* [Dests -> a directory or None]
    disk,        \* [Dests -> a directory or None]
    rows,        \* the destinations with a location row
    left         \* of each bounded thing, what may still happen

installVars == <<runs, inFlight, waiting, staging, disk, rows, left>>

Spend(what) == left[what] > 0 /\ left' = [left EXCEPT ![what] = @ - 1]
\* What may go wrong, and then costs one of the bounded faults.
Fault == Spend("faults")

InstallInit ==
    /\ runs = <<>>
    /\ inFlight = None
    /\ waiting = <<>>
    /\ staging = [d \in Dests |-> None]
    /\ disk = [d \in Dests |-> None]
    /\ rows = {}
    /\ left = [cancels |-> MaxCancels, occupied |-> MaxOccupied, faults |-> MaxFaults,
               crashes |-> MaxCrashes]

To(r, pc) == runs' = [runs EXCEPT ![r].pc = pc]

Fail(r, reason) == runs' = [runs EXCEPT ![r].pc = "cleanup", ![r].reason = reason]

Here(r) == staging[runs[r].dest]
Mine(r) == Here(r) # None /\ Here(r).by = r

-----------------------------------------------------------------------------
(* The command loop                                                         *)

\* handle_start: the destination is free; the row, the queue, and a thread at
\* once, whatever the queue says.  A commit that fails takes the row back and
\* not the place in the queue, which the next row's id, the same, then shares.
InstallStart(d) ==
    /\ Len(runs) < MaxRuns
    /\ disk[d] = None
    /\ LET r == Len(runs) + 1
       IN  IF inFlight = None
           THEN inFlight' = r /\ UNCHANGED waiting
           ELSE waiting' = Append(waiting, r) /\ UNCHANGED inFlight
    /\ \/ /\ runs' = Append(runs, [dest |-> d, pc |-> "begun", state |-> "running",
                                    token |-> FALSE, cancelled |-> FALSE, reason |-> None])
          /\ UNCHANGED left
       \/ Fault /\ UNCHANGED runs
    /\ UNCHANGED <<staging, disk, rows>>

\* cancel_install: the token, where the queue has one.
Cancel(r) ==
    /\ runs[r].token /\ ~runs[r].cancelled
    /\ Spend("cancels")
    /\ runs' = [runs EXCEPT ![r].cancelled = TRUE]
    /\ UNCHANGED <<inFlight, waiting, staging, disk, rows>>

-----------------------------------------------------------------------------
(* A run's thread                                                           *)

Register(r) ==
    /\ runs[r].pc = "begun"
    /\ runs' = [runs EXCEPT ![r].token = TRUE, ![r].pc = "spawn"]
    /\ UNCHANGED <<inFlight, waiting, staging, disk, rows, left>>

\* git clone refuses a directory that is not empty.
CloneBegins(r) ==
    /\ runs[r].pc = "spawn"
    /\ IF Here(r) = None /\ ~runs[r].cancelled
       THEN /\ staging' = [staging EXCEPT ![runs[r].dest] = [by |-> r, whole |-> FALSE]]
            /\ To(r, "cloning")
       ELSE /\ Fail(r, IF runs[r].cancelled THEN "cancelled" ELSE "git_failed")
            /\ UNCHANGED staging
    /\ UNCHANGED <<inFlight, waiting, disk, rows, left>>

CloneEnds(r) ==
    /\ runs[r].pc = "cloning"
    /\ Mine(r) /\ ~runs[r].cancelled
    /\ staging' = [staging EXCEPT ![runs[r].dest].whole = TRUE]
    /\ To(r, "rename")
    /\ UNCHANGED <<inFlight, waiting, disk, rows, left>>

\* Killed, or git gave up; it may take its half clone with it.
CloneFails(r) ==
    /\ runs[r].pc = "cloning"
    /\ Fail(r, IF runs[r].cancelled THEN "cancelled" ELSE "git_failed")
    /\ \/ UNCHANGED staging
       \/ Mine(r) /\ staging' = [staging EXCEPT ![runs[r].dest] = None]
    /\ UNCHANGED <<inFlight, waiting, disk, rows, left>>

\* rename(staging, destination): whatever stands there by now.
Rename(r) ==
    /\ runs[r].pc = "rename"
    /\ LET d == runs[r].dest
       IN  IF staging[d] # None /\ disk[d] = None
           THEN /\ disk' = [disk EXCEPT ![d] = staging[d]]
                /\ staging' = [staging EXCEPT ![d] = None]
                /\ To(r, "index")
           ELSE Fail(r, "rename_failed") /\ UNCHANGED <<disk, staging>>
    /\ UNCHANGED <<inFlight, waiting, rows, left>>

\* A hand-off that failed and was let pass.
IndexFailsQuietly(r) == To(r, "mark") /\ UNCHANGED rows

IndexFails(r) == Fail(r, "git_failed") /\ UNCHANGED rows

\* index_destination through the hand-off, whose probe holds the run's token.
IndexDestination(r) ==
    /\ runs[r].pc = "index"
    /\ \/ /\ rows' = rows \cup {runs[r].dest}
          /\ To(r, "mark")
          /\ ~runs[r].cancelled /\ disk[runs[r].dest] # None
          /\ UNCHANGED left
       \/ IndexFails(r) /\ Fault
       \/ /\ runs[r].cancelled \/ disk[runs[r].dest] = None
          /\ IndexFails(r) /\ UNCHANGED left
    /\ UNCHANGED <<inFlight, waiting, staging, disk>>

MarkDone(r) ==
    /\ runs[r].pc = "mark"
    /\ \/ runs' = [runs EXCEPT ![r].state = "done", ![r].pc = "finish"] /\ UNCHANGED left
       \/ Fail(r, "rename_failed") /\ Fault
    /\ UNCHANGED <<inFlight, waiting, staging, disk, rows>>

\* finish_failed that clears up after a cancel alone.
CleanUpCancelled(r) ==
    /\ runs[r].pc = "cleanup"
    /\ staging' = IF runs[r].reason = "cancelled"
                  THEN [staging EXCEPT ![runs[r].dest] = None] ELSE staging
    /\ To(r, "record")
    /\ UNCHANGED <<inFlight, waiting, disk, rows, left>>

\* finish_failed: its directory goes, under the warrant its row makes.
CleanUp(r) ==
    /\ runs[r].pc = "cleanup"
    /\ \/ staging' = [staging EXCEPT ![runs[r].dest] = None] /\ UNCHANGED left
       \/ Here(r) # None /\ UNCHANGED staging /\ Fault
    /\ To(r, "record")
    /\ UNCHANGED <<inFlight, waiting, disk, rows>>

\* finish_failed that records a cancel alone.
RecordCancelled(r) ==
    /\ runs[r].pc = "record"
    /\ runs' = [runs EXCEPT ![r].pc = "finish",
                   ![r].state = IF runs[r].reason = "cancelled" THEN "cancelled" ELSE @]
    /\ UNCHANGED <<inFlight, waiting, staging, disk, rows, left>>

\* finish_failed: why, unless the write fails.
RecordEnd(r) ==
    /\ runs[r].pc = "record"
    /\ \/ /\ runs' = [runs EXCEPT ![r].pc = "finish",
                         ![r].state = IF runs[r].reason = "cancelled" THEN "cancelled"
                                      ELSE "failed"]
          /\ UNCHANGED left
       \/ To(r, "finish") /\ Fault
    /\ UNCHANGED <<inFlight, waiting, staging, disk, rows>>

\* InstallQueue::finish: the run in flight retires and the next takes its
\* place; one that was not in flight stays where it is.
Finish(r) ==
    /\ runs[r].pc = "finish"
    /\ IF inFlight = r
       THEN /\ inFlight' = IF waiting = <<>> THEN None ELSE Head(waiting)
            /\ waiting' = IF waiting = <<>> THEN <<>> ELSE Tail(waiting)
            /\ runs' = [runs EXCEPT ![r].pc = "over", ![r].token = FALSE]
       ELSE To(r, "over") /\ UNCHANGED <<inFlight, waiting>>
    /\ UNCHANGED <<staging, disk, rows, left>>

-----------------------------------------------------------------------------
\* A user makes a directory where the clone is to land.
Occupy(d) ==
    /\ disk[d] = None
    /\ Spend("occupied")
    /\ disk' = [disk EXCEPT ![d] = [by |-> User, whole |-> TRUE]]
    /\ UNCHANGED <<runs, inFlight, waiting, staging, rows>>

\* The core dies with its threads and its queue; rows and directories stay.
CoreDies ==
    /\ Spend("crashes")
    /\ runs' = [r \in DOMAIN runs |-> [runs[r] EXCEPT !.pc = "over", !.token = FALSE]]
    /\ inFlight' = None /\ waiting' = <<>>
    /\ UNCHANGED <<staging, disk, rows>>

Thread(r) ==
    \/ Register(r) \/ CloneBegins(r) \/ CloneEnds(r) \/ CloneFails(r) \/ Rename(r)
    \/ IndexDestination(r) \/ MarkDone(r) \/ CleanUp(r) \/ RecordEnd(r) \/ Finish(r)

InstallNext ==
    \/ \E d \in Dests : InstallStart(d) \/ Occupy(d)
    \/ \E r \in DOMAIN runs : Cancel(r) \/ Thread(r)
    \/ CoreDies

\* A clone has no deadline: only its cancel is sure to end it.
Cloning(r) == runs[r].pc = "cloning" /\ ~runs[r].cancelled

\* Threads run; git owes nothing to who waits for its clone.
InstallSpec ==
    /\ InstallInit /\ [][InstallNext]_installVars
    /\ \A r \in 1..MaxRuns : WF_installVars(r \in DOMAIN runs /\ Thread(r) /\ ~Cloning(r))

-----------------------------------------------------------------------------
(* What must hold                                                           *)

InstallTypeOK ==
    /\ \A r \in DOMAIN runs :
        /\ runs[r].dest \in Dests
        /\ runs[r].state \in {"running", "done", "failed", "cancelled"}
        /\ runs[r].token => runs[r].pc # "begun"
    /\ inFlight \in 1..MaxRuns \cup {None}
    /\ ToSet(waiting) \subseteq 1..MaxRuns

\* A row that reads `done` has the copy it was for: its destination is indexed
\* and nothing of the run is left staged, wherever the core died.
DoneHasItsRow ==
    \A r \in DOMAIN runs : runs[r].state = "done" => runs[r].dest \in rows /\ ~Mine(r)

\* A run's end clears what it staged: a half clone outlives its run only over a
\* removal that failed or a core that died.
EndedRunsLeaveNoClone ==
    left.faults = MaxFaults /\ left.crashes = MaxCrashes =>
        \A r \in DOMAIN runs : runs[r].pc = "over" => ~Mine(r)

\* An accepted start ends, unless its clone runs on for ever and nobody cancels
\* it: its thread is over, and its row says how unless an index write failed or
\* the core died.  A cancel ends a clone that hangs, and a clone that hangs
\* keeps no other start from ending.
Settled(r) ==
    /\ runs[r].pc = "over"
    /\ runs[r].state # "running" \/ left.faults < MaxFaults \/ left.crashes < MaxCrashes

StartsEnd ==
    \A r \in 1..MaxRuns :
        r \in DOMAIN runs ~>
            (r \in DOMAIN runs /\ Settled(r)) \/ [](r \in DOMAIN runs /\ Cloning(r))

\* run_install: the rename is atomic, "there is no window in which the
\* destination is half written".
NeverHalfWritten == \A d \in Dests : disk[d] # None => disk[d].whole

===============================================================================
