----------------------- MODULE CoreAndInstall_proofs -----------------------
(***************************************************************************)
(* Proofs about two components that share no state, in two parts.          *)
(*                                                                         *)
(* CoreSupervisor: its types, for which the starts of a scenario must be   *)
(* counted; that a request takes effect at most once, whatever dies; and   *)
(* that two crashes inside one window leave no restart.                    *)
(*                                                                         *)
(* Install: for any destinations, any number of starts, cancels, failed    *)
(* writes and crashes, a row that reads `done` has its copy indexed and    *)
(* nothing of it staged, and a run that ended without a failed removal or  *)
(* a crash left no clone behind.  Neither property is inductive.  A run    *)
(* that is to be marked done must have indexed its destination already,    *)
(* and the staging directory of the destination, which other runs share,   *)
(* must not be its own from the rename on: Inv says where a run's          *)
(* directory can stand, pc by pc, and that whoever wrote a staging         *)
(* directory is a run that started.                                        *)
(***************************************************************************)
EXTENDS CoreSupervisor, Install, SequenceTheorems, TLAPS

-----------------------------------------------------------------------------
(* The inductive invariants.                                               *)

(* What a start may still be owed to: the crash that restarts, the first.  *)
Unspent == (IF lastCrash # "recent" THEN 1 ELSE 0) + (IF epoch = 0 THEN 1 ELSE 0)

(* The starts made and scheduled, against those the scenario has.          *)
StartsCounted ==
    /\ scenario \in Scenarios
    /\ rebuilds <= scenario.rebuilds /\ windows <= scenario.windows
    /\ epoch + timers + Unspent <= 2 + 2 * rebuilds + windows

In(r, s) == \E i \in 1..Len(s) : s[i] = r

(* A request is written at most once, and not done while it waits.         *)
WrittenOnce ==
    /\ \A r \in Requests : executed[r] <= 1
    /\ \A r \in Requests : req[r] = "idle" => executed[r] = 0
    /\ \A e \in Epochs : \A i \in 1..Len(inbox[e]) :
         executed[inbox[e][i]] = 0 /\ req[inbox[e][i]] # "idle"
    /\ \A e \in Epochs, f \in Epochs : \A i \in 1..Len(inbox[e]), j \in 1..Len(inbox[f]) :
         inbox[e][i] = inbox[f][j] => e = f /\ i = j

(* Its exit has still to be reported.                                      *)
Owed(e) == phase[e] # "unborn" /\ ~reaped[e]

(* At most the core of this epoch is there, and none beside a restart to   *)
(* come or in a lane that has failed.                                      *)
OneCore ==
    /\ \A e \in Epochs : Owed(e) => e = epoch /\ ~Failed /\ timers = 0
    /\ timers <= 1
    /\ timers > 0 => ~Failed
    /\ epoch = 0 => ~Failed /\ timers = 0

(* The crashes of the window, and the core they may come from.             *)
CrashesCounted ==
    /\ crashes > 0 => lastCrash = "recent"
    /\ crashes >= 2 => timers = 0
    /\ \A e \in Epochs : stdinEnded[e] => stopping
    /\ ~stopping => OneCore

CrashInv == scenario.trouble = "spawn" => CrashesCounted

-----------------------------------------------------------------------------
(* Types.                                                                  *)

(* What a request becomes when its epoch ends, or when an answer names it. *)
LEMMA ReqTypes ==
  ASSUME TypeOK
  PROVE  /\ RejectAllPending \in [Requests -> {"idle", "pending", "resolved", "refused", "retryable", "unknown"}]
         /\ \A f : Route(f) \in [Requests -> {"idle", "pending", "resolved", "refused", "retryable", "unknown"}]
  <1>1. \A r \in Requests : RestartError(r) \in {"retryable", "unknown"}
    BY DEF RestartError
  <1> QED BY <1>1 DEF TypeOK, RejectAllPending, Route, Pending

(* The core that is killed and the others keep their types.                *)
LEMMA KillTypes ==
  ASSUME TypeOK, NEW c \in 0..MaxEpoch, Kill(c, phase, exitCode)
  PROVE  /\ phase' \in [Epochs -> {"unborn", "dead"} \cup Alive]
         /\ exitCode' \in [Epochs -> {"none", "success", "signal", "lock_held", "index_fatal"}]
         /\ doing' \in [Epochs -> Doing]
  BY DEF TypeOK, Kill, Doing

(* So do those of a core that ends by itself.                              *)
LEMMA ExitTypes ==
  ASSUME TypeOK, NEW e \in Epochs, NEW code \in {"success", "signal", "lock_held", "index_fatal"},
         Exit(e, code)
  PROVE  /\ phase' \in [Epochs -> {"unborn", "dead"} \cup Alive]
         /\ exitCode' \in [Epochs -> {"none", "success", "signal", "lock_held", "index_fatal"}]
         /\ doing' \in [Epochs -> Doing]
  BY DEF TypeOK, Exit, Doing

(* A launch that has an epoch left keeps the types.                        *)
LEMMA LaunchTypes ==
  ASSUME TypeOK, epoch + 1 <= MaxEpoch, Launch
  PROVE  /\ lane' \in Lanes /\ epoch' \in 0..MaxEpoch /\ child' \in 0..MaxEpoch
         /\ phase' \in [Epochs -> {"unborn", "dead"} \cup Alive]
         /\ exitCode' \in [Epochs -> {"none", "success", "signal", "lock_held", "index_fatal"}]
         /\ doing' \in [Epochs -> Doing]
         /\ reaped' \in [Epochs -> BOOLEAN]
  <1>1. MaxEpoch \in Nat /\ epoch \in Nat
    BY EpochsAssumption DEF TypeOK
  <1>2. epoch + 1 \in Epochs /\ epoch + 1 \in 0..MaxEpoch
    BY <1>1 DEF Epochs
  <1> QED BY <1>2 DEF TypeOK, Launch, Lanes, Failures, Alive

(* There is an epoch left for every start.                                 *)
LEMMA EpochLeft ==
  ASSUME TypeOK, StartsCounted, Start \/ RestartDue \/ Rebuild
  PROVE  epoch + 1 <= MaxEpoch
  <1>1. /\ scenario.rebuilds \in Nat /\ scenario.windows \in Nat /\ MaxEpoch \in Nat
        /\ MaxEpoch >= 2 + 2 * scenario.rebuilds + scenario.windows
    BY ScenariosAssumption, EpochsAssumption DEF StartsCounted
  <1>2. epoch \in Nat /\ timers \in Nat /\ Unspent \in Nat /\ rebuilds \in Nat /\ windows \in Nat
    BY DEF TypeOK, Unspent
  <1>3. CASE Start
    BY <1>1, <1>2, <1>3 DEF Start
  <1>4. CASE RestartDue
    BY <1>1, <1>2, <1>4 DEF RestartDue, StartsCounted
  <1>5. CASE Rebuild
    BY <1>1, <1>2, <1>5 DEF Rebuild, StartsCounted
  <1> QED BY <1>3, <1>4, <1>5

(* A step keeps the types.                                                 *)
LEMMA TypeStep ==
  ASSUME TypeOK, StartsCounted, [Next]_vars
  PROVE  TypeOK'
  <1> USE DEF TypeOK
  <1>a. MaxEpoch \in Nat
    BY EpochsAssumption
  <1>b. \A r \in Requests : RestartError(r) \in {"retryable", "unknown"}
    BY DEF RestartError
  <1>1. CASE Start
    BY <1>1, EpochLeft, LaunchTypes DEF Start, stopVars, pipeVars, reqVars, countVars
  <1>2. CASE RestartDue
    <2>1. timers - 1 \in Nat
      BY <1>2 DEF RestartDue
    <2> QED BY <1>2, <2>1, EpochLeft, LaunchTypes DEF RestartDue, stopVars, pipeVars, reqVars, countVars
  <1>3. CASE Rebuild
    BY <1>3, EpochLeft, LaunchTypes, SMTT(30) DEF Rebuild, stopVars, pipeVars, reqVars, countVars
  <1>4. CASE WindowPasses
    BY <1>4 DEF WindowPasses, stopVars, coreVars, pipeVars, reqVars
  <1>5. CASE StopAndWait
    BY <1>5 DEF StopAndWait, coreVars, reqVars, countVars
  <1>6. CASE StopDeadline
    BY <1>6, KillTypes DEF StopDeadline, shellVars, pipeVars, reqVars, countVars
  <1>7. ASSUME NEW r \in Requests, Request(r) PROVE TypeOK'
    <2>1. child \in Epochs => Append(inbox[child], r) \in Seq(Requests)
      OBVIOUS
    <2>2. inbox' \in [Epochs -> Seq(Requests)]
      <3>1. CanSend => child \in Epochs
        BY <1>a DEF CanSend, Epochs
      <3> QED BY <1>7, <2>1, <3>1 DEF Request
    <2>3. sentTo' \in [Requests -> 0..MaxEpoch]
      BY <1>7 DEF Request
    <2>4. req' \in [Requests -> {"idle", "pending", "resolved", "refused", "retryable", "unknown"}]
      BY <1>7, <1>b DEF Request
    <2>5. lane' \in Lanes /\ askedIn' \in [Requests -> 0..MaxEpoch]
      BY <1>7 DEF Request, Lanes, Failures
    <2> QED BY <1>7, <2>2, <2>3, <2>4, <2>5 DEF Request, stopVars, coreVars, countVars
  <1>8. ASSUME NEW e \in Epochs, CoreStep(e) PROVE TypeOK'
    <2>1. CASE TakeLock(e)
      <3>1. CASE LockHeld
        BY <2>1, <3>1, ExitTypes DEF TakeLock, shellVars, stopVars, pipeVars, reqVars, countVars
      <3>2. CASE ~LockHeld
        BY <2>1, <3>2 DEF TakeLock, Alive, shellVars, stopVars, pipeVars, reqVars, countVars
      <3> QED BY <3>1, <3>2
    <2>2. CASE Greet(e)
      <3>0. Hello \in Frames
        BY DEF Frames
      <3>1. Append(outbox[e], Hello) \in Seq(Frames)
        BY <3>0
      <3> QED BY <2>2, <3>1 DEF Greet, Alive, shellVars, stopVars, reqVars, countVars
    <2>3. CASE OpenIndex(e)
      <3>1. CASE Exit(e, "index_fatal") /\ faults' = faults + 1
        BY <2>3, <3>1, ExitTypes DEF OpenIndex, shellVars, stopVars, pipeVars, reqVars
      <3>2. CASE phase' = [phase EXCEPT ![e] = "serving"] /\ UNCHANGED <<exitCode, doing, faults>>
        BY <2>3, <3>2 DEF OpenIndex, Alive, shellVars, stopVars, pipeVars, reqVars
      <3> QED BY <2>3, <3>1, <3>2 DEF OpenIndex
    <2>4. CASE Handle(e)
      <3>1. Head(inbox[e]) \in Requests /\ Tail(inbox[e]) \in Seq(Requests)
        BY <2>4, HeadTailProperties DEF Handle
      <3>2. inbox' \in [Epochs -> Seq(Requests)]
        BY <2>4, <3>1 DEF Handle
      <3>3. \A ok \in BOOLEAN : [id |-> Head(inbox[e]), ok |-> ok] \in Doing
        BY <3>1 DEF Doing
      <3>4. doing' \in [Epochs -> Doing]
        BY <2>4, <3>3 DEF Handle
      <3>5. executed' \in [Requests -> Nat]
        BY <2>4, <3>1 DEF Handle
      <3> QED BY <2>4, <3>2, <3>4, <3>5 DEF Handle, shellVars, stopVars, reqVars, countVars
    <2>5. CASE Respond(e)
      <3>1. doing[e] \in [id : Requests, ok : BOOLEAN]
        BY <2>5 DEF Respond, Doing
      <3>2. Response(doing[e].id) \in Frames /\ Error(doing[e].id) \in Frames
        BY <3>1 DEF Frames
      <3>3. outbox' \in [Epochs -> Seq(Frames)]
        BY <2>5, <3>2 DEF Respond
      <3>4. doing' \in [Epochs -> Doing]
        BY <2>5 DEF Respond, Doing
      <3> QED BY <2>5, <3>3, <3>4 DEF Respond, shellVars, stopVars, reqVars, countVars
    <2>6. CASE ExitAtEof(e)
      BY <2>6, ExitTypes DEF ExitAtEof, shellVars, stopVars, pipeVars, reqVars, countVars
    <2> QED BY <1>8, <2>1, <2>2, <2>3, <2>4, <2>5, <2>6 DEF CoreStep
  <1>9. ASSUME NEW e \in Epochs, Crash(e) PROVE TypeOK'
    BY <1>9, ExitTypes DEF Crash, shellVars, stopVars, pipeVars, reqVars
  <1>10. ASSUME NEW e \in Epochs, Read(e) PROVE TypeOK'
    <2>1. outbox' \in [Epochs -> Seq(Frames)]
      <3>1. Tail(outbox[e]) \in Seq(Frames)
        BY <1>10, HeadTailProperties DEF Read
      <3> QED BY <1>10, <3>1 DEF Read
    <2>2. CASE OnHello(e) /\ UNCHANGED req
      <3>1. lane' \in Lanes
        BY <2>2 DEF OnHello, Lanes, Failures
      <3>2. /\ phase' \in [Epochs -> {"unborn", "dead"} \cup Alive]
            /\ exitCode' \in [Epochs -> {"none", "success", "signal", "lock_held", "index_fatal"}]
            /\ doing' \in [Epochs -> Doing]
        BY <2>2, KillTypes DEF OnHello, coreVars
      <3> QED BY <1>10, <2>1, <2>2, <3>1, <3>2 DEF Read, OnHello, stopVars, countVars
    <2>3. CASE OnAnswer(e, Head(outbox[e]))
      <3>1. req' \in [Requests -> {"idle", "pending", "resolved", "refused", "retryable", "unknown"}]
        BY <2>3, ReqTypes DEF OnAnswer
      <3> QED BY <1>10, <2>1, <2>3, <3>1 DEF Read, OnAnswer, stopVars, coreVars, countVars
    <2> QED BY <1>10, <2>2, <2>3 DEF Read
  <1>11. ASSUME NEW e \in Epochs, ExitReported(e) PROVE TypeOK'
    <2>1. req' \in [Requests -> {"idle", "pending", "resolved", "refused", "retryable", "unknown"}]
      BY <1>11, ReqTypes DEF ExitReported, OnDeath
    <2>2. /\ lane' \in Lanes /\ lastCrash' \in {"never", "recent", "old"}
          /\ timers' \in Nat /\ crashes' \in Nat
      BY <1>11 DEF ExitReported, OnDeath, RestartPolicy, Lanes, Failures
    <2>3. child' \in 0..MaxEpoch /\ stop' \in {"none", "waiting", "exited", "timed-out", "not-running"}
      BY <1>11, <1>a DEF ExitReported, OnDeath
    <2> QED BY <1>11, <2>1, <2>2, <2>3 DEF ExitReported, coreVars, pipeVars, countVars
  <1>12. CASE UNCHANGED vars
    BY <1>12 DEF vars, shellVars, stopVars, coreVars, pipeVars, reqVars, countVars
  <1> QED BY <1>1, <1>2, <1>3, <1>4, <1>5, <1>6, <1>7, <1>8, <1>9, <1>10, <1>11, <1>12 DEF Next

(* Every start is counted: a restart by the crash before it, a rebuild by  *)
(* its press.                                                              *)
LEMMA StartsStep ==
  ASSUME TypeOK, StartsCounted, [Next]_vars
  PROVE  StartsCounted'
  <1> USE DEF StartsCounted, Unspent
  <1>a. /\ epoch \in Nat /\ timers \in Nat /\ rebuilds \in Nat /\ windows \in Nat
        /\ scenario.rebuilds \in Nat /\ scenario.windows \in Nat
    BY ScenariosAssumption DEF TypeOK
  <1>1. CASE Start
    BY <1>1, <1>a DEF Start, Launch, countVars
  <1>2. CASE RestartDue
    BY <1>2, <1>a DEF RestartDue, Launch, countVars
  <1>3. CASE Rebuild
    BY <1>3, <1>a DEF Rebuild, Launch
  <1>4. CASE WindowPasses
    BY <1>4, <1>a DEF WindowPasses
  <1>5. CASE StopAndWait \/ StopDeadline \/ \E r \in Requests : Request(r)
    BY <1>5, <1>a DEF StopAndWait, StopDeadline, Request, shellVars, countVars
  <1>6. ASSUME NEW e \in Epochs, CoreStep(e) \/ Crash(e) \/ Read(e) PROVE StartsCounted'
    BY <1>6, <1>a DEF CoreStep, TakeLock, Greet, OpenIndex, Handle, Respond, ExitAtEof, Crash, Read,
                      shellVars, countVars
  <1>7. ASSUME NEW e \in Epochs, ExitReported(e) PROVE StartsCounted'
    BY <1>7, <1>a DEF ExitReported, OnDeath, RestartPolicy, countVars
  <1>8. CASE UNCHANGED vars
    BY <1>8 DEF vars, shellVars, countVars
  <1> QED BY <1>1, <1>2, <1>3, <1>4, <1>5, <1>6, <1>7, <1>8 DEF Next

(* Every variable holds a value of its kind, and each epoch is one the     *)
(* bound leaves room for: CoreSupervisor starts a core only for the first  *)
(* time, after a crash that is the first of its window, or at a REBUILD.   *)
THEOREM SpecTypeOK == Spec => [](TypeOK /\ StartsCounted)
  <1>1. Init => TypeOK /\ StartsCounted
    <2> SUFFICES ASSUME Init PROVE TypeOK /\ StartsCounted
      OBVIOUS
    <2>1. MaxEpoch \in Nat
      BY EpochsAssumption
    <2>2. scenario \in Scenarios /\ scenario.rebuilds \in Nat /\ scenario.windows \in Nat
      BY ScenariosAssumption DEF Init
    <2>3. StartsCounted
      BY <2>2 DEF Init, StartsCounted, Unspent
    <2>4. inbox \in [Epochs -> Seq(Requests)] /\ outbox \in [Epochs -> Seq(Frames)]
      BY DEF Init
    <2>5. doing \in [Epochs -> Doing] /\ lane \in Lanes
      BY DEF Init, Doing, Lanes
    <2>6. 0 \in 0..MaxEpoch
      BY <2>1
    <2>7. TypeOK
      BY <2>4, <2>5, <2>6 DEF Init, TypeOK
    <2> QED BY <2>3, <2>7
  <1>2. TypeOK /\ StartsCounted /\ [Next]_vars => (TypeOK /\ StartsCounted)'
    BY TypeStep, StartsStep
  <1> QED BY <1>1, <1>2, PTL DEF Spec

-----------------------------------------------------------------------------
(* A request takes effect at most once.                                    *)

(* A step that writes and handles no request, and forgets none.            *)
LEMMA WrittenOnceKept ==
  ASSUME WrittenOnce, UNCHANGED <<inbox, executed>>,
         \A r \in Requests : req'[r] = "idle" => req[r] = "idle",
         TypeOK, TypeOK'
  PROVE  WrittenOnce'
  <1>1. \A e \in Epochs : \A i \in 1..Len(inbox[e]) : inbox[e][i] \in Requests
    BY ElementOfSeq DEF TypeOK
  <1> QED BY <1>1 DEF WrittenOnce

(* An answer and the end of an epoch make no request new.                  *)
LEMMA NoneIsNew ==
  ASSUME TypeOK
  PROVE  /\ \A r \in Requests : RejectAllPending[r] = "idle" => req[r] = "idle"
         /\ \A f : \A r \in Requests : Route(f)[r] = "idle" => req[r] = "idle"
  BY DEF TypeOK, RejectAllPending, Route, RestartError, Pending

(* A step keeps the account of the writes.                                 *)
LEMMA WrittenOnceStep ==
  ASSUME TypeOK, TypeOK', WrittenOnce, [Next]_vars
  PROVE  WrittenOnce'
  <1>a. \A e \in Epochs : \A i \in 1..Len(inbox[e]) : inbox[e][i] \in Requests
    BY ElementOfSeq DEF TypeOK
  <1>1. CASE Start \/ RestartDue \/ Rebuild \/ WindowPasses \/ StopAndWait \/ StopDeadline
    BY <1>1, WrittenOnceKept DEF Start, RestartDue, Rebuild, WindowPasses, StopAndWait, StopDeadline,
                                 pipeVars, reqVars
  <1>2. ASSUME NEW r \in Requests, Request(r) PROVE WrittenOnce'
    <2>1. req[r] = "idle" /\ executed' = executed
      BY <1>2 DEF Request
    <2>2. req'[r] # "idle" /\ \A q \in Requests : q # r => req'[q] = req[q]
      BY <1>2 DEF Request, TypeOK, RestartError
    <2>3. CASE UNCHANGED inbox
      BY <2>1, <2>2, <2>3, WrittenOnceKept
    <2>4. CASE child \in Epochs /\ inbox' = [inbox EXCEPT ![child] = Append(@, r)]
      <3>1. inbox[child] \in Seq(Requests) /\ Len(inbox[child]) \in Nat
        BY <2>4 DEF TypeOK
      <3>2. /\ Len(inbox'[child]) = Len(inbox[child]) + 1
            /\ \A i \in 1..Len(inbox[child]) : inbox'[child][i] = inbox[child][i]
            /\ inbox'[child][Len(inbox[child]) + 1] = r
        BY <2>4, <3>1, AppendProperties DEF TypeOK
      <3>3. \A e \in Epochs : e # child => inbox'[e] = inbox[e]
        BY <2>4 DEF TypeOK
      <3>4. \A e \in Epochs : \A i \in 1..Len(inbox[e]) : inbox[e][i] # r
        BY <2>1 DEF WrittenOnce
      <3>5. \A e \in Epochs : \A i \in 1..Len(inbox'[e]) :
              \/ i \in 1..Len(inbox[e]) /\ inbox'[e][i] = inbox[e][i]
              \/ e = child /\ i = Len(inbox[child]) + 1 /\ inbox'[e][i] = r
        BY <3>1, <3>2, <3>3
      <3>6. \A e \in Epochs : \A i \in 1..Len(inbox'[e]) :
              executed'[inbox'[e][i]] = 0 /\ req'[inbox'[e][i]] # "idle"
        BY <1>a, <2>1, <2>2, <3>4, <3>5 DEF WrittenOnce
      <3>7. \A e \in Epochs, f \in Epochs : \A i \in 1..Len(inbox'[e]), j \in 1..Len(inbox'[f]) :
              inbox'[e][i] = inbox'[f][j] => e = f /\ i = j
        <4> SUFFICES ASSUME NEW e \in Epochs, NEW f \in Epochs, NEW i \in 1..Len(inbox'[e]),
                            NEW j \in 1..Len(inbox'[f]), inbox'[e][i] = inbox'[f][j]
                     PROVE  e = f /\ i = j
          OBVIOUS
        <4>1. \/ i \in 1..Len(inbox[e]) /\ inbox'[e][i] = inbox[e][i] /\ inbox'[e][i] # r
              \/ e = child /\ i = Len(inbox[child]) + 1 /\ inbox'[e][i] = r
          BY <3>4, <3>5, Zenon
        <4>2. \/ j \in 1..Len(inbox[f]) /\ inbox'[f][j] = inbox[f][j] /\ inbox'[f][j] # r
              \/ f = child /\ j = Len(inbox[child]) + 1 /\ inbox'[f][j] = r
          BY <3>4, <3>5, Zenon
        <4>3. CASE inbox'[e][i] = r
          BY <4>1, <4>2, <4>3
        <4>4. CASE inbox'[e][i] # r
          <5>1. /\ i \in 1..Len(inbox[e]) /\ j \in 1..Len(inbox[f])
                /\ inbox[e][i] = inbox[f][j]
            BY <4>1, <4>2, <4>4
          <5> QED BY <5>1, ZenonT(30) DEF WrittenOnce
        <4> QED BY <4>3, <4>4
      <3>8. \A q \in Requests : executed'[q] <= 1 /\ (req'[q] = "idle" => executed'[q] = 0)
        BY <2>1, <2>2 DEF WrittenOnce
      <3> QED BY <3>6, <3>7, <3>8 DEF WrittenOnce
    <2>5. CanSend => child \in Epochs
      BY EpochsAssumption DEF CanSend, TypeOK, Epochs
    <2> QED BY <1>2, <2>3, <2>4, <2>5 DEF Request
  <1>3. ASSUME NEW c \in Epochs, Handle(c) PROVE WrittenOnce'
    <2> DEFINE r == Head(inbox[c])
    <2>1. /\ inbox[c] \in Seq(Requests) /\ inbox[c] # <<>> /\ Len(inbox[c]) \in Nat
          /\ inbox' = [inbox EXCEPT ![c] = Tail(inbox[c])] /\ req' = req
          /\ executed' = executed \/ executed' = [executed EXCEPT ![r] = @ + 1]
      BY <1>3 DEF Handle, TypeOK, reqVars
    <2> HIDE DEF r
    <2>2. /\ 1 \in 1..Len(inbox[c]) /\ inbox[c][1] = r /\ r \in Requests
          /\ Len(inbox'[c]) = Len(inbox[c]) - 1
          /\ \A i \in 1..Len(inbox'[c]) : inbox'[c][i] = inbox[c][i + 1]
      <3>1. Len(inbox[c]) # 0 /\ r \in Requests
        BY <2>1, EmptySeq, HeadTailProperties DEF r
      <3>2. inbox[c][1] = r
        BY <2>1, <3>1 DEF r
      <3>3. inbox'[c] = Tail(inbox[c])
        BY <2>1 DEF TypeOK
      <3>4. /\ Len(Tail(inbox[c])) = Len(inbox[c]) - 1
            /\ \A i \in 1..Len(Tail(inbox[c])) : Tail(inbox[c])[i] = inbox[c][i + 1]
        BY <2>1, HeadTailProperties
      <3>5. 1 \in 1..Len(inbox[c])
        BY <2>1, <3>1
      <3>6. /\ Len(inbox'[c]) = Len(inbox[c]) - 1
            /\ \A i \in 1..Len(inbox'[c]) : inbox'[c][i] = inbox[c][i + 1]
        BY <3>3, <3>4, Zenon
      <3> QED BY <3>1, <3>2, <3>5, <3>6, Zenon
    <2>3. \A e \in Epochs : e # c => inbox'[e] = inbox[e]
      BY <2>1 DEF TypeOK
    <2>4. executed[r] = 0 /\ req[r] # "idle"
      BY <2>2 DEF WrittenOnce
    <2>5. \A q \in Requests : executed'[q] = executed[q] \/ (q = r /\ executed'[q] = 1)
      <3>1. executed \in [Requests -> Nat]
        BY DEF TypeOK
      <3>2. CASE executed' = [executed EXCEPT ![r] = @ + 1]
        BY <2>2, <2>4, <3>1, <3>2
      <3> QED BY <2>1, <3>2
    <2>6. \A e \in Epochs : \A i \in 1..Len(inbox'[e]) :
            IF e = c THEN i + 1 \in 2..Len(inbox[e]) /\ inbox'[e][i] = inbox[e][i + 1]
                     ELSE i \in 1..Len(inbox[e]) /\ inbox'[e][i] = inbox[e][i]
      BY <2>1, <2>2, <2>3
    <2>7. \A e \in Epochs : \A i \in 1..Len(inbox'[e]) : inbox'[e][i] # r /\ inbox'[e][i] \in Requests
      <3> SUFFICES ASSUME NEW e \in Epochs, NEW i \in 1..Len(inbox'[e])
                   PROVE  inbox'[e][i] # r /\ inbox'[e][i] \in Requests
        OBVIOUS
      <3>1. CASE e = c
        BY <1>a, <2>1, <2>2, <2>6, <3>1 DEF WrittenOnce
      <3>2. CASE e # c
        BY <1>a, <2>2, <2>6, <3>2 DEF WrittenOnce
      <3> QED BY <3>1, <3>2
    <2>8. \A e \in Epochs : \A i \in 1..Len(inbox'[e]) :
            executed'[inbox'[e][i]] = 0 /\ req'[inbox'[e][i]] # "idle"
      <3> SUFFICES ASSUME NEW e \in Epochs, NEW i \in 1..Len(inbox'[e])
                   PROVE  executed'[inbox'[e][i]] = 0 /\ req'[inbox'[e][i]] # "idle"
        OBVIOUS
      <3>1. executed[inbox'[e][i]] = 0 /\ req[inbox'[e][i]] # "idle"
        BY <2>1, <2>6 DEF WrittenOnce
      <3> QED BY <2>1, <2>5, <2>7, <3>1
    <2>9. \A e \in Epochs, f \in Epochs : \A i \in 1..Len(inbox'[e]), j \in 1..Len(inbox'[f]) :
            inbox'[e][i] = inbox'[f][j] => e = f /\ i = j
      <3> SUFFICES ASSUME NEW e \in Epochs, NEW f \in Epochs, NEW i \in 1..Len(inbox'[e]),
                          NEW j \in 1..Len(inbox'[f]), inbox'[e][i] = inbox'[f][j]
                   PROVE  e = f /\ i = j
        OBVIOUS
      <3>1. CASE e = c /\ f = c
        <4>1. i + 1 \in 1..Len(inbox[e]) /\ j + 1 \in 1..Len(inbox[f])
          BY <2>1, <2>6, <3>1
        <4>2. inbox[e][i + 1] = inbox[f][j + 1]
          BY <2>6, <3>1
        <4> QED BY <4>1, <4>2, <3>1 DEF WrittenOnce
      <3>2. CASE ~(e = c /\ f = c)
        BY <2>1, <2>6, <3>2 DEF WrittenOnce
      <3> QED BY <3>1, <3>2
    <2>10. \A q \in Requests : executed'[q] <= 1 /\ (req'[q] = "idle" => executed'[q] = 0)
      BY <2>1, <2>4, <2>5 DEF WrittenOnce
    <2> QED BY <2>8, <2>9, <2>10 DEF WrittenOnce
  <1>4. ASSUME NEW e \in Epochs, CoreStep(e) \/ Crash(e) PROVE WrittenOnce'
    <2>1. CASE TakeLock(e) \/ Greet(e) \/ OpenIndex(e) \/ Respond(e) \/ ExitAtEof(e) \/ Crash(e)
      BY <2>1, WrittenOnceKept DEF TakeLock, Greet, OpenIndex, Respond, ExitAtEof, Crash, pipeVars, reqVars
    <2> QED BY <1>3, <1>4, <2>1 DEF CoreStep
  <1>5. ASSUME NEW e \in Epochs, Read(e) PROVE WrittenOnce'
    <2>1. inbox' = inbox /\ executed' = executed
      BY <1>5 DEF Read, OnHello, OnAnswer
    <2>2. req' = req \/ req' = Route(Head(outbox[e]))
      BY <1>5 DEF Read, OnAnswer
    <2>3. \A r \in Requests : req'[r] = "idle" => req[r] = "idle"
      BY <2>2, NoneIsNew
    <2> QED BY <2>1, <2>3, WrittenOnceKept
  <1>6. ASSUME NEW e \in Epochs, ExitReported(e) PROVE WrittenOnce'
    <2>1. inbox' = inbox /\ executed' = executed /\ req' = RejectAllPending
      BY <1>6 DEF ExitReported, OnDeath, pipeVars
    <2> QED BY <2>1, NoneIsNew, WrittenOnceKept
  <1>7. CASE UNCHANGED vars
    BY <1>7, WrittenOnceKept DEF vars, pipeVars, reqVars
  <1> QED BY <1>1, <1>2, <1>4, <1>5, <1>6, <1>7 DEF Next

(* A request, a write above all, takes effect at most once, whichever core *)
(* it was written to dies and however it is answered: CoreClient writes it *)
(* once, and the end of an epoch rejects it rather than sending it again.  *)
THEOREM SpecNeverReplayed == Spec => []NeverReplayed
  <1>1. Init => WrittenOnce
    BY DEF Init, WrittenOnce
  <1>2. TypeOK /\ TypeOK' /\ WrittenOnce /\ [Next]_vars => WrittenOnce'
    BY WrittenOnceStep
  <1>3. WrittenOnce => NeverReplayed
    BY RequestsAssumption DEF WrittenOnce, NeverReplayed
  <1> QED BY <1>1, <1>2, <1>3, SpecTypeOK, PTL DEF Spec

-----------------------------------------------------------------------------
(* Two crashes inside one window leave no restart.                         *)

(* A launch leaves one core, the epoch's, and a failed lane if none.       *)
LEMMA LaunchLeavesOne ==
  ASSUME TypeOK, epoch + 1 <= MaxEpoch, Launch, \A e \in Epochs : ~Owed(e), timers' = 0
  PROVE  OneCore'
  <1>0. epoch + 1 \in Epochs /\ epoch + 1 # 0
    BY EpochsAssumption DEF TypeOK, Epochs
  <1>1. PICK n \in Epochs : n = epoch + 1 /\ n # 0 /\ epoch' = n
    BY <1>0 DEF Launch
  <1>2. \A e \in Epochs : e # n => ~Owed(e)'
    BY <1>1 DEF Launch, Owed, TypeOK
  <1>3. CASE lane' = "starting"
    BY <1>1, <1>2, <1>3 DEF OneCore, Launch, Failed, Failures
  <1>4. CASE lane' # "starting"
    <2>1. ~Owed(n)'
      BY <1>1, <1>4 DEF Launch, Owed, TypeOK
    <2> QED BY <1>1, <1>2, <2>1 DEF OneCore, Launch
  <1> QED BY <1>3, <1>4

(* A step that ends a core at most, and moves no lane.                     *)
LEMMA OneCoreKept ==
  ASSUME OneCore, UNCHANGED <<epoch, timers, reaped>>,
         \A e \in Epochs : phase'[e] # "unborn" => phase[e] # "unborn",
         Failed' => Failed
  PROVE  OneCore'
  BY DEF OneCore, Owed

(* What is not in the step moves nothing of the crashes.                   *)
LEMMA CrashesKept ==
  ASSUME CrashesCounted, UNCHANGED <<epoch, timers, reaped, lastCrash, crashes, stopping, stdinEnded>>,
         \A e \in Epochs : phase'[e] # "unborn" => phase[e] # "unborn",
         ~stopping => (Failed' => Failed)
  PROVE  CrashesCounted'
  BY OneCoreKept DEF CrashesCounted

(* No core that was not started ends.                                      *)
LEMMA ExitEndsTheStarted ==
  ASSUME TypeOK, NEW e \in Epochs, NEW code, phase[e] # "unborn", Exit(e, code)
  PROVE  \A f \in Epochs : phase'[f] # "unborn" => phase[f] # "unborn"
  BY DEF Exit, TypeOK

(* A step keeps the account of the crashes.                                *)
LEMMA CrashStep ==
  ASSUME TypeOK, TypeOK', StartsCounted, CrashInv, [Next]_vars
  PROVE  CrashInv'
  <1> SUFFICES ASSUME scenario.trouble = "spawn", CrashesCounted PROVE CrashesCounted'
    <2>1. scenario' = scenario
      BY DEF Next, Start, RestartDue, Rebuild, WindowPasses, StopAndWait, StopDeadline, Request,
             CoreStep, TakeLock, Greet, OpenIndex, Handle, Respond, ExitAtEof, Crash, Read,
             ExitReported, countVars, vars
    <2> QED BY <2>1 DEF CrashInv
  <1>1. CASE Start
    <2>1. epoch = 0 /\ Launch /\ UNCHANGED <<stopping, lastCrash, timers, stdinEnded, crashes>>
      BY <1>1 DEF Start, pipeVars
    <2>2. ~stopping => timers = 0 /\ \A e \in Epochs : ~Owed(e)
      BY <2>1, EpochsAssumption DEF CrashesCounted, OneCore, Epochs
    <2>3. ~stopping => OneCore'
      BY <1>1, <2>1, <2>2, EpochLeft, LaunchLeavesOne
    <2> QED BY <2>1, <2>3 DEF CrashesCounted
  <1>2. CASE RestartDue
    <2>1. /\ timers > 0 /\ timers' = timers - 1 /\ Launch
          /\ UNCHANGED <<stopping, lastCrash, stdinEnded, crashes>>
      BY <1>2 DEF RestartDue, pipeVars
    <2>2. timers \in Nat
      BY DEF TypeOK
    <2>3. ~stopping => timers' = 0 /\ \A e \in Epochs : ~Owed(e)
      BY <2>1, <2>2 DEF CrashesCounted, OneCore
    <2>4. ~stopping => OneCore'
      BY <1>2, <2>1, <2>3, EpochLeft, LaunchLeavesOne
    <2> QED BY <2>1, <2>2, <2>4 DEF CrashesCounted
  <1>3. CASE Rebuild
    <2>1. /\ Failed /\ Launch /\ crashes' = 0
          /\ UNCHANGED <<stopping, timers, stdinEnded>>
      BY <1>3 DEF Rebuild, pipeVars
    <2>2. ~stopping => timers = 0 /\ \A e \in Epochs : ~Owed(e)
      BY <2>1 DEF CrashesCounted, OneCore, TypeOK
    <2>3. ~stopping => OneCore'
      BY <1>3, <2>1, <2>2, EpochLeft, LaunchLeavesOne
    <2> QED BY <2>1, <2>3 DEF CrashesCounted
  <1>4. CASE WindowPasses
    <2>1. crashes' = 0 /\ UNCHANGED <<lane, epoch, stopping, timers, phase, reaped, stdinEnded>>
      BY <1>4 DEF WindowPasses, coreVars, pipeVars
    <2>2. OneCore => OneCore'
      BY <2>1, OneCoreKept DEF Failed
    <2> QED BY <2>1, <2>2 DEF CrashesCounted
  <1>5. CASE StopAndWait
    <2>1. stopping' /\ UNCHANGED <<lastCrash, timers, crashes>>
      BY <1>5 DEF StopAndWait
    <2> QED BY <2>1 DEF CrashesCounted
  <1>6. CASE StopDeadline
    BY <1>6, CrashesKept DEF StopDeadline, Kill, Alive, shellVars, pipeVars, Failed, TypeOK
  <1>7. ASSUME NEW r \in Requests, Request(r) PROVE CrashesCounted'
    <2>1. CanSend => child \in Epochs
      BY EpochsAssumption DEF CanSend, TypeOK, Epochs
    <2>2. ~stopping => ~WriteAfterEnd
      BY <2>1 DEF CrashesCounted, WriteAfterEnd
    <2> QED BY <1>7, <2>2, CrashesKept DEF Request, coreVars, Failed
  <1>8. ASSUME NEW e \in Epochs, CoreStep(e) \/ Crash(e) PROVE CrashesCounted'
    <2>1. \A f \in Epochs : phase'[f] # "unborn" => phase[f] # "unborn"
      BY <1>8, ExitEndsTheStarted DEF CoreStep, TakeLock, Greet, OpenIndex, Handle, Respond, ExitAtEof,
                                      Crash, Alive, TypeOK
    <2>2. UNCHANGED <<epoch, timers, reaped, lastCrash, crashes, stopping, stdinEnded, lane>>
      BY <1>8 DEF CoreStep, TakeLock, Greet, OpenIndex, Handle, Respond, ExitAtEof, Crash, shellVars, pipeVars
    <2> QED BY <2>1, <2>2, CrashesKept DEF Failed
  <1>9. ASSUME NEW e \in Epochs, Read(e) PROVE CrashesCounted'
    <2>1. UNCHANGED <<epoch, timers, reaped, lastCrash, crashes, stopping, stdinEnded>>
      BY <1>9 DEF Read
    <2>2. CanSend => child \in Epochs
      BY EpochsAssumption DEF CanSend, TypeOK, Epochs
    <2>3. ~stopping => ~WriteAfterEnd
      BY <2>2 DEF CrashesCounted, WriteAfterEnd
    <2>4. phase' = phase /\ (~stopping => (Failed' => Failed))
      BY <1>9, <2>3 DEF Read, OnHello, OnAnswer, coreVars, Failed, Failures
    <2> QED BY <2>1, <2>4, CrashesKept
  <1>10. ASSUME NEW e \in Epochs, ExitReported(e) PROVE CrashesCounted'
    <2>1. /\ Owed(e) /\ reaped' = [reaped EXCEPT ![e] = TRUE]
          /\ UNCHANGED <<epoch, phase, stopping, stdinEnded>> /\ OnDeath(e)
      BY <1>10 DEF ExitReported, Owed, coreVars, pipeVars
    <2>2. CASE stopping
      BY <2>1, <2>2 DEF OnDeath, CrashesCounted
    <2>3. CASE ~stopping
      <3>1. timers = 0 /\ ~Failed /\ epoch # 0 /\ \A f \in Epochs : ~Owed(f)'
        <4>1. timers = 0 /\ ~Failed /\ e = epoch /\ epoch # 0
          BY <2>1, <2>3, EpochsAssumption DEF CrashesCounted, OneCore, Epochs
        <4>2. \A f \in Epochs : f # e => ~Owed(f)
          BY <2>3, <4>1 DEF CrashesCounted, OneCore
        <4>3. reaped'[e] /\ \A f \in Epochs : f # e => reaped'[f] = reaped[f]
          BY <2>1 DEF TypeOK
        <4> QED BY <2>1, <4>1, <4>2, <4>3 DEF Owed
      <3>2. /\ timers' <= 1 /\ (timers' > 0 => ~Failed') /\ epoch' # 0
            /\ crashes' > 0 => lastCrash' = "recent"
            /\ crashes' >= 2 => timers' = 0
        <4>1. CASE exitCode[e] = "index_fatal"
          BY <2>1, <2>3, <3>1, <4>1 DEF OnDeath, CrashesCounted
        <4>2. CASE exitCode[e] # "index_fatal" /\ lastCrash = "recent"
          BY <2>1, <2>3, <3>1, <4>2 DEF OnDeath, RestartPolicy
        <4>3. CASE exitCode[e] # "index_fatal" /\ lastCrash # "recent"
          <5>1. crashes = 0
            BY <4>3 DEF CrashesCounted, TypeOK
          <5> QED BY <2>1, <2>3, <3>1, <4>3, <5>1 DEF OnDeath, RestartPolicy, Failed, Failures
        <4> QED BY <4>1, <4>2, <4>3
      <3> QED BY <2>1, <2>3, <3>1, <3>2 DEF CrashesCounted, OneCore
    <2> QED BY <2>2, <2>3
  <1>11. CASE UNCHANGED vars
    BY <1>11, CrashesKept DEF vars, shellVars, coreVars, pipeVars, Failed
  <1> QED BY <1>1, <1>2, <1>3, <1>4, <1>5, <1>6, <1>7, <1>8, <1>9, <1>10, <1>11 DEF Next

(* Two crashes inside one window leave no restart scheduled: an exit comes *)
(* from the one core there is, and none is there while a restart is due.   *)
THEOREM SpecCrashLoopStops == Spec => []CrashLoopStops
  <1>1. Init => CrashInv
    BY DEF Init, CrashInv, CrashesCounted, OneCore, Owed, Failed, Failures
  <1>2. TypeOK /\ TypeOK' /\ StartsCounted /\ CrashInv /\ [Next]_vars => CrashInv'
    BY CrashStep
  <1>3. CrashInv => CrashLoopStops
    BY DEF CrashInv, CrashesCounted, CrashLoopStops
  <1> QED BY <1>1, <1>2, <1>3, SpecTypeOK, PTL DEF Spec

-----------------------------------------------------------------------------
(***************************************************************************)
(* Install.                                                                *)
(***************************************************************************)
Pcs     == {"begun", "spawn", "cloning", "rename", "index", "mark", "cleanup", "record",
            "finish", "over"}
States  == {"running", "done", "failed", "cancelled"}
Reasons == {None, "cancelled", "git_failed", "rename_failed"}
Run     == [dest : Dests, pc : Pcs, state : States, token : BOOLEAN, cancelled : BOOLEAN,
            reason : Reasons]
Staged  == [by : Nat, whole : BOOLEAN]
Left    == [cancels : Int, occupied : Int, faults : Int, crashes : Int]

Shape ==
    /\ runs \in Seq(Run)
    /\ staging \in [Dests -> Staged \cup {None}]
    /\ left \in Left
    /\ left.faults <= MaxFaults /\ left.crashes <= MaxCrashes

\* A staging directory is a started run's.
Writers == \A d \in Dests : staging[d] # None => staging[d] \in Staged /\ staging[d].by \in DOMAIN runs

\* A run is marked once its destination is indexed, and done once it is marked.
Marks ==
    \A r \in DOMAIN runs :
        /\ runs[r].pc = "mark" => runs[r].dest \in rows
        /\ runs[r].state = "done" => runs[r].dest \in rows /\ runs[r].pc \in {"finish", "over"}

\* From its rename on a run has nothing staged: a failure later leaves that so.
Landed ==
    \A r \in DOMAIN runs :
        runs[r].pc \in {"index", "mark"} \/ runs[r].state = "done" => ~Mine(r)

\* Before its clone, after its rename and after its clean-up a run has nothing
\* staged, unless a removal failed or the core died.
Cleared ==
    left.faults = MaxFaults /\ left.crashes = MaxCrashes =>
        \A r \in DOMAIN runs : runs[r].pc \notin {"cloning", "rename", "cleanup"} => ~Mine(r)

Inv == Shape /\ Writers /\ Marks /\ Landed /\ Cleared

-----------------------------------------------------------------------------
\* A thread's step gives its own run a new place, state, token and reason and
\* leaves the others.
Moved(r, pc, state, token, reason) ==
    runs' = [runs EXCEPT ![r] = [runs[r] EXCEPT !.pc = pc, !.state = state, !.token = token,
                                                !.reason = reason]]

LEMMA OneRun ==
    ASSUME runs \in Seq(Run), NEW r \in DOMAIN runs,
           NEW pc \in Pcs, NEW state \in States, NEW token \in BOOLEAN, NEW reason \in Reasons,
           Moved(r, pc, state, token, reason)
    PROVE  /\ runs' \in Seq(Run)
           /\ DOMAIN runs' = DOMAIN runs
           /\ runs'[r].pc = pc /\ runs'[r].state = state
           /\ \A s \in DOMAIN runs : s # r => runs'[s] = runs[s]
           /\ \A s \in DOMAIN runs : runs'[s].dest = runs[s].dest
<1> DEFINE x == [runs[r] EXCEPT !.pc = pc, !.state = state, !.token = token, !.reason = reason]
<1>1. runs[r] \in Run
  OBVIOUS
<1>2. x \in Run /\ x.pc = pc /\ x.state = state /\ x.dest = runs[r].dest
  BY <1>1 DEF Run
<1>3. runs' = [runs EXCEPT ![r] = x]
  BY DEF Moved
<1> HIDE DEF x
<1> QED
  BY <1>2, <1>3

\* To and Fail are such steps.
LEMMA ToMoves ==
    ASSUME runs \in Seq(Run), NEW r \in DOMAIN runs, NEW pc \in Pcs, To(r, pc)
    PROVE  Moved(r, pc, runs[r].state, runs[r].token, runs[r].reason)
<1>1. runs[r] \in Run
  OBVIOUS
<1> QED
  BY <1>1 DEF To, Moved, Run

LEMMA FailMoves ==
    ASSUME runs \in Seq(Run), NEW r \in DOMAIN runs, NEW reason \in Reasons, Fail(r, reason)
    PROVE  Moved(r, "cleanup", runs[r].state, runs[r].token, reason)
<1>1. runs[r] \in Run
  OBVIOUS
<1> QED
  BY <1>1 DEF Fail, Moved, Run

\* What a thread's step must show for the invariant to survive it: of its own
\* run, the four parts; of the rest, that no directory became another run's.
LEMMA ThreadStep ==
    ASSUME Inv, NEW r \in DOMAIN runs,
           NEW pc \in Pcs, NEW state \in States, NEW token \in BOOLEAN, NEW reason \in Reasons,
           Moved(r, pc, state, token, reason),
           staging' \in [Dests -> Staged \cup {None}],
           \A d \in Dests : staging'[d] # None =>
               staging'[d] \in Staged /\ staging'[d].by \in DOMAIN runs,
           \A s \in DOMAIN runs : s # r /\ Mine(s)' => Mine(s),
           rows \subseteq rows',
           left' \in Left,
           left'.crashes = left.crashes /\ left'.faults <= left.faults,
           pc = "mark" => runs[r].dest \in rows',
           state = "done" => runs[r].dest \in rows' /\ pc \in {"finish", "over"},
           pc \in {"index", "mark"} \/ state = "done" => ~Mine(r)',
           left'.faults = MaxFaults /\ left'.crashes = MaxCrashes
               /\ pc \notin {"cloning", "rename", "cleanup"} => ~Mine(r)'
    PROVE  Inv'
<1>1. /\ runs' \in Seq(Run)
      /\ DOMAIN runs' = DOMAIN runs
      /\ runs'[r].pc = pc /\ runs'[r].state = state
      /\ \A s \in DOMAIN runs : s # r => runs'[s] = runs[s]
      /\ \A s \in DOMAIN runs : runs'[s].dest = runs[s].dest
  BY OneRun DEF Inv, Shape
<1>2. left.faults \in Int /\ left'.faults \in Int /\ left.faults <= MaxFaults
  BY DEF Inv, Shape, Left
<1>3. Shape'
  BY <1>1, <1>2, InstallAssumption DEF Inv, Shape
<1>4. Writers'
  BY <1>1 DEF Writers
<1>5. Marks'
  BY <1>1 DEF Inv, Marks
<1>6. Landed'
  BY <1>1 DEF Inv, Landed
<1>7. Cleared'
  <2> SUFFICES ASSUME left'.faults = MaxFaults, left'.crashes = MaxCrashes, NEW s \in DOMAIN runs,
                      runs'[s].pc \notin {"cloning", "rename", "cleanup"}
               PROVE  ~Mine(s)'
    BY <1>1 DEF Cleared
  <2>1. left.faults = MaxFaults /\ left.crashes = MaxCrashes
    BY <1>2, InstallAssumption
  <2> QED
    BY <1>1, <2>1 DEF Inv, Cleared
<1> QED
  BY <1>3, <1>4, <1>5, <1>6, <1>7 DEF Inv

\* A run and its fields have their types, and it is done only once it ended.
LEMMA OwnRun ==
    ASSUME Inv, NEW r \in DOMAIN runs
    PROVE  /\ runs \in Seq(Run) /\ runs[r] \in Run
           /\ runs[r].state \in States /\ runs[r].token \in BOOLEAN /\ runs[r].reason \in Reasons
           /\ runs[r].dest \in Dests
           /\ left \in Left /\ r \in Nat
           /\ runs[r].pc \notin {"finish", "over"} => runs[r].state # "done"
<1>1. runs \in Seq(Run) /\ left \in Left
  BY DEF Inv, Shape
<1>2. runs[r] \in Run /\ r \in Nat
  BY <1>1
<1>3. runs[r].pc \notin {"finish", "over"} => runs[r].state # "done"
  BY DEF Inv, Marks
<1> QED
  BY <1>1, <1>2, <1>3 DEF Run

\* Nothing of a directory changes but at a run's own destination.
LEMMA OthersKeep ==
    ASSUME Inv, NEW r \in DOMAIN runs, NEW x \in Staged \cup {None},
           x = None \/ x.by = r,
           staging' = [staging EXCEPT ![runs[r].dest] = x],
           \A s \in DOMAIN runs : runs'[s].dest = runs[s].dest
    PROVE  /\ staging' \in [Dests -> Staged \cup {None}]
           /\ \A d \in Dests : staging'[d] # None =>
                staging'[d] \in Staged /\ staging'[d].by \in DOMAIN runs
           /\ \A s \in DOMAIN runs : s # r /\ Mine(s)' => Mine(s)
           /\ x = None => ~Mine(r)'
<1>1. runs[r].dest \in Dests /\ \A s \in DOMAIN runs : runs[s].dest \in Dests
  BY OwnRun
<1> QED
  BY <1>1 DEF Inv, Shape, Writers, Mine, Here

\* The directories stay as they are.
LEMMA AllKeep ==
    ASSUME Inv, UNCHANGED staging,
           \A s \in DOMAIN runs : runs'[s].dest = runs[s].dest
    PROVE  /\ staging' \in [Dests -> Staged \cup {None}]
           /\ \A d \in Dests : staging'[d] # None =>
                staging'[d] \in Staged /\ staging'[d].by \in DOMAIN runs
           /\ \A s \in DOMAIN runs : Mine(s)' <=> Mine(s)
BY DEF Inv, Shape, Writers, Mine, Here

\* A bounded fault is spent: one is no longer left, and nothing else changed.
LEMMA FaultSpends ==
    ASSUME Inv, Fault
    PROVE  /\ left' \in Left /\ left'.crashes = left.crashes
           /\ left'.faults <= left.faults /\ left'.faults # MaxFaults
BY InstallAssumption DEF Inv, Shape, Fault, Spend, Left

LEMMA KeptLeft ==
    ASSUME Inv, UNCHANGED left
    PROVE  left' \in Left /\ left'.crashes = left.crashes /\ left'.faults <= left.faults
BY DEF Inv, Shape, Left

LEMMA RegisterInv == ASSUME Inv, NEW r \in DOMAIN runs, Register(r) PROVE Inv'
<1>1. Moved(r, "spawn", runs[r].state, TRUE, runs[r].reason)
  BY OwnRun DEF Register, Moved, Run
<1>2. ~Mine(r) \/ ~(left.faults = MaxFaults /\ left.crashes = MaxCrashes)
  BY DEF Register, Inv, Cleared
<1>3. \A s \in DOMAIN runs : runs'[s].dest = runs[s].dest
  BY <1>1, OwnRun, OneRun, Zenon DEF Pcs
<1> QED
  BY <1>1, <1>2, <1>3, OwnRun, AllKeep, KeptLeft, ThreadStep DEF Register, Pcs

LEMMA CloneBeginsInv == ASSUME Inv, NEW r \in DOMAIN runs, CloneBegins(r) PROVE Inv'
<1>1. CASE Here(r) = None /\ ~runs[r].cancelled
  <2>1. Moved(r, "cloning", runs[r].state, runs[r].token, runs[r].reason)
    BY <1>1, OwnRun, ToMoves DEF CloneBegins, Pcs
  <2>2. \A s \in DOMAIN runs : runs'[s].dest = runs[s].dest
    BY <2>1, OwnRun, OneRun DEF Pcs
  <2> DEFINE x == [by |-> r, whole |-> FALSE]
  <2>3. x \in Staged /\ x.by = r
    BY OwnRun DEF Staged
  <2>4. staging' = [staging EXCEPT ![runs[r].dest] = x]
    BY <1>1 DEF CloneBegins
  <2> HIDE DEF x
  <2>5. /\ staging' \in [Dests -> Staged \cup {None}]
        /\ \A d \in Dests : staging'[d] # None =>
             staging'[d] \in Staged /\ staging'[d].by \in DOMAIN runs
        /\ \A s \in DOMAIN runs : s # r /\ Mine(s)' => Mine(s)
    BY <2>2, <2>3, <2>4, OthersKeep
  <2> QED
    BY <2>1, <2>5, OwnRun, KeptLeft, ThreadStep DEF CloneBegins, Pcs
<1>2. CASE ~(Here(r) = None /\ ~runs[r].cancelled)
  <2> DEFINE reason == IF runs[r].cancelled THEN "cancelled" ELSE "git_failed"
  <2>1. Moved(r, "cleanup", runs[r].state, runs[r].token, reason) /\ reason \in Reasons
    BY <1>2, OwnRun, FailMoves DEF CloneBegins, Reasons
  <2> HIDE DEF reason
  <2>2. \A s \in DOMAIN runs : runs'[s].dest = runs[s].dest
    BY <2>1, OwnRun, OneRun DEF Pcs
  <2> QED
    BY <1>2, <2>1, <2>2, OwnRun, AllKeep, KeptLeft, ThreadStep DEF CloneBegins, Pcs
<1> QED
  BY <1>1, <1>2

LEMMA CloneEndsInv == ASSUME Inv, NEW r \in DOMAIN runs, CloneEnds(r) PROVE Inv'
<1>1. Moved(r, "rename", runs[r].state, runs[r].token, runs[r].reason)
  BY OwnRun, ToMoves DEF CloneEnds, Pcs
<1>2. \A s \in DOMAIN runs : runs'[s].dest = runs[s].dest
  BY <1>1, OwnRun, OneRun DEF Pcs
<1> DEFINE x == [staging[runs[r].dest] EXCEPT !.whole = TRUE]
<1>3. x \in Staged /\ x.by = r
  BY OwnRun DEF CloneEnds, Mine, Here, Inv, Writers, Staged
<1>4. staging' = [staging EXCEPT ![runs[r].dest] = x]
  BY DEF CloneEnds
<1> HIDE DEF x
<1>5. /\ staging' \in [Dests -> Staged \cup {None}]
      /\ \A d \in Dests : staging'[d] # None =>
           staging'[d] \in Staged /\ staging'[d].by \in DOMAIN runs
      /\ \A s \in DOMAIN runs : s # r /\ Mine(s)' => Mine(s)
  BY <1>2, <1>3, <1>4, OthersKeep
<1>6. runs[r].state # "done" /\ rows' = rows /\ UNCHANGED left
  BY OwnRun DEF CloneEnds
<1> QED
  BY <1>1, <1>5, <1>6, OwnRun, KeptLeft, ThreadStep DEF Pcs

LEMMA CloneFailsInv == ASSUME Inv, NEW r \in DOMAIN runs, CloneFails(r) PROVE Inv'
<1> DEFINE reason == IF runs[r].cancelled THEN "cancelled" ELSE "git_failed"
<1>1. Moved(r, "cleanup", runs[r].state, runs[r].token, reason) /\ reason \in Reasons
  BY OwnRun, FailMoves DEF CloneFails, Reasons
<1> HIDE DEF reason
<1>2. \A s \in DOMAIN runs : runs'[s].dest = runs[s].dest
  BY <1>1, OwnRun, OneRun DEF Pcs
<1>3. /\ staging' \in [Dests -> Staged \cup {None}]
      /\ \A d \in Dests : staging'[d] # None =>
           staging'[d] \in Staged /\ staging'[d].by \in DOMAIN runs
      /\ \A s \in DOMAIN runs : s # r /\ Mine(s)' => Mine(s)
  BY <1>2, OthersKeep, AllKeep DEF CloneFails
<1>4. runs[r].state # "done" /\ rows' = rows /\ UNCHANGED left
  BY OwnRun DEF CloneFails
<1> QED
  BY <1>1, <1>3, <1>4, OwnRun, KeptLeft, ThreadStep DEF Pcs

LEMMA RenameInv == ASSUME Inv, NEW r \in DOMAIN runs, Rename(r) PROVE Inv'
<1>1. CASE staging[runs[r].dest] # None /\ disk[runs[r].dest] = None
  <2>1. Moved(r, "index", runs[r].state, runs[r].token, runs[r].reason)
    BY <1>1, OwnRun, ToMoves DEF Rename, Pcs
  <2>2. \A s \in DOMAIN runs : runs'[s].dest = runs[s].dest
    BY <2>1, OwnRun, OneRun DEF Pcs
  <2>3. /\ staging' \in [Dests -> Staged \cup {None}]
        /\ \A d \in Dests : staging'[d] # None =>
             staging'[d] \in Staged /\ staging'[d].by \in DOMAIN runs
        /\ \A s \in DOMAIN runs : s # r /\ Mine(s)' => Mine(s)
        /\ ~Mine(r)'
    BY <1>1, <2>2, OthersKeep DEF Rename
  <2> QED
    BY <2>1, <2>3, OwnRun, KeptLeft, ThreadStep DEF Rename, Pcs
<1>2. CASE ~(staging[runs[r].dest] # None /\ disk[runs[r].dest] = None)
  <2>1. Moved(r, "cleanup", runs[r].state, runs[r].token, "rename_failed")
    BY <1>2, OwnRun, FailMoves DEF Rename, Reasons
  <2>2. \A s \in DOMAIN runs : runs'[s].dest = runs[s].dest
    BY <2>1, OwnRun, OneRun DEF Pcs, Reasons
  <2> QED
    BY <1>2, <2>1, <2>2, OwnRun, AllKeep, KeptLeft, ThreadStep DEF Rename, Pcs, Reasons
<1> QED
  BY <1>1, <1>2

LEMMA IndexInv == ASSUME Inv, NEW r \in DOMAIN runs, IndexDestination(r) PROVE Inv'
<1>1. ~Mine(r) /\ runs[r].state # "done"
  BY OwnRun DEF IndexDestination, Inv, Landed
<1>2. CASE To(r, "mark") /\ rows' = rows \cup {runs[r].dest} /\ UNCHANGED left
  <2>1. Moved(r, "mark", runs[r].state, runs[r].token, runs[r].reason)
    BY <1>2, OwnRun, ToMoves DEF Pcs
  <2>2. \A s \in DOMAIN runs : runs'[s].dest = runs[s].dest
    BY <2>1, OwnRun, OneRun DEF Pcs
  <2> QED
    BY <1>1, <1>2, <2>1, <2>2, OwnRun, AllKeep, KeptLeft, ThreadStep DEF IndexDestination, Pcs
<1>3. CASE IndexFails(r) /\ (Fault \/ UNCHANGED left)
  <2>1. Moved(r, "cleanup", runs[r].state, runs[r].token, "git_failed")
    BY <1>3, OwnRun, FailMoves DEF IndexFails, Reasons
  <2>2. \A s \in DOMAIN runs : runs'[s].dest = runs[s].dest
    BY <2>1, OwnRun, OneRun DEF Pcs, Reasons
  <2>3. left' \in Left /\ left'.crashes = left.crashes /\ left'.faults <= left.faults
    BY <1>3, KeptLeft, FaultSpends
  <2> QED
    BY <1>1, <1>3, <2>1, <2>2, <2>3, OwnRun, AllKeep, ThreadStep
       DEF IndexDestination, IndexFails, Pcs, Reasons
<1> QED
  BY <1>2, <1>3 DEF IndexDestination

LEMMA MarkDoneInv == ASSUME Inv, NEW r \in DOMAIN runs, MarkDone(r) PROVE Inv'
<1>1. ~Mine(r) /\ runs[r].state # "done" /\ runs[r].dest \in rows
  BY OwnRun DEF MarkDone, Inv, Landed, Marks
<1>2. CASE runs' = [runs EXCEPT ![r].state = "done", ![r].pc = "finish"] /\ UNCHANGED left
  <2>1. Moved(r, "finish", "done", runs[r].token, runs[r].reason)
    BY <1>2, OwnRun DEF Moved, Run
  <2>2. \A s \in DOMAIN runs : runs'[s].dest = runs[s].dest
    BY <2>1, OwnRun, OneRun DEF Pcs, States
  <2> QED
    BY <1>1, <1>2, <2>1, <2>2, OwnRun, AllKeep, KeptLeft, ThreadStep DEF MarkDone, Pcs, States
<1>3. CASE Fail(r, "rename_failed") /\ Fault
  <2>1. Moved(r, "cleanup", runs[r].state, runs[r].token, "rename_failed")
    BY <1>3, OwnRun, FailMoves DEF Reasons
  <2>2. \A s \in DOMAIN runs : runs'[s].dest = runs[s].dest
    BY <2>1, OwnRun, OneRun DEF Pcs, Reasons
  <2> QED
    BY <1>1, <1>3, <2>1, <2>2, OwnRun, AllKeep, FaultSpends, ThreadStep DEF MarkDone, Pcs, Reasons
<1> QED
  BY <1>2, <1>3 DEF MarkDone

LEMMA CleanUpInv == ASSUME Inv, NEW r \in DOMAIN runs, CleanUp(r) PROVE Inv'
<1>1. Moved(r, "record", runs[r].state, runs[r].token, runs[r].reason)
  BY OwnRun, ToMoves DEF CleanUp, Pcs
<1>2. \A s \in DOMAIN runs : runs'[s].dest = runs[s].dest
  BY <1>1, OwnRun, OneRun DEF Pcs
<1>3. CASE staging' = [staging EXCEPT ![runs[r].dest] = None] /\ UNCHANGED left
  <2>1. /\ staging' \in [Dests -> Staged \cup {None}]
        /\ \A d \in Dests : staging'[d] # None =>
             staging'[d] \in Staged /\ staging'[d].by \in DOMAIN runs
        /\ \A s \in DOMAIN runs : s # r /\ Mine(s)' => Mine(s)
        /\ ~Mine(r)'
    BY <1>2, <1>3, OthersKeep
  <2>2. runs[r].state # "done" /\ rows' = rows
    BY OwnRun DEF CleanUp
  <2> QED
    BY <1>1, <1>3, <2>1, <2>2, OwnRun, KeptLeft, ThreadStep DEF Pcs
<1>4. CASE UNCHANGED staging /\ Fault
  <2>1. runs[r].state # "done" /\ rows' = rows
    BY OwnRun DEF CleanUp
  <2>2. /\ left' \in Left /\ left'.crashes = left.crashes
        /\ left'.faults <= left.faults /\ left'.faults # MaxFaults
    BY <1>4, FaultSpends
  <2> QED
    BY <1>1, <1>2, <1>4, <2>1, <2>2, OwnRun, AllKeep, ThreadStep DEF Pcs
<1> QED
  BY <1>3, <1>4 DEF CleanUp

LEMMA RecordEndInv == ASSUME Inv, NEW r \in DOMAIN runs, RecordEnd(r) PROVE Inv'
<1>1. left.faults = MaxFaults /\ left.crashes = MaxCrashes => ~Mine(r)
  BY DEF RecordEnd, Inv, Cleared
<1> DEFINE state == IF runs[r].reason = "cancelled" THEN "cancelled" ELSE "failed"
<1>2. CASE runs' = [runs EXCEPT ![r].pc = "finish", ![r].state = state] /\ UNCHANGED left
  <2>1. Moved(r, "finish", state, runs[r].token, runs[r].reason)
        /\ state \in States /\ state # "done"
    BY <1>2, OwnRun DEF Moved, Run, States
  <2> HIDE DEF state
  <2>2. \A s \in DOMAIN runs : runs'[s].dest = runs[s].dest
    BY <2>1, OwnRun, OneRun DEF Pcs
  <2>3. UNCHANGED <<staging, rows, left>>
    BY <1>2 DEF RecordEnd
  <2> QED
    BY <1>1, <2>1, <2>2, <2>3, OwnRun, AllKeep, KeptLeft, ThreadStep DEF Pcs
<1>3. CASE To(r, "finish") /\ Fault
  <2>1. Moved(r, "finish", runs[r].state, runs[r].token, runs[r].reason)
    BY <1>3, OwnRun, ToMoves DEF Pcs
  <2>2. \A s \in DOMAIN runs : runs'[s].dest = runs[s].dest
    BY <2>1, OwnRun, OneRun DEF Pcs
  <2>3. UNCHANGED <<staging, rows>> /\ runs[r].state # "done"
    BY OwnRun DEF RecordEnd
  <2>4. /\ left' \in Left /\ left'.crashes = left.crashes
        /\ left'.faults <= left.faults /\ left'.faults # MaxFaults
    BY <1>3, FaultSpends
  <2> HIDE DEF state
  <2> QED
    BY <2>1, <2>2, <2>3, <2>4, OwnRun, AllKeep, ThreadStep DEF Pcs
<1> QED
  BY <1>2, <1>3 DEF RecordEnd

LEMMA FinishInv == ASSUME Inv, NEW r \in DOMAIN runs, Finish(r) PROVE Inv'
<1>1. \E token \in BOOLEAN : Moved(r, "over", runs[r].state, token, runs[r].reason)
  <2>1. CASE inFlight = r
    <3>1. Moved(r, "over", runs[r].state, FALSE, runs[r].reason)
      BY <2>1, OwnRun DEF Finish, Moved, Run
    <3> QED
      BY <3>1
  <2>2. CASE inFlight # r
    BY <2>2, OwnRun, ToMoves DEF Finish, Pcs
  <2> QED
    BY <2>1, <2>2
<1>2. PICK token \in BOOLEAN : Moved(r, "over", runs[r].state, token, runs[r].reason)
  BY <1>1
<1>3. \A s \in DOMAIN runs : runs'[s].dest = runs[s].dest
  BY <1>2, OwnRun, OneRun DEF Pcs
<1>4. /\ left.faults = MaxFaults /\ left.crashes = MaxCrashes => ~Mine(r)
      /\ runs[r].state = "done" => ~Mine(r) /\ runs[r].dest \in rows
  BY DEF Finish, Inv, Cleared, Landed, Marks
<1> QED
  BY <1>2, <1>3, <1>4, OwnRun, AllKeep, KeptLeft, ThreadStep DEF Finish, Pcs

-----------------------------------------------------------------------------
(* The inductive invariant                                                  *)

LEMMA InstallInitInv == InstallInit => Inv
BY InstallAssumption DEF InstallInit, Inv, Shape, Writers, Marks, Landed, Cleared, Left, Staged

\* A new run has staged nothing, and nothing staged is its own.
LEMMA AcceptedInv ==
    ASSUME Inv, NEW d \in Dests,
           runs' = Append(runs, [dest |-> d, pc |-> "begun", state |-> "running",
                                 token |-> FALSE, cancelled |-> FALSE, reason |-> None]),
           UNCHANGED <<staging, disk, rows, left>>
    PROVE  Inv'
<1> DEFINE x == [dest |-> d, pc |-> "begun", state |-> "running", token |-> FALSE,
                 cancelled |-> FALSE, reason |-> None]
<1>0. PICK r \in Nat : r = Len(runs) + 1
  BY LenProperties DEF Inv, Shape
<1>1. runs \in Seq(Run) /\ runs' = Append(runs, x) /\ UNCHANGED <<staging, disk, rows, left>>
  BY DEF Inv, Shape
<1>2. x \in Run /\ x.pc = "begun" /\ x.state = "running" /\ x.dest = d
  BY DEF Run, Pcs, States, Reasons
<1> HIDE DEF x
<1>3. /\ runs' \in Seq(Run)
      /\ DOMAIN runs' = DOMAIN runs \cup {r} /\ r \notin DOMAIN runs
      /\ runs'[r] = x
      /\ \A s \in DOMAIN runs : runs'[s] = runs[s]
  BY <1>1, <1>2, <1>0, AppendProperties, LenProperties
<1>4. \A s \in DOMAIN runs : Mine(s)' <=> Mine(s)
  BY <1>1, <1>3 DEF Mine, Here
<1>5. ~Mine(r)'
  <2>1. staging[d] # None => staging[d].by # r
    BY <1>3 DEF Inv, Writers
  <2> QED
    BY <1>1, <1>2, <1>3, <2>1 DEF Mine, Here
<1>6. Shape' /\ Writers'
  BY <1>1, <1>3 DEF Inv, Shape, Writers
<1>7. Marks'
  BY <1>1, <1>2, <1>3 DEF Inv, Marks
<1>8. Landed'
  BY <1>1, <1>2, <1>3, <1>4, <1>5 DEF Inv, Landed
<1>9. Cleared'
  BY <1>1, <1>2, <1>3, <1>4, <1>5 DEF Inv, Cleared
<1> QED
  BY <1>6, <1>7, <1>8, <1>9 DEF Inv

LEMMA StartInv == ASSUME Inv, NEW d \in Dests, InstallStart(d) PROVE Inv'
<1>1. UNCHANGED <<staging, disk, rows>>
  BY DEF InstallStart
<1>2. CASE /\ runs' = Append(runs, [dest |-> d, pc |-> "begun", state |-> "running",
                                    token |-> FALSE, cancelled |-> FALSE, reason |-> None])
           /\ UNCHANGED left
  BY <1>1, <1>2, AcceptedInv
<1>3. CASE Fault /\ UNCHANGED runs
  BY <1>1, <1>3, InstallAssumption
     DEF Fault, Spend, Inv, Shape, Writers, Marks, Landed, Cleared, Mine, Here, Left
<1> QED
  BY <1>2, <1>3 DEF InstallStart

LEMMA CancelInv == ASSUME Inv, NEW r \in DOMAIN runs, Cancel(r) PROVE Inv'
<1>1. runs \in Seq(Run) /\ runs' = [runs EXCEPT ![r].cancelled = TRUE]
  BY DEF Cancel, Inv, Shape
<1> DEFINE x == [runs[r] EXCEPT !.cancelled = TRUE]
<1>0. /\ x \in Run /\ x.pc = runs[r].pc /\ x.state = runs[r].state /\ x.dest = runs[r].dest
      /\ runs' = [runs EXCEPT ![r] = x]
  BY <1>1, OwnRun DEF Run
<1> HIDE DEF x
<1>2. /\ runs' \in Seq(Run) /\ DOMAIN runs' = DOMAIN runs
      /\ \A s \in DOMAIN runs : /\ runs'[s].pc = runs[s].pc /\ runs'[s].state = runs[s].state
                                /\ runs'[s].dest = runs[s].dest
  <2>1. r \in 1..Len(runs) /\ DOMAIN runs = 1..Len(runs)
    BY <1>1, LenProperties
  <2>2. runs' \in Seq(Run) /\ Len(runs') = Len(runs)
    BY <1>0, <1>1, <2>1, ExceptSeq
  <2>3. DOMAIN runs' = DOMAIN runs
    BY <2>1, <2>2, LenProperties
  <2> QED
    BY <1>0, <2>2, <2>3
<1>3. /\ UNCHANGED <<staging, rows>>
      /\ left' \in Left /\ left'.faults = left.faults /\ left'.crashes = left.crashes
  BY DEF Cancel, Spend, Inv, Shape, Left
<1>4. \A s \in DOMAIN runs : Mine(s)' <=> Mine(s)
  BY <1>2, <1>3 DEF Mine, Here
<1>5. Shape' /\ Writers'
  BY <1>2, <1>3 DEF Inv, Shape, Writers
<1>6. Marks' /\ Landed' /\ Cleared'
  BY <1>2, <1>3, <1>4 DEF Inv, Marks, Landed, Cleared
<1> QED
  BY <1>5, <1>6 DEF Inv

LEMMA OccupyInv == ASSUME Inv, NEW d \in Dests, Occupy(d) PROVE Inv'
BY DEF Occupy, Spend, Inv, Shape, Writers, Marks, Landed, Cleared, Mine, Here, Left

LEMMA CoreDiesInv == ASSUME Inv, CoreDies PROVE Inv'
<1>1. runs \in Seq(Run)
      /\ runs' = [r \in DOMAIN runs |-> [runs[r] EXCEPT !.pc = "over", !.token = FALSE]]
  BY DEF CoreDies, Inv, Shape
<1>2. ASSUME NEW s \in DOMAIN runs
      PROVE  /\ runs'[s] \in Run /\ runs'[s].pc = "over"
             /\ runs'[s].state = runs[s].state /\ runs'[s].dest = runs[s].dest
  <2>1. runs[s] \in Run /\ runs'[s] = [runs[s] EXCEPT !.pc = "over", !.token = FALSE]
    BY <1>1, OwnRun
  <2> QED
    BY <2>1 DEF Run, Pcs
<1>3. runs' \in Seq(Run) /\ DOMAIN runs' = DOMAIN runs
  <2>1. DOMAIN runs = 1..Len(runs) /\ Len(runs) \in Nat
    BY <1>1, LenProperties
  <2>2. runs' \in [1..Len(runs) -> Run]
    BY <1>1, <1>2, <2>1
  <2> QED
    BY <2>1, <2>2, SeqDef
<1>4. /\ UNCHANGED <<staging, rows>>
      /\ left' \in Left /\ left'.faults = left.faults /\ left'.crashes < left.crashes
      /\ left.crashes <= MaxCrashes
  <2>1. left' = [left EXCEPT !.crashes = @ - 1]
    BY DEF CoreDies, Spend
  <2>2. left \in Left /\ left.crashes <= MaxCrashes
    BY DEF Inv, Shape
  <2>3. UNCHANGED <<staging, rows>>
    BY DEF CoreDies
  <2> QED
    BY <2>1, <2>2, <2>3 DEF Left
<1>5. \A s \in DOMAIN runs : Mine(s)' <=> Mine(s)
  BY <1>2, <1>4 DEF Mine, Here
<1>6. Shape' /\ Writers'
  BY <1>3, <1>4, InstallAssumption DEF Inv, Shape, Writers, Left
<1>7. Marks' /\ Landed'
  BY <1>2, <1>3, <1>4, <1>5 DEF Inv, Marks, Landed
<1>8. Cleared'
  BY <1>4, InstallAssumption DEF Cleared, Left, Inv, Shape
<1> QED
  BY <1>6, <1>7, <1>8 DEF Inv

LEMMA NextInv == Inv /\ [InstallNext]_installVars => Inv'
<1> SUFFICES ASSUME Inv, [InstallNext]_installVars PROVE Inv'
  OBVIOUS
<1>1. ASSUME NEW d \in Dests, InstallStart(d) \/ Occupy(d) PROVE Inv'
  BY <1>1, StartInv, OccupyInv
<1>2. ASSUME NEW r \in DOMAIN runs, Cancel(r) PROVE Inv'
  BY <1>2, CancelInv
<1>3. ASSUME NEW r \in DOMAIN runs, Thread(r) PROVE Inv'
  BY <1>3, RegisterInv, CloneBeginsInv, CloneEndsInv, CloneFailsInv, RenameInv, IndexInv,
     MarkDoneInv, CleanUpInv, RecordEndInv, FinishInv DEF Thread
<1>4. CASE CoreDies
  BY <1>4, CoreDiesInv
<1>5. CASE UNCHANGED installVars
  BY <1>5 DEF installVars, Inv, Shape, Writers, Marks, Landed, Cleared, Mine, Here
<1> QED
  BY <1>1, <1>2, <1>3, <1>4, <1>5 DEF InstallNext

LEMMA SpecInv == InstallSpec => []Inv
BY InstallInitInv, NextInv, PTL DEF InstallSpec

-----------------------------------------------------------------------------
(* What it gives                                                            *)

\* run_install, mark_done: whatever starts share a destination, is cancelled,
\* fails or dies, a run recorded `done` has its destination indexed and nothing
\* of its own staged.
THEOREM SpecDoneHasItsRow == InstallSpec => []DoneHasItsRow
<1>1. Inv => DoneHasItsRow
  BY DEF Inv, Marks, Landed, DoneHasItsRow
<1> QED
  BY <1>1, SpecInv, PTL

\* finish_failed: without a failed removal or a crash, no run ends with its
\* clone still in the staging directory.
THEOREM SpecEndedRunsLeaveNoClone == InstallSpec => []EndedRunsLeaveNoClone
<1>1. Inv => EndedRunsLeaveNoClone
  BY DEF Inv, Cleared, EndedRunsLeaveNoClone
<1> QED
  BY <1>1, SpecInv, PTL

==============================================================================
