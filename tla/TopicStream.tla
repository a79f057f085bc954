------------------------------ MODULE TopicStream ------------------------------
(***************************************************************************)
(* One subscribed topic, from the core's publisher to the shell's stream.  *)
(*                                                                         *)
(* Job workers commit rows to the index and announce them through          *)
(* PublisherSink.emit; the command loop subscribes, unsubscribes,          *)
(* resynchronises and supplies snapshots; frames leave through a bounded   *)
(* writer; the shell folds them with acceptFrame.  The core may die and be *)
(* relaunched under the next epoch at any moment.                          *)
(*                                                                         *)
(* Abstracted: a row is a version number, a topic has one queue of its own *)
(* (topics share nothing but the writer), the writer channel, the OS pipe  *)
(* and the shell's decoder are one FIFO of Capacity frames per epoch.      *)
(***************************************************************************)
EXTENDS Integers, Sequences

CONSTANTS
    Keys,        \* the rows the topic describes
    Workers,     \* threads that commit a row and then announce it
    HighWater,   \* TOPIC_HIGH_WATER
    Capacity,    \* WRITER_CAPACITY
    MaxVersion,  \* bound: versions a row may reach
    MaxInbox,    \* bound: frames the shell leaves unread in the core's inbox
    MaxEpoch     \* bound: launches of the core

ASSUME HighWaterAssumption == HighWater \in Nat
ASSUME CapacityAssumption == Capacity \in Nat \ {0}
ASSUME BoundsAssumption == MaxVersion \in Nat \ {0} /\ MaxInbox \in Nat /\ MaxEpoch \in Nat \ {0}

VARIABLES
    db,         \* the index: the committed version of every row
    worker,     \* per worker: idle, or holding a row it has committed and not announced
    sub,        \* the publisher holds a queue for the topic
    nextSeq,    \* TopicQueue.next_seq
    pending,    \* TopicQueue.pending
    wants,      \* PublisherSink.wants_snapshot, as the number of entries
    loop,       \* where run_loop is: [at, data, todo]
    alive,      \* the core process runs
    epoch,      \* the supervisor's epoch
    inbox,      \* frames written to the core and not read by run_loop
    pipe,       \* per epoch, frames written by the core and not read by the shell
    handler,    \* the shell has a handler on the topic
    stream,     \* the shell's StreamState
    view,       \* the versions the handler was last told
    announced   \* history: what the stream has been told to convey

coreVars  == <<sub, nextSeq, pending, wants, loop>>
shellVars == <<handler, stream, view>>
vars == <<db, worker, coreVars, alive, epoch, inbox, pipe, shellVars, announced>>

Epochs   == 1..MaxEpoch
Versions == 0..MaxVersion
Rows     == [Keys -> Versions]
NoSeq    == -1                      \* StreamState.lastSeq = null
Nothing  == [k \in Keys |-> 0]      \* no row has been shown or read

Delta(s, k, v)  == [t |-> "event", seq |-> s, key |-> k, ver |-> v]
Snapshot(s, r)  == [t |-> "snapshot", seq |-> s, rows |-> r]
Hello           == [t |-> "hello"]
Response        == [t |-> "response"]

Idle == [at |-> "idle"]
Recv == [at |-> "recv", data |-> Nothing, todo |-> 0, last |-> "recv"]

-----------------------------------------------------------------------------
(* The publisher: operators on <<queue, channel>> pairs.                     *)

Smaller(a, b) == IF a < b THEN a ELSE b

\* A flush that pops a frame the writer refused.
FlushLosing(queue, channel) ==
    LET n == Smaller(Len(queue), Capacity - Len(channel))
        m == IF n < 0 THEN 0 ELSE n
    IN  [queue |-> <<>>, channel |-> channel \o SubSeq(queue, 1, m)]

\* flush_one: move frames to the writer until it is full.
Flush(queue, channel) ==
    LET n == Smaller(Len(queue), Capacity - Len(channel))
        m == IF n < 0 THEN 0 ELSE n
    IN  [queue   |-> SubSeq(queue, m + 1, Len(queue)),
         channel |-> channel \o SubSeq(queue, 1, m)]

\* Leave `queue` behind and write what the writer takes of it.
Settle(queue) ==
    LET f == Flush(queue, pipe[epoch])
    IN  pending' = f.queue /\ pipe' = [pipe EXCEPT ![epoch] = f.channel]

\* The number of the delta before the last one handed out.
ThroughSeqLate == nextSeq - 2

\* The sequence number a snapshot supplied now is stamped through.
ThroughSeq == nextSeq - 1

\* replace_with_snapshot.
ReplaceWithSnapshot(rows) == <<Snapshot(ThroughSeq, rows)>>

OverHighWater(queue) == Len(queue) > HighWater

\* emit: publish a delta; a topic nobody subscribed to drops it.
Emit(k, v) ==
    IF ~sub
    THEN UNCHANGED <<nextSeq, pending, wants, pipe, announced>>
    ELSE LET queue == Append(pending, Delta(nextSeq, k, v))
         IN  /\ nextSeq' = nextSeq + 1
             /\ Settle(queue)
             /\ wants' = IF OverHighWater(queue) THEN wants + 1 ELSE wants
             /\ announced' = [announced EXCEPT ![k] = v]

-----------------------------------------------------------------------------
(* Workers: JobRunner::settle commits, then emits.                           *)

\* The write transaction: the row changes and the payload is computed in it.
WorkerCommit(w, k) ==
    /\ alive
    /\ worker[w].at = "idle"
    /\ db[k] < MaxVersion
    /\ db' = [db EXCEPT ![k] = @ + 1]
    /\ worker' = [worker EXCEPT ![w] = [at |-> "emit", key |-> k, ver |-> db[k] + 1]]
    /\ UNCHANGED <<coreVars, alive, epoch, inbox, pipe, shellVars, announced>>

\* publish_row_change reads the row again, after the commit and before the emit.
WorkerReread(w) ==
    /\ alive
    /\ worker[w].at = "emit"
    /\ worker[w].ver # db[worker[w].key]
    /\ worker' = [worker EXCEPT ![w].ver = db[worker[w].key]]
    /\ UNCHANGED <<db, coreVars, alive, epoch, inbox, pipe, shellVars, announced>>

WorkerEmit(w) ==
    /\ alive
    /\ worker[w].at = "emit"
    /\ Emit(worker[w].key, worker[w].ver)
    /\ worker' = [worker EXCEPT ![w] = Idle]
    /\ UNCHANGED <<db, sub, loop, alive, epoch, inbox, shellVars>>

-----------------------------------------------------------------------------
(* run_loop: one iteration is a receive, then the steps its arm takes.       *)

Receive(m) ==
    /\ alive
    /\ loop.at = "recv"
    /\ inbox # <<>>
    /\ Head(inbox) = m
    /\ inbox' = Tail(inbox)

\* Compute `n` snapshots, one after the other, then go to `last`: the request arm ends in a
\* flush, the others do not.
ReadNext(n, last) == [at |-> "read", data |-> Nothing, todo |-> n, last |-> last]

\* Subscribing again keeps the queue it already has.
RecvSubscribe ==
    /\ Receive("subscribe")
    /\ sub' = TRUE
    /\ IF sub THEN UNCHANGED <<nextSeq, pending, announced>>
              ELSE nextSeq' = 1 /\ pending' = <<>> /\ announced' = Nothing
    /\ loop' = ReadNext(1, "recv")
    /\ UNCHANGED <<db, worker, wants, alive, epoch, pipe, shellVars>>

RecvUnsubscribe ==
    /\ Receive("unsubscribe")
    /\ sub' = FALSE
    /\ nextSeq' = 1
    /\ pending' = <<>>
    /\ UNCHANGED <<db, worker, wants, loop, alive, epoch, pipe, shellVars, announced>>

RecvResync ==
    /\ Receive("resync")
    /\ loop' = IF sub THEN ReadNext(1, "recv") ELSE loop
    /\ UNCHANGED <<db, worker, sub, nextSeq, pending, wants, alive, epoch, pipe,
                   shellVars, announced>>

\* handler.handle: a command that writes commits and emits under the index guard.
RecvRequest ==
    /\ Receive("request")
    /\ \/ \E k \in Keys :
            /\ db[k] < MaxVersion
            /\ db' = [db EXCEPT ![k] = @ + 1]
            /\ Emit(k, db[k] + 1)
       \/ UNCHANGED <<db, nextSeq, pending, wants, pipe, announced>>
    /\ loop' = [Recv EXCEPT !.at = "respond"]
    /\ UNCHANGED <<worker, sub, alive, epoch, shellVars>>

\* respond blocks for room in the writer; the snapshot requests are then taken.
Respond ==
    /\ alive
    /\ loop.at = "respond"
    /\ Len(pipe[epoch]) < Capacity
    /\ pipe' = [pipe EXCEPT ![epoch] = Append(@, Response)]
    /\ wants' = 0
    /\ loop' = IF wants = 0 THEN [Recv EXCEPT !.at = "flush"] ELSE ReadNext(wants, "flush")
    /\ UNCHANGED <<db, worker, sub, nextSeq, pending, alive, epoch, inbox, shellVars, announced>>

\* handler.snapshot: the rows are read without the publisher's lock.
ReadSnapshot ==
    /\ alive
    /\ loop.at = "read"
    /\ loop' = [loop EXCEPT !.at = "supply", !.data = db]
    /\ UNCHANGED <<db, worker, sub, nextSeq, pending, wants, alive, epoch, inbox, pipe,
                   shellVars, announced>>

SupplySnapshot ==
    /\ alive
    /\ loop.at = "supply"
    /\ IF sub THEN Settle(ReplaceWithSnapshot(loop.data)) /\ announced' = loop.data
              ELSE UNCHANGED <<pending, pipe, announced>>
    /\ loop' = IF loop.todo > 1 THEN ReadNext(loop.todo - 1, loop.last)
             ELSE [Recv EXCEPT !.at = loop.last]
    /\ UNCHANGED <<db, worker, sub, nextSeq, wants, alive, epoch, inbox, shellVars>>

\* A loop that flushes only after it handled something.
FlushDueAfterArm == loop.at = "flush"

\* A flush ends the request arm, and every receive timeout does one.
FlushDue == loop.at = "flush" \/ (loop.at = "recv" /\ inbox = <<>> /\ pending # <<>>)

\* Publisher::flush.
FlushQueue ==
    /\ alive
    /\ FlushDue
    /\ Settle(pending)
    /\ loop' = Recv
    /\ UNCHANGED <<db, worker, sub, nextSeq, wants, alive, epoch, inbox, shellVars, announced>>

-----------------------------------------------------------------------------
(* The shell: CoreClient over one CoreSupervisor.                            *)

NewStreamState(e) == [epoch |-> e, lastSeq |-> NoSeq]

\* CoreSupervisor.send: a frame sent while no core runs is dropped.
Send(frames) == IF alive THEN inbox \o frames ELSE inbox

\* acceptFrame's verdict on one topic frame of epoch e.
Verdict(s, e, f) ==
    IF e # s.epoch THEN "stale"
    ELSE IF f.t = "snapshot" THEN "snapshot"
    ELSE IF s.lastSeq = NoSeq THEN "delivered"
    ELSE IF f.seq <= s.lastSeq THEN "stale"
    ELSE IF f.seq > s.lastSeq + 1 THEN "gap" ELSE "delivered"

Subscribe ==
    /\ ~handler
    /\ Len(inbox) < MaxInbox
    /\ handler' = TRUE
    /\ stream' = NewStreamState(epoch)
    /\ view' = Nothing
    /\ inbox' = Send(<<"subscribe">>)
    /\ UNCHANGED <<db, worker, coreVars, alive, epoch, pipe, announced>>

Unsubscribe ==
    /\ handler
    /\ Len(inbox) < MaxInbox
    /\ handler' = FALSE
    /\ inbox' = Send(<<"unsubscribe">>)
    /\ UNCHANGED <<db, worker, coreVars, alive, epoch, pipe, stream, view, announced>>

Request ==
    /\ alive
    /\ Len(inbox) < MaxInbox
    /\ inbox' = Append(inbox, "request")
    /\ UNCHANGED <<db, worker, coreVars, alive, epoch, pipe, shellVars, announced>>

\* What is sent for each subscribed topic when a core reports ready.
ResubscribeFrames == <<"subscribe", "resync">>

\* A dead core's pipe may still be read; its frames are dropped once a new epoch began.
CurrentEpoch(e) == e = epoch

\* hello: the core is ready, and subscriptions do not survive an epoch.  A dead core's
\* hello is read before the relaunch, which waits out the restart backoff.
ShellReady ==
    /\ pipe[epoch] # <<>>
    /\ Head(pipe[epoch]) = Hello
    /\ pipe' = [pipe EXCEPT ![epoch] = Tail(@)]
    /\ IF handler
       THEN stream' = NewStreamState(epoch) /\ inbox' = Send(ResubscribeFrames)
       ELSE UNCHANGED <<stream, inbox>>
    /\ UNCHANGED <<db, worker, coreVars, alive, epoch, handler, view, announced>>

\* routeTopic, for a subscribed topic's frame.
Route(e, f) ==
    LET verdict == Verdict(stream, e, f)
    IN  /\ stream' = IF verdict \in {"snapshot", "delivered"}
                     THEN [stream EXCEPT !.lastSeq = f.seq] ELSE stream
        /\ view' = CASE verdict = "snapshot"  -> f.rows
                     [] verdict = "delivered" -> [view EXCEPT ![f.key] = f.ver]
                     [] OTHER                 -> view
        /\ inbox' = IF verdict = "gap" THEN Send(<<"resync">>) ELSE inbox

ShellReceive(e) ==
    /\ pipe[e] # <<>>
    /\ Head(pipe[e]) # Hello
    /\ pipe' = [pipe EXCEPT ![e] = Tail(@)]
    /\ IF CurrentEpoch(e) /\ handler /\ Head(pipe[e]) # Response
       THEN Route(e, Head(pipe[e]))
       ELSE UNCHANGED <<stream, view, inbox>>
    /\ UNCHANGED <<db, worker, coreVars, alive, epoch, handler, announced>>

-----------------------------------------------------------------------------
(* Death and relaunch: what was committed survives, everything else is gone. *)

Crash ==
    /\ alive
    /\ epoch < MaxEpoch
    /\ alive' = FALSE
    /\ inbox' = <<>>
    /\ worker' = [w \in Workers |-> Idle]
    /\ sub' = FALSE /\ nextSeq' = 1 /\ pending' = <<>> /\ wants' = 0 /\ loop' = Recv
    /\ UNCHANGED <<db, epoch, pipe, shellVars, announced>>

Launch ==
    /\ ~alive
    /\ alive' = TRUE
    /\ epoch' = epoch + 1
    /\ pipe' = [pipe EXCEPT ![epoch + 1] = <<Hello>>]
    /\ UNCHANGED <<db, worker, coreVars, inbox, shellVars, announced>>

-----------------------------------------------------------------------------
Init ==
    /\ db = [k \in Keys |-> 1]
    /\ worker = [w \in Workers |-> Idle]
    /\ sub = FALSE /\ nextSeq = 1 /\ pending = <<>> /\ wants = 0 /\ loop = Recv
    /\ alive = TRUE /\ epoch = 1
    /\ inbox = <<>>
    /\ pipe = [e \in Epochs |-> IF e = 1 THEN <<Hello>> ELSE <<>>]
    /\ handler = FALSE /\ stream = NewStreamState(1) /\ view = Nothing
    /\ announced = Nothing

Loop == \/ RecvSubscribe \/ RecvUnsubscribe \/ RecvResync \/ RecvRequest
        \/ Respond \/ ReadSnapshot \/ SupplySnapshot \/ FlushQueue

Shell == ShellReady \/ \E e \in Epochs : ShellReceive(e)

Next ==
    \/ \E w \in Workers :
         \/ \E k \in Keys : WorkerCommit(w, k)
         \/ WorkerReread(w)
         \/ WorkerEmit(w)
    \/ Loop
    \/ Shell
    \/ Subscribe \/ Unsubscribe \/ Request
    \/ Crash \/ Launch

\* Threads are scheduled, the pipe is read, and a dead core is relaunched; nothing makes a
\* worker commit, a user ask, or a core die.
Fairness ==
    /\ WF_vars(Loop)
    /\ WF_vars(ShellReady)
    /\ \A e \in Epochs : WF_vars(ShellReceive(e))
    /\ \A w \in Workers : WF_vars(WorkerEmit(w))
    /\ WF_vars(Launch)

Spec == Init /\ [][Next]_vars /\ Fairness

-----------------------------------------------------------------------------
(* Properties.                                                               *)

Frame ==
    [t : {"event"}, seq : Nat, key : Keys, ver : Versions]
        \cup [t : {"snapshot"}, seq : Nat, rows : Rows]
Message == {"subscribe", "unsubscribe", "resync", "request"}

\* Every variable keeps to its type: the one type invariant of the module.
TypeOK ==
    /\ db \in Rows
    /\ worker \in [Workers -> {Idle} \cup [at : {"emit"}, key : Keys, ver : Versions]]
    /\ sub \in BOOLEAN
    /\ nextSeq \in Nat \ {0}
    /\ pending \in Seq(Frame)
    /\ wants \in Nat
    /\ loop \in [at : {"recv", "read", "supply", "respond", "flush"}, data : Rows,
                 todo : Nat, last : {"recv", "flush"}]
    /\ alive \in BOOLEAN
    /\ epoch \in Epochs
    /\ inbox \in Seq(Message)
    /\ pipe \in [Epochs -> Seq(Frame \cup {Hello, Response})]
    /\ handler \in BOOLEAN
    /\ stream \in [epoch : Epochs, lastSeq : Nat \cup {NoSeq}]
    /\ view \in Rows
    /\ announced \in Rows

\* acceptFrame never reports a gap: within an epoch the core skips no sequence number a
\* snapshot does not cover, whatever overflowed, was resubscribed or died on the way.
NoGap ==
    LET f == Head(pipe[epoch])
    IN  (pipe[epoch] # <<>> /\ handler /\ f \notin {Hello, Response})
            => Verdict(stream, epoch, f) # "gap"

\* A shell that stays subscribed and asks nothing more eventually shows, and keeps showing,
\* what was announced: the receive timeout flushes what the writer had no room for.  Without
\* the last conjunct it would not: responses wait for room in the writer and deltas do not, so
\* a shell that keeps asking can keep the deltas out.
CatchesUp == <>[](handler /\ alive /\ inbox = <<>>) => <>[](view = announced)

\* client.ts:51: a snapshot's throughSeq is "the last delta it covers", so its rows are no
\* older than any delta numbered through it.
SnapshotCoversItsDeltas ==
    [][ (loop.at = "supply" /\ loop'.at # "supply" /\ alive' /\ sub)
            => \A k \in Keys : loop.data[k] >= announced[k] ]_vars
=============================================================================
