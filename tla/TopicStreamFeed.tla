----------------------------- MODULE TopicStreamFeed -----------------------------
(***************************************************************************)
(* TopicStream implements TopicFeed: the frames between the publisher and  *)
(* the handler are the states they will make the handler show.             *)
(***************************************************************************)
EXTENDS TopicStream

\* The current epoch's frames the shell has yet to read, oldest first.
Unread == pipe[epoch] \o pending

\* What one more frame of the stream's epoch makes of its last sequence number and view, and
\* the views so far.
Fold(acc, f) ==
    LET verdict == Verdict([epoch |-> 1, lastSeq |-> acc.lastSeq], 1, f)
        seen    == IF verdict = "snapshot" THEN f.rows ELSE [acc.view EXCEPT ![f.key] = f.ver]
    IN  IF f \notin {Hello, Response} /\ verdict \in {"snapshot", "delivered"}
        THEN [lastSeq |-> f.seq, view |-> seen, views |-> Append(acc.views, seen)]
        ELSE acc

\* What the frames make of it, one after the other.
Folded(acc, frames) ==
    LET upTo[n \in 0..Len(frames)] == IF n = 0 THEN acc ELSE Fold(upTo[n - 1], frames[n])
    IN  upTo[Len(frames)]

Shown == [lastSeq |-> stream.lastSeq, view |-> view, views |-> <<>>]

\* The views the handler will be shown, in order.
Coming == Folded(Shown, Unread).views

\* Both ends are subscribed and no subscribe, unsubscribe or resync is still to be answered.
\* (A request's own reads, after an overflow, end in "flush" and leave the feed on.)
Established ==
    /\ alive /\ handler /\ sub
    /\ \A i \in DOMAIN inbox : inbox[i] \notin {"subscribe", "unsubscribe"}
    /\ loop.at \in {"read", "supply"} => loop.last = "flush"

Feed == INSTANCE TopicFeed
            WITH States <- Rows, on <- Established, told <- announced, shown <- view,
                 coming <- IF Established THEN Coming ELSE <<>>

\* An established stream loses, doubles and reorders nothing of what it was given to convey:
\* through overflow, snapshots that replace the queue, a writer without room, frames of an
\* earlier subscription or of a dead core, the shell is shown what was announced, in its order,
\* and ends at the last of it (pubsub.rs and stream.ts implement TopicFeed).
ImplementsFeed == Feed!Spec
=============================================================================
