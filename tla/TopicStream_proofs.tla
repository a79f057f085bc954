------------------------ MODULE TopicStream_proofs ------------------------
(***************************************************************************)
(* Proofs about TopicStream: its types, that the shell never meets a gap   *)
(* in the sequence numbers of a topic, and that the whole implements       *)
(* TopicFeed.  The second is about the frames on their way, each of which  *)
(* must follow the one before it; the lemmas say what taking, adding and   *)
(* moving frames does to such a chain.  The third is about what they will  *)
(* make the handler show: Folded is a recursion over the frames, its facts *)
(* are proved by induction on their number, and each step of the stream is *)
(* shown to be a step of the feed or to leave what it shows alone.         *)
(***************************************************************************)
EXTENDS TopicStreamFeed, SequenceTheorems, WellFoundedInduction, TLAPS

-----------------------------------------------------------------------------
(* Chains of frames.                                                       *)

Frames == Frame \cup {Hello, Response}
Numbers == Nat \cup {NoSeq}

Topic(f) == f \notin {Hello, Response}

(* A stream that has seen the number a meets no gap at f.                  *)
Follows(a, f) == a = NoSeq \/ f.t = "snapshot" \/ f.seq <= a + 1

(* h is the number of the last topic frame up to each place of s, where    *)
(* the one before s was a.                                                 *)
Numbering(s, a, h) ==
    /\ h \in [0..Len(s) -> Numbers]
    /\ h[0] = a
    /\ \A i \in 1..Len(s) :
         IF Topic(s[i]) THEN Follows(h[i - 1], s[i]) /\ h[i] = s[i].seq
                        ELSE h[i] = h[i - 1]

(* After the number a the frames of s leave no gap, and end at b.          *)
Chain(s, a, b) == \E h : Numbering(s, a, h) /\ h[Len(s)] = b

(* A topic frame has a number.                                             *)
LEMMA FrameKinds ==
  /\ \A f \in Frames : Topic(f) => f \in Frame /\ f.seq \in Nat /\ f.t \in {"event", "snapshot"}
  /\ \A f \in Frame : Topic(f)
  BY DEF Frames, Topic, Frame, Hello, Response

(* No frame is no gap.                                                     *)
LEMMA ChainEmpty ==
  ASSUME NEW a \in Numbers
  PROVE  Chain(<<>>, a, a)
  <1> DEFINE h == [i \in 0..0 |-> a]
  <1>1. Numbering(<<>>, a, h) /\ h[Len(<<>>)] = a
    BY DEF Numbering
  <1> HIDE DEF h
  <1> QED BY <1>1 DEF Chain

(* A topic frame that follows ends at its own number.                      *)
LEMMA ChainOne ==
  ASSUME NEW a \in Numbers, NEW f \in Frames
  PROVE  /\ Topic(f) /\ Follows(a, f) => Chain(<<f>>, a, f.seq)
         /\ ~Topic(f) => Chain(<<f>>, a, a)
  <1>1. ASSUME Topic(f), Follows(a, f) PROVE Chain(<<f>>, a, f.seq)
    <2> DEFINE h == [i \in 0..1 |-> IF i = 0 THEN a ELSE f.seq]
    <2>1. h \in [0..1 -> Numbers] /\ h[0] = a /\ h[1] = f.seq
      BY <1>1, FrameKinds DEF Numbers
    <2> HIDE DEF h
    <2>2. Len(<<f>>) = 1 /\ <<f>>[1] = f
      OBVIOUS
    <2>3. Numbering(<<f>>, a, h) /\ h[Len(<<f>>)] = f.seq
      BY <1>1, <2>1, <2>2 DEF Numbering
    <2> QED BY <2>3 DEF Chain
  <1>2. ASSUME ~Topic(f) PROVE Chain(<<f>>, a, a)
    <2> DEFINE h == [i \in 0..1 |-> a]
    <2>1. h \in [0..1 -> Numbers] /\ h[0] = a /\ h[1] = a
      OBVIOUS
    <2> HIDE DEF h
    <2>2. Len(<<f>>) = 1 /\ <<f>>[1] = f
      OBVIOUS
    <2>3. Numbering(<<f>>, a, h) /\ h[Len(<<f>>)] = a
      BY <1>2, <2>1, <2>2 DEF Numbering
    <2> QED BY <2>3 DEF Chain
  <1> QED BY <1>1, <1>2

(* Where a chain ends is a number.                                         *)
LEMMA ChainEnds ==
  ASSUME NEW s \in Seq(Frames), NEW a, NEW b, Chain(s, a, b)
  PROVE  a \in Numbers /\ b \in Numbers
  <1>1. PICK h : Numbering(s, a, h) /\ h[Len(s)] = b
    BY DEF Chain
  <1>2. Len(s) \in Nat
    OBVIOUS
  <1> QED BY <1>1, <1>2 DEF Numbering

(* One chain after another is a chain.                                     *)
LEMMA ChainConcat ==
  ASSUME NEW s \in Seq(Frames), NEW t \in Seq(Frames), NEW a, NEW b, NEW c,
         Chain(s, a, b), Chain(t, b, c)
  PROVE  Chain(s \o t, a, c)
  <1>1. PICK g : Numbering(s, a, g) /\ g[Len(s)] = b
    BY DEF Chain
  <1>2. PICK h : Numbering(t, b, h) /\ h[Len(t)] = c
    BY DEF Chain
  <1> DEFINE m == Len(s)
             n == Len(t)
             k == [i \in 0..(m + n) |-> IF i <= m THEN g[i] ELSE h[i - m]]
  <1>3. m \in Nat /\ n \in Nat /\ Len(s \o t) = m + n
        /\ \A i \in 1..(m + n) : (s \o t)[i] = IF i <= m THEN s[i] ELSE t[i - m]
    BY ConcatProperties
  <1>4. k \in [0..(m + n) -> Numbers] /\ k[0] = a /\ k[m + n] = c
    BY <1>1, <1>2, <1>3 DEF Numbering
  <1>5. ASSUME NEW i \in 1..(m + n)
        PROVE  IF Topic((s \o t)[i]) THEN Follows(k[i - 1], (s \o t)[i]) /\ k[i] = (s \o t)[i].seq
                                     ELSE k[i] = k[i - 1]
    <2>1. CASE i <= m
      <3>1. i \in 1..Len(s) /\ k[i] = g[i] /\ k[i - 1] = g[i - 1] /\ (s \o t)[i] = s[i]
        BY <1>3, <2>1
      <3> QED BY <1>1, <3>1 DEF Numbering
    <2>2. CASE i > m
      <3>1. i - m \in 1..Len(t) /\ k[i] = h[i - m] /\ (s \o t)[i] = t[i - m]
        BY <1>3, <2>2
      <3>2. k[i - 1] = h[(i - m) - 1]
        <4>1. CASE i = m + 1
          <5>1. k[i - 1] = g[m] /\ h[(i - m) - 1] = h[0]
            BY <1>3, <4>1
          <5> QED BY <5>1, <1>1, <1>2 DEF Numbering
        <4>2. CASE i # m + 1
          BY <1>3, <2>2, <4>2
        <4> QED BY <4>1, <4>2
      <3> QED BY <1>2, <3>1, <3>2 DEF Numbering
    <2> QED BY <1>3, <2>1, <2>2
  <1> HIDE DEF k
  <1>6. Numbering(s \o t, a, k) /\ k[Len(s \o t)] = c
    BY <1>3, <1>4, <1>5 DEF Numbering
  <1> QED BY <1>6 DEF Chain

(* A chain cut in two is two chains.                                       *)
LEMMA ChainCut ==
  ASSUME NEW s \in Seq(Frames), NEW a, NEW c, Chain(s, a, c), NEW m \in 0..Len(s)
  PROVE  \E b : Chain(SubSeq(s, 1, m), a, b) /\ Chain(SubSeq(s, m + 1, Len(s)), b, c)
  <1>1. PICK h : Numbering(s, a, h) /\ h[Len(s)] = c
    BY DEF Chain
  <1> DEFINE n == Len(s)
             g == [i \in 0..m |-> h[i]]
             k == [i \in 0..(n - m) |-> h[i + m]]
             p == SubSeq(s, 1, m)
             q == SubSeq(s, m + 1, n)
  <1>2. n \in Nat /\ m \in Nat /\ m <= n /\ \A i \in 1..n : s[i] \in Frames
    BY ElementOfSeq
  <1>3. Len(p) = m /\ \A i \in 1..m : p[i] = s[i]
    BY <1>2, SubSeqProperties
  <1>4. Len(q) = n - m /\ \A i \in 1..(n - m) : q[i] = s[i + m]
    <2>1. \A i \in (m + 1)..n : s[i] \in Frames
      BY <1>2
    <2>2. /\ Len(q) = IF m + 1 <= n THEN n - (m + 1) + 1 ELSE 0
          /\ \A i \in 1..(n - (m + 1) + 1) : q[i] = s[(m + 1) + i - 1]
      BY <1>2, <2>1, SubSeqProperties
    <2> QED BY <1>2, <2>2
  <1>5. Numbering(p, a, g)
    <2>1. g \in [0..m -> Numbers] /\ g[0] = a
      BY <1>1, <1>2 DEF Numbering
    <2>2. ASSUME NEW i \in 1..m
          PROVE  IF Topic(p[i]) THEN Follows(g[i - 1], p[i]) /\ g[i] = p[i].seq ELSE g[i] = g[i - 1]
      <3>1. i \in 1..Len(s) /\ p[i] = s[i] /\ g[i] = h[i] /\ g[i - 1] = h[i - 1]
        BY <1>2, <1>3
      <3> QED BY <1>1, <3>1 DEF Numbering
    <2> HIDE DEF g, p
    <2> QED BY <1>3, <2>1, <2>2 DEF Numbering
  <1>6. Numbering(q, h[m], k)
    <2>1. k \in [0..(n - m) -> Numbers] /\ k[0] = h[m]
      BY <1>1, <1>2 DEF Numbering
    <2>2. ASSUME NEW i \in 1..(n - m)
          PROVE  IF Topic(q[i]) THEN Follows(k[i - 1], q[i]) /\ k[i] = q[i].seq ELSE k[i] = k[i - 1]
      <3>1. i + m \in 1..Len(s) /\ q[i] = s[i + m] /\ k[i] = h[i + m] /\ k[i - 1] = h[(i + m) - 1]
        BY <1>2, <1>4
      <3> QED BY <1>1, <3>1 DEF Numbering
    <2> HIDE DEF k, q
    <2> QED BY <1>4, <2>1, <2>2 DEF Numbering
  <1>7. g[Len(p)] = h[m] /\ k[Len(q)] = c
    <2>1. m \in 0..m /\ n - m \in 0..(n - m) /\ (n - m) + m = n
      BY <1>2
    <2>2. g[m] = h[m] /\ k[n - m] = h[n]
      BY <2>1
    <2> HIDE DEF g, k, p, q
    <2> QED BY <1>1, <1>3, <1>4, <2>2
  <1> HIDE DEF g, k, p, q
  <1> QED BY <1>5, <1>6, <1>7 DEF Chain, p, q, n

(* What follows the first frame is a chain from it, or from where it began.*)
LEMMA ChainTail ==
  ASSUME NEW s \in Seq(Frames), s # <<>>, NEW a, NEW b, Chain(s, a, b)
  PROVE  IF Topic(Head(s)) THEN Follows(a, Head(s)) /\ Chain(Tail(s), Head(s).seq, b)
                           ELSE Chain(Tail(s), a, b)
  <1>1. PICK h : Numbering(s, a, h) /\ h[Len(s)] = b
    BY DEF Chain
  <1> DEFINE n == Len(s)
             k == [i \in 0..(n - 1) |-> h[i + 1]]
  <1>2. n \in Nat \ {0} /\ Head(s) = s[1]
    BY EmptySeq
  <1>3. Len(Tail(s)) = n - 1 /\ \A i \in 1..(n - 1) : Tail(s)[i] = s[i + 1]
    BY HeadTailProperties
  <1>4. Numbering(Tail(s), h[1], k)
    <2>1. k \in [0..(n - 1) -> Numbers] /\ k[0] = h[1]
      BY <1>1, <1>2 DEF Numbering
    <2>2. ASSUME NEW i \in 1..(n - 1)
          PROVE  IF Topic(Tail(s)[i]) THEN Follows(k[i - 1], Tail(s)[i]) /\ k[i] = Tail(s)[i].seq
                                      ELSE k[i] = k[i - 1]
      <3>1. i + 1 \in 1..Len(s) /\ Tail(s)[i] = s[i + 1] /\ k[i] = h[i + 1] /\ k[i - 1] = h[(i + 1) - 1]
        BY <1>2, <1>3
      <3> QED BY <1>1, <3>1 DEF Numbering
    <2> HIDE DEF k
    <2> QED BY <1>3, <2>1, <2>2 DEF Numbering
  <1>5. k[Len(Tail(s))] = b
    BY <1>1, <1>2, <1>3
  <1> HIDE DEF k
  <1>6. Chain(Tail(s), h[1], b)
    BY <1>4, <1>5 DEF Chain
  <1>7. 1 \in 1..Len(s) /\ h[1 - 1] = a
    BY <1>1, <1>2 DEF Numbering
  <1>8. IF Topic(s[1]) THEN Follows(a, s[1]) /\ h[1] = s[1].seq ELSE h[1] = a
    BY <1>1, <1>7 DEF Numbering
  <1> QED BY <1>2, <1>6, <1>8

-----------------------------------------------------------------------------
(* Types.                                                                  *)

(* A flush writes the frames at the head of the queue and keeps the others,*)
(* in their order: nothing of a chain is lost, doubled or moved.           *)
LEMMA FlushKeeps ==
  ASSUME NEW queue \in Seq(Frame), NEW channel \in Seq(Frames)
  PROVE  /\ Flush(queue, channel).queue \in Seq(Frame)
         /\ Flush(queue, channel).channel \in Seq(Frames)
         /\ \A a, b, c : Chain(channel, a, b) /\ Chain(queue, b, c) =>
              \E d : Chain(Flush(queue, channel).channel, a, d) /\ Chain(Flush(queue, channel).queue, d, c)
  <1> DEFINE n == Smaller(Len(queue), Capacity - Len(channel))
             m == IF n < 0 THEN 0 ELSE n
             head == SubSeq(queue, 1, m)
             rest == SubSeq(queue, m + 1, Len(queue))
  <1>1. Len(queue) \in Nat /\ Len(channel) \in Nat /\ Capacity \in Nat
    BY CapacityAssumption
  <1>2. m \in 0..Len(queue)
    BY <1>1 DEF Smaller
  <1>3. \A i \in 1..Len(queue) : queue[i] \in Frame
    BY ElementOfSeq
  <1>4. Flush(queue, channel) = [queue |-> rest, channel |-> channel \o head]
    BY DEF Flush
  <1> HIDE DEF m
  <1>5. head \in Seq(Frame) /\ rest \in Seq(Frame)
    BY <1>1, <1>2, <1>3, SubSeqProperties
  <1>6. queue \in Seq(Frames) /\ head \in Seq(Frames) /\ rest \in Seq(Frames)
    BY <1>5, SeqMonotonic DEF Frames
  <1>7. channel \o head \in Seq(Frames)
    BY <1>6, ConcatProperties
  <1>8. ASSUME NEW a, NEW b, NEW c, Chain(channel, a, b), Chain(queue, b, c)
        PROVE  \E d : Chain(channel \o head, a, d) /\ Chain(rest, d, c)
    <2>1. PICK d : Chain(head, b, d) /\ Chain(rest, d, c)
      BY <1>2, <1>6, <1>8, ChainCut
    <2>2. Chain(channel \o head, a, d)
      BY <1>6, <1>8, <2>1, ChainConcat
    <2> QED BY <2>1, <2>2
  <1> HIDE DEF head, rest
  <1> QED BY <1>4, <1>5, <1>7, <1>8

PipeType == [Epochs -> Seq(Frames)]

(* Where run_loop may be put.                                              *)
LoopType == [at : {"recv", "read", "supply", "respond", "flush"}, data : Rows, todo : Nat,
             last : {"recv", "flush"}]

(* The places it is put in.                                                *)
LEMMA LoopPlaces ==
  /\ Nothing \in Rows
  /\ Recv \in LoopType /\ [Recv EXCEPT !.at = "respond"] \in LoopType
  /\ \A n \in Nat, last \in {"recv", "flush"} :
       ReadNext(n, last) \in LoopType /\ [Recv EXCEPT !.at = last] \in LoopType
  <1>1. Nothing \in Rows
    BY BoundsAssumption DEF Nothing, Rows, Versions
  <1> QED BY <1>1 DEF Recv, ReadNext, LoopType

(* What settling a queue leaves.                                           *)
LEMMA SettleTypes ==
  ASSUME TypeOK, NEW queue \in Seq(Frame), Settle(queue)
  PROVE  /\ pending' \in Seq(Frame) /\ pipe' \in PipeType
         /\ pending' = Flush(queue, pipe[epoch]).queue
         /\ pipe'[epoch] = Flush(queue, pipe[epoch]).channel
         /\ \A e \in Epochs \ {epoch} : pipe'[e] = pipe[e]
  <1>1. pipe \in PipeType /\ epoch \in Epochs
    BY DEF TypeOK, PipeType, Frames
  <1> QED BY <1>1, FlushKeeps DEF Settle, PipeType

(* What an emit leaves.                                                    *)
LEMMA EmitTypes ==
  ASSUME TypeOK, NEW k \in Keys, NEW v \in Versions, Emit(k, v)
  PROVE  /\ nextSeq' \in Nat \ {0} /\ pending' \in Seq(Frame) /\ pipe' \in PipeType
         /\ wants' \in Nat /\ announced' \in Rows
         /\ Append(pending, Delta(nextSeq, k, v)) \in Seq(Frame)
  <1>1. Append(pending, Delta(nextSeq, k, v)) \in Seq(Frame)
    BY DEF TypeOK, Delta, Frame
  <1>2. CASE ~sub
    BY <1>1, <1>2 DEF Emit, TypeOK, PipeType, Frames
  <1>3. CASE sub
    <2>1. Settle(Append(pending, Delta(nextSeq, k, v))) /\ nextSeq' = nextSeq + 1
          /\ announced' = [announced EXCEPT ![k] = v] /\ (wants' = wants + 1 \/ wants' = wants)
      BY <1>3 DEF Emit
    <2>2. announced' \in Rows
      BY <2>1 DEF TypeOK, Rows
    <2>3. nextSeq' \in Nat \ {0} /\ wants' \in Nat
      BY <2>1 DEF TypeOK
    <2>4. pending' \in Seq(Frame) /\ pipe' \in PipeType
      BY <1>1, <2>1, SettleTypes
    <2> QED BY <1>1, <2>2, <2>3, <2>4
  <1> QED BY <1>2, <1>3

(* A later version is a version.                                           *)
LEMMA NextVersion ==
  ASSUME NEW d \in Rows, NEW k \in Keys, d[k] < MaxVersion
  PROVE  d[k] + 1 \in Versions /\ [d EXCEPT ![k] = @ + 1] \in Rows
  BY BoundsAssumption DEF Rows, Versions

(* What the shell writes to the core.                                      *)
LEMMA SendTypes ==
  ASSUME TypeOK, NEW frames \in Seq(Message)
  PROVE  Send(frames) \in Seq(Message)
  BY ConcatProperties DEF TypeOK, Send

(* A step of the core keeps the types.                                     *)
LEMMA CoreTypes ==
  ASSUME TypeOK,
         Loop \/ \E w \in Workers : (\E k \in Keys : WorkerCommit(w, k)) \/ WorkerReread(w) \/ WorkerEmit(w)
  PROVE  TypeOK'
  <1>a. ASSUME pipe' \in PipeType PROVE pipe' \in [Epochs -> Seq(Frame \cup {Hello, Response})]
    BY <1>a DEF PipeType, Frames
  <1>b. ASSUME loop' \in LoopType
        PROVE  loop' \in [at : {"recv", "read", "supply", "respond", "flush"}, data : Rows,
                          todo : Nat, last : {"recv", "flush"}]
    BY <1>b DEF LoopType
  <1>c. \A m : Receive(m) => inbox' \in Seq(Message)
    BY HeadTailProperties DEF Receive, TypeOK
  <1>d. loop \in LoopType /\ pipe \in PipeType
    BY DEF TypeOK, LoopType, PipeType, Frames
  <1>1. ASSUME NEW w \in Workers, NEW k \in Keys, WorkerCommit(w, k) PROVE TypeOK'
    <2>1. db' \in Rows /\ [at |-> "emit", key |-> k, ver |-> db[k] + 1] \in [at : {"emit"}, key : Keys, ver : Versions]
      BY <1>1, NextVersion DEF WorkerCommit, TypeOK
    <2> QED BY <1>1, <2>1 DEF WorkerCommit, TypeOK, coreVars, shellVars
  <1>2. ASSUME NEW w \in Workers, WorkerReread(w) PROVE TypeOK'
    <2>1. worker[w] \in [at : {"emit"}, key : Keys, ver : Versions]
      BY <1>2 DEF WorkerReread, TypeOK, Idle
    <2>2. [worker[w] EXCEPT !.ver = db[worker[w].key]] \in [at : {"emit"}, key : Keys, ver : Versions]
      BY <2>1 DEF TypeOK, Rows
    <2>3. worker' = [worker EXCEPT ![w] = [worker[w] EXCEPT !.ver = db[worker[w].key]]]
      BY <1>2 DEF WorkerReread
    <2>4. worker' \in [Workers -> {Idle} \cup [at : {"emit"}, key : Keys, ver : Versions]]
      BY <2>2, <2>3 DEF TypeOK
    <2>5. UNCHANGED <<db, coreVars, alive, epoch, inbox, pipe, shellVars, announced>>
      BY <1>2 DEF WorkerReread
    <2> QED BY <2>4, <2>5 DEF TypeOK, coreVars, shellVars
  <1>3. ASSUME NEW w \in Workers, WorkerEmit(w) PROVE TypeOK'
    <2>1. worker[w] \in [at : {"emit"}, key : Keys, ver : Versions]
      BY <1>3 DEF WorkerEmit, TypeOK, Idle
    <2>2. worker[w].key \in Keys /\ worker[w].ver \in Versions /\ Emit(worker[w].key, worker[w].ver)
      BY <1>3, <2>1 DEF WorkerEmit
    <2>3. /\ nextSeq' \in Nat \ {0} /\ pending' \in Seq(Frame) /\ pipe' \in PipeType
          /\ wants' \in Nat /\ announced' \in Rows
      BY <2>2, EmitTypes
    <2> QED BY <1>3, <1>a, <2>3 DEF WorkerEmit, TypeOK, shellVars
  <1>4. CASE RecvSubscribe
    <2>1. inbox' \in Seq(Message)
      BY <1>4, <1>c DEF RecvSubscribe
    <2>2. loop' \in LoopType /\ announced' \in Rows
      BY <1>4, LoopPlaces DEF RecvSubscribe, TypeOK
    <2>3. nextSeq' \in Nat \ {0} /\ pending' \in Seq(Frame)
      <3>1. (nextSeq' = nextSeq /\ pending' = pending) \/ (nextSeq' = 1 /\ pending' = <<>>)
        BY <1>4 DEF RecvSubscribe
      <3>2. nextSeq \in Nat \ {0} /\ pending \in Seq(Frame) /\ <<>> \in Seq(Frame)
        BY DEF TypeOK
      <3>3. 1 \in Nat \ {0}
        OBVIOUS
      <3> QED BY <3>1, <3>2, <3>3, Zenon
    <2>4. sub' = TRUE /\ UNCHANGED <<db, worker, wants, alive, epoch, pipe, shellVars>>
      BY <1>4 DEF RecvSubscribe
    <2> QED BY <1>b, <2>1, <2>2, <2>3, <2>4 DEF TypeOK, shellVars
  <1>5. CASE RecvUnsubscribe
    <2>0. /\ Receive("unsubscribe") /\ sub' = FALSE /\ nextSeq' = 1 /\ pending' = <<>>
          /\ UNCHANGED <<db, worker, wants, loop, alive, epoch, pipe, shellVars, announced>>
      BY <1>5 DEF RecvUnsubscribe
    <2>1. inbox' \in Seq(Message)
      BY <2>0, <1>c
    <2>2. nextSeq' \in Nat \ {0} /\ pending' \in Seq(Frame)
      BY <2>0
    <2> QED BY <2>0, <2>1, <2>2 DEF TypeOK, shellVars
  <1>6. CASE RecvResync
    BY <1>6, <1>b, <1>c, <1>d, LoopPlaces DEF RecvResync, TypeOK, shellVars
  <1>7. CASE RecvRequest
    <2>1. inbox' \in Seq(Message)
      BY <1>7, <1>c DEF RecvRequest
    <2>2. loop' \in LoopType
      BY <1>7, LoopPlaces DEF RecvRequest
    <2>3. ASSUME NEW k \in Keys, db[k] < MaxVersion, db' = [db EXCEPT ![k] = @ + 1], Emit(k, db[k] + 1)
          PROVE  TypeOK'
      <3>1. db' \in Rows /\ db[k] + 1 \in Versions
        BY <2>3, NextVersion DEF TypeOK
      <3>2. /\ nextSeq' \in Nat \ {0} /\ pending' \in Seq(Frame) /\ pipe' \in PipeType
            /\ wants' \in Nat /\ announced' \in Rows
        BY <2>3, <3>1, EmitTypes
      <3> QED BY <1>7, <1>a, <1>b, <2>1, <2>2, <3>1, <3>2 DEF RecvRequest, TypeOK, shellVars
    <2>4. CASE UNCHANGED <<db, nextSeq, pending, wants, pipe, announced>>
      BY <1>7, <1>b, <2>1, <2>2, <2>4 DEF RecvRequest, TypeOK, shellVars
    <2> QED BY <1>7, <2>3, <2>4 DEF RecvRequest
  <1>8. CASE Respond
    <2>1. loop' \in LoopType
      BY <1>8, LoopPlaces DEF Respond, TypeOK
    <2>2. pipe' \in PipeType
      <3>1. Append(pipe[epoch], Response) \in Seq(Frames)
        BY <1>d, AppendProperties DEF TypeOK, PipeType, Frames
      <3> QED BY <1>8, <1>d, <3>1 DEF Respond, PipeType
    <2> QED BY <1>8, <1>a, <1>b, <2>1, <2>2 DEF Respond, TypeOK, shellVars
  <1>9. CASE ReadSnapshot
    <2>1. loop' \in LoopType
      BY <1>9, <1>d DEF ReadSnapshot, TypeOK, LoopType
    <2> QED BY <1>9, <1>b, <2>1 DEF ReadSnapshot, TypeOK, shellVars
  <1>10. CASE SupplySnapshot
    <2>1. loop' \in LoopType
      <3>1. loop.todo \in Nat /\ loop.last \in {"recv", "flush"}
        BY <1>d DEF LoopType
      <3>2. loop.todo > 1 => loop.todo - 1 \in Nat
        BY <3>1
      <3> QED BY <1>10, <3>1, <3>2, LoopPlaces DEF SupplySnapshot
    <2>2. ReplaceWithSnapshot(loop.data) \in Seq(Frame)
      <3>1. Snapshot(ThroughSeq, loop.data) \in Frame
        BY <1>d DEF ReplaceWithSnapshot, Snapshot, ThroughSeq, Frame, TypeOK, LoopType
      <3> QED BY <3>1 DEF ReplaceWithSnapshot
    <2>3. pending' \in Seq(Frame) /\ pipe' \in PipeType /\ announced' \in Rows
      <3>1. CASE sub
        BY <1>10, <1>d, <2>2, <3>1, SettleTypes DEF SupplySnapshot, LoopType
      <3>2. CASE ~sub
        BY <1>10, <1>d, <3>2 DEF SupplySnapshot, TypeOK
      <3> QED BY <3>1, <3>2
    <2> QED BY <1>10, <1>a, <1>b, <2>1, <2>3 DEF SupplySnapshot, TypeOK, shellVars
  <1>11. CASE FlushQueue
    <2>1. pending' \in Seq(Frame) /\ pipe' \in PipeType
      BY <1>11, SettleTypes DEF FlushQueue, TypeOK
    <2> QED BY <1>11, <1>a, <1>b, <2>1, LoopPlaces DEF FlushQueue, TypeOK, shellVars
  <1> QED BY <1>1, <1>2, <1>3, <1>4, <1>5, <1>6, <1>7, <1>8, <1>9, <1>10, <1>11 DEF Loop

(* A step of the shell keeps the types.                                    *)
LEMMA ShellTypes ==
  ASSUME TypeOK, Shell \/ Subscribe \/ Unsubscribe \/ Request
  PROVE  TypeOK'
  <1>a. ASSUME pipe' \in PipeType PROVE pipe' \in [Epochs -> Seq(Frame \cup {Hello, Response})]
    BY <1>a DEF PipeType, Frames
  <1>b. pipe \in PipeType
    BY DEF TypeOK, PipeType, Frames
  <1>c. \A e \in Epochs : pipe[e] # <<>> =>
          Head(pipe[e]) \in Frames /\ [pipe EXCEPT ![e] = Tail(@)] \in PipeType
    BY <1>b, HeadTailProperties DEF PipeType
  <1>d. NewStreamState(epoch) \in [epoch : Epochs, lastSeq : Nat \cup {NoSeq}]
    BY DEF TypeOK, NewStreamState
  <1>e. /\ <<"subscribe">> \in Seq(Message) /\ <<"unsubscribe">> \in Seq(Message)
        /\ <<"resync">> \in Seq(Message) /\ ResubscribeFrames \in Seq(Message)
    BY DEF Message, ResubscribeFrames
  <1>1. CASE Subscribe
    <2>1. inbox' \in Seq(Message) /\ view' \in Rows /\ stream' \in [epoch : Epochs, lastSeq : Nat \cup {NoSeq}]
      BY <1>1, <1>d, <1>e, SendTypes, LoopPlaces DEF Subscribe
    <2> QED BY <1>1, <2>1 DEF Subscribe, TypeOK, coreVars
  <1>2. CASE Unsubscribe
    <2>1. inbox' \in Seq(Message)
      BY <1>2, <1>e, SendTypes DEF Unsubscribe
    <2> QED BY <1>2, <2>1 DEF Unsubscribe, TypeOK, coreVars
  <1>3. CASE Request
    <2>1. inbox' \in Seq(Message)
      <3>1. "request" \in Message /\ inbox \in Seq(Message)
        BY DEF Message, TypeOK
      <3> QED BY <1>3, <3>1, AppendProperties DEF Request
    <2> QED BY <1>3, <2>1 DEF Request, TypeOK, coreVars, shellVars
  <1>4. CASE ShellReady
    <2>1. pipe' \in PipeType
      BY <1>4, <1>c DEF ShellReady, TypeOK
    <2>2. inbox' \in Seq(Message) /\ stream' \in [epoch : Epochs, lastSeq : Nat \cup {NoSeq}]
      <3>1. CASE handler
        BY <1>4, <1>d, <1>e, <3>1, SendTypes DEF ShellReady
      <3>2. CASE ~handler
        BY <1>4, <3>2 DEF ShellReady, TypeOK
      <3> QED BY <3>1, <3>2
    <2> QED BY <1>4, <1>a, <2>1, <2>2 DEF ShellReady, TypeOK, coreVars
  <1>5. ASSUME NEW e \in Epochs, ShellReceive(e) PROVE TypeOK'
    <2>1. pipe' \in PipeType /\ Head(pipe[e]) \in Frames
      BY <1>5, <1>c DEF ShellReceive
    <2>2. /\ inbox' \in Seq(Message) /\ view' \in Rows
          /\ stream' \in [epoch : Epochs, lastSeq : Nat \cup {NoSeq}]
      <3>1. CASE UNCHANGED <<stream, view, inbox>>
        BY <3>1 DEF TypeOK
      <3>2. CASE Route(e, Head(pipe[e])) /\ Head(pipe[e]) # Response
        <4> DEFINE f == Head(pipe[e])
        <4>1. f \in Frame
          BY <1>5, <2>1, <3>2 DEF ShellReceive, Frames
        <4> HIDE DEF f
        <4>2. f.seq \in Nat
          BY <4>1 DEF Frame
        <4>3. stream' = stream \/ stream' = [stream EXCEPT !.lastSeq = f.seq]
          BY <3>2 DEF Route, f
        <4>4. stream' \in [epoch : Epochs, lastSeq : Nat \cup {NoSeq}]
          BY <4>2, <4>3 DEF TypeOK
        <4>5. inbox' \in Seq(Message)
          <5>1. inbox' = inbox \/ inbox' = Send(<<"resync">>)
            BY <3>2 DEF Route
          <5>2. inbox \in Seq(Message)
            BY DEF TypeOK
          <5> QED BY <1>e, <5>1, <5>2, SendTypes
        <4>6. view' \in Rows
          <5>1. Verdict(stream, e, f) = "snapshot" => f.t = "snapshot"
            BY <4>1 DEF Verdict, Frame
          <5>2. Verdict(stream, e, f) = "delivered" => f.t = "event"
            BY <4>1 DEF Verdict, Frame
          <5>3. view \in Rows
            BY DEF TypeOK
          <5>4. f.t = "snapshot" => f.rows \in Rows
            BY <4>1 DEF Frame
          <5>5. f.t = "event" => [view EXCEPT ![f.key] = f.ver] \in Rows
            BY <4>1, <5>3 DEF Frame, Rows
          <5>6. view' = CASE Verdict(stream, e, f) = "snapshot" -> f.rows
                          [] Verdict(stream, e, f) = "delivered" -> [view EXCEPT ![f.key] = f.ver]
                          [] OTHER -> view
            BY <3>2 DEF Route, f
          <5> QED BY <5>1, <5>2, <5>3, <5>4, <5>5, <5>6
        <4> QED BY <4>4, <4>5, <4>6
      <3> QED BY <1>5, <3>1, <3>2 DEF ShellReceive
    <2> QED BY <1>5, <1>a, <2>1, <2>2 DEF ShellReceive, TypeOK, coreVars
  <1> QED BY <1>1, <1>2, <1>3, <1>4, <1>5 DEF Shell

(* The core is relaunched only within the bound, the shell's stream is of  *)
(* no later epoch, and a dead core's queue went with it.                   *)
EpochsFit ==
    /\ stream.epoch <= epoch
    /\ ~alive => epoch < MaxEpoch /\ pending = <<>> /\ ~sub

(* A step keeps that.                                                      *)
LEMMA EpochsStep ==
  ASSUME TypeOK, EpochsFit, [Next]_vars
  PROVE  EpochsFit'
  <1> USE DEF EpochsFit
  <1>a. epoch \in Nat /\ stream.epoch \in Nat /\ MaxEpoch \in Nat
    BY BoundsAssumption DEF TypeOK, Epochs
  <1>1. ASSUME NEW w \in Workers, (\E k \in Keys : WorkerCommit(w, k)) \/ WorkerReread(w) \/ WorkerEmit(w)
        PROVE  EpochsFit'
    BY <1>1 DEF WorkerCommit, WorkerReread, WorkerEmit, shellVars
  <1>2. CASE Loop
    BY <1>2 DEF Loop, RecvSubscribe, RecvUnsubscribe, RecvResync, RecvRequest, Receive, Respond, ReadSnapshot,
                SupplySnapshot, FlushQueue, shellVars
  <1>3. CASE ShellReady \/ Subscribe
    <2>1. /\ stream' = stream \/ stream' = NewStreamState(epoch)
          /\ UNCHANGED <<epoch, alive, pending, sub>>
      BY <1>3 DEF ShellReady, Subscribe, coreVars
    <2> QED BY <1>a, <2>1 DEF NewStreamState
  <1>4. ASSUME NEW e \in Epochs, ShellReceive(e) PROVE EpochsFit'
    <2>1. UNCHANGED <<epoch, alive, pending, sub>>
      BY <1>4 DEF ShellReceive, coreVars
    <2>2. stream'.epoch = stream.epoch
      BY <1>4 DEF ShellReceive, Route, TypeOK
    <2> QED BY <2>1, <2>2
  <1>5. CASE Unsubscribe \/ Request
    BY <1>5 DEF Unsubscribe, Request, coreVars, shellVars
  <1>6. CASE Crash
    BY <1>6 DEF Crash, shellVars
  <1>7. CASE Launch
    BY <1>7, <1>a DEF Launch, shellVars
  <1>8. CASE UNCHANGED vars
    BY <1>8 DEF vars, shellVars, coreVars
  <1> QED BY <1>1, <1>2, <1>3, <1>4, <1>5, <1>6, <1>7, <1>8 DEF Next, Shell

(* A step keeps the types.                                                 *)
LEMMA TypeStep ==
  ASSUME TypeOK, EpochsFit, [Next]_vars
  PROVE  TypeOK'
  <1>1. CASE Crash
    <2>1. worker' \in [Workers -> {Idle} \cup [at : {"emit"}, key : Keys, ver : Versions]]
      BY <1>1 DEF Crash
    <2>2. loop' \in [at : {"recv", "read", "supply", "respond", "flush"}, data : Rows,
                     todo : Nat, last : {"recv", "flush"}]
      BY <1>1, LoopPlaces DEF Crash, LoopType
    <2>3. alive' = FALSE /\ sub' = FALSE /\ nextSeq' \in Nat \ {0} /\ wants' \in Nat
      BY <1>1 DEF Crash
    <2>4. inbox' \in Seq(Message) /\ pending' \in Seq(Frame)
      BY <1>1 DEF Crash
    <2> QED BY <1>1, <2>1, <2>2, <2>3, <2>4 DEF Crash, TypeOK, shellVars
  <1>2. CASE Launch
    <2>1. epoch + 1 \in Epochs
      BY <1>2, BoundsAssumption DEF Launch, EpochsFit, TypeOK, Epochs
    <2>2. <<Hello>> \in Seq(Frames)
      <3>1. Hello \in Frames
        BY DEF Frames
      <3> QED BY <3>1
    <2>3. pipe' \in [Epochs -> Seq(Frame \cup {Hello, Response})]
      BY <1>2, <2>1, <2>2 DEF Launch, TypeOK, Frames
    <2> QED BY <1>2, <2>1, <2>3 DEF Launch, TypeOK, coreVars, shellVars
  <1>3. CASE UNCHANGED vars
    BY <1>3 DEF vars, TypeOK, coreVars, shellVars
  <1> QED BY <1>1, <1>2, <1>3, CoreTypes, ShellTypes DEF Next

(* The first core is launched, and nobody has subscribed.                  *)
LEMMA InitTypes == ASSUME Init PROVE TypeOK /\ EpochsFit
  <1>1. 1 \in Versions /\ 1 \in Epochs /\ MaxEpoch \in Nat
    BY BoundsAssumption DEF Versions, Epochs
  <1>2. db \in Rows /\ view \in Rows /\ announced \in Rows
    BY <1>1, LoopPlaces DEF Init, Rows
  <1>3. loop \in [at : {"recv", "read", "supply", "respond", "flush"}, data : Rows,
                  todo : Nat, last : {"recv", "flush"}]
    BY LoopPlaces DEF Init, LoopType
  <1>4. pipe \in [Epochs -> Seq(Frame \cup {Hello, Response})]
    <2>1. Hello \in Frames
      BY DEF Frames
    <2>2. <<Hello>> \in Seq(Frames) /\ <<>> \in Seq(Frames)
      BY <2>1
    <2> QED BY <2>2 DEF Init, Frames
  <1>5. stream \in [epoch : Epochs, lastSeq : Nat \cup {NoSeq}]
    BY <1>1 DEF Init, NewStreamState
  <1>6. pending \in Seq(Frame) /\ inbox \in Seq(Message)
    BY DEF Init
  <1>7. worker \in [Workers -> {Idle} \cup [at : {"emit"}, key : Keys, ver : Versions]]
    BY DEF Init
  <1>8. EpochsFit
    BY DEF Init, EpochsFit, NewStreamState
  <1>9. sub \in BOOLEAN /\ alive \in BOOLEAN /\ handler \in BOOLEAN
    BY DEF Init
  <1>10. nextSeq \in Nat \ {0} /\ wants \in Nat /\ epoch \in Epochs
    BY <1>1 DEF Init
  <1>11. TypeOK
    BY <1>2, <1>3, <1>4, <1>5, <1>6, <1>7, <1>9, <1>10, Zenon DEF TypeOK
  <1> QED BY <1>8, <1>11

(* Every variable keeps to its type, and no core is launched past the      *)
(* bound.                                                                  *)
THEOREM SpecTypeOK == Spec => [](TypeOK /\ EpochsFit)
  <1>1. TypeOK /\ EpochsFit /\ [Next]_vars => (TypeOK /\ EpochsFit)'
    BY TypeStep, EpochsStep
  <1> QED BY <1>1, InitTypes, PTL DEF Spec

-----------------------------------------------------------------------------
(* No gap.                                                                 *)

(* What the shell's stream must have seen, if it listens to this epoch.    *)
Seen(a) ==
    handler /\ stream.epoch = epoch /\ stream.lastSeq # NoSeq => a # NoSeq /\ a <= stream.lastSeq

(* The frames on their way follow what the shell has seen, the queued ones *)
(* follow those, and the next number will follow them all.                 *)
NoGapAhead ==
    \E a, b, c \in Numbers :
        /\ Seen(a)
        /\ Chain(pipe[epoch], a, b)
        /\ Chain(pending, b, c)
        /\ c = NoSeq \/ nextSeq <= c + 1

(* A step that leaves the frames and the stream alone.                     *)
LEMMA AheadKept ==
  ASSUME NoGapAhead, UNCHANGED <<pipe, epoch, pending, nextSeq, stream, handler>>
  PROVE  NoGapAhead'
  BY DEF NoGapAhead, Seen

(* Settling a queue that is a chain keeps it one.                          *)
LEMMA SettleAhead ==
  ASSUME TypeOK, NEW a \in Numbers, NEW b \in Numbers, NEW c \in Numbers, NEW queue \in Seq(Frame),
         Seen(a), Chain(pipe[epoch], a, b), Chain(queue, b, c), c = NoSeq \/ nextSeq' <= c + 1,
         Settle(queue), UNCHANGED <<epoch, stream, handler>>
  PROVE  NoGapAhead'
  <1>1. pipe[epoch] \in Seq(Frames)
    BY DEF TypeOK, Frames
  <1>2. PICK d : /\ Chain(Flush(queue, pipe[epoch]).channel, a, d)
                 /\ Chain(Flush(queue, pipe[epoch]).queue, d, c)
    BY <1>1, FlushKeeps
  <1>3. d \in Numbers
    BY <1>1, <1>2, FlushKeeps, ChainEnds
  <1>4. Chain(pipe'[epoch], a, d) /\ Chain(pending', d, c)
    BY <1>2, SettleTypes
  <1>5. Seen(a)'
    BY DEF Seen
  <1> QED BY <1>3, <1>4, <1>5 DEF NoGapAhead

(* A publisher that drops its queue numbers from one again.                *)
LEMMA DropAhead ==
  ASSUME NoGapAhead, pending' = <<>>, nextSeq' = 1, UNCHANGED <<pipe, epoch, stream, handler>>
  PROVE  NoGapAhead'
  <1>1. PICK a \in Numbers, b \in Numbers : Seen(a) /\ Chain(pipe[epoch], a, b)
    BY DEF NoGapAhead
  <1>2. Chain(pending', b, b) /\ (b = NoSeq \/ nextSeq' <= b + 1)
    BY ChainEmpty DEF Numbers
  <1>3. Seen(a)' /\ Chain(pipe'[epoch'], a, b)
    BY <1>1 DEF Seen
  <1> QED BY <1>2, <1>3 DEF NoGapAhead

(* An emit numbers the delta after those before it.                        *)
LEMMA EmitAhead ==
  ASSUME TypeOK, NoGapAhead, NEW k \in Keys, NEW v \in Versions, Emit(k, v),
         UNCHANGED <<epoch, stream, handler>>
  PROVE  NoGapAhead'
  <1>1. CASE ~sub
    BY <1>1, AheadKept DEF Emit
  <1>2. CASE sub
    <2>1. PICK a \in Numbers, b \in Numbers, c \in Numbers :
            /\ Seen(a) /\ Chain(pipe[epoch], a, b) /\ Chain(pending, b, c)
            /\ c = NoSeq \/ nextSeq <= c + 1
      BY DEF NoGapAhead
    <2> DEFINE f == Delta(nextSeq, k, v)
    <2>2. f \in Frame /\ f \in Frames /\ f.seq = nextSeq
      BY DEF Delta, Frame, Frames, TypeOK
    <2>3. Topic(f) /\ Follows(c, f)
      BY <2>1, <2>2, FrameKinds DEF Follows
    <2> HIDE DEF f
    <2>4. Chain(<<f>>, c, nextSeq)
      BY <2>2, <2>3, ChainOne
    <2>5. pending \in Seq(Frame) /\ pending \in Seq(Frames)
      BY SeqMonotonic DEF TypeOK, Frames
    <2>6. Chain(pending \o <<f>>, b, nextSeq)
      BY <2>1, <2>2, <2>4, <2>5, ChainConcat, SMTT(30)
    <2>7. pending \o <<f>> = Append(pending, f) /\ Append(pending, f) \in Seq(Frame)
      BY <2>2, <2>5, AppendIsConcat, AppendProperties
    <2>8. Settle(Append(pending, f)) /\ nextSeq' = nextSeq + 1
      BY <1>2 DEF Emit, f
    <2>9. nextSeq \in Numbers /\ nextSeq' <= nextSeq + 1
      BY <2>8 DEF Numbers, TypeOK
    <2> QED BY <2>1, <2>6, <2>7, <2>8, <2>9, SettleAhead
  <1> QED BY <1>1, <1>2

(* What the shell takes follows what it has seen, and what comes next      *)
(* follows what it took.                                                   *)
LEMMA ReceiveAhead ==
  ASSUME TypeOK, NoGapAhead, NEW e \in Epochs, ShellReceive(e)
  PROVE  NoGapAhead'
  <1>1. UNCHANGED <<epoch, pending, nextSeq, handler>>
    BY DEF ShellReceive, coreVars
  <1>2. CASE e # epoch
    <2>1. pipe'[epoch] = pipe[epoch] /\ stream' = stream
      BY <1>2 DEF ShellReceive, CurrentEpoch, TypeOK
    <2> QED BY <1>1, <2>1 DEF NoGapAhead, Seen
  <1>3. CASE e = epoch
    <2> DEFINE f == Head(pipe[epoch])
    <2>1. PICK a \in Numbers, b \in Numbers, c \in Numbers :
            /\ Seen(a) /\ Chain(pipe[epoch], a, b) /\ Chain(pending, b, c)
            /\ c = NoSeq \/ nextSeq <= c + 1
      BY DEF NoGapAhead
    <2>2. /\ pipe[epoch] \in Seq(Frames) /\ pipe[epoch] # <<>> /\ f # Hello
          /\ pipe'[epoch] = Tail(pipe[epoch])
      BY <1>3 DEF ShellReceive, TypeOK, Frames
    <2>3. IF Topic(f) THEN Follows(a, f) /\ Chain(Tail(pipe[epoch]), f.seq, b)
                      ELSE Chain(Tail(pipe[epoch]), a, b)
      BY <2>1, <2>2, ChainTail
    <2>4. f \in Frames
      BY <2>2, HeadTailProperties
    <2>5. CASE ~Topic(f)
      <3>1. stream' = stream
        BY <1>3, <2>2, <2>5 DEF ShellReceive, Topic
      <3>2. Seen(a)'
        BY <1>1, <2>1, <3>1 DEF Seen
      <3> QED BY <1>1, <2>1, <2>2, <2>3, <2>5, <3>2 DEF NoGapAhead
    <2>6. CASE Topic(f)
      <3>0. stream \in [epoch : Epochs, lastSeq : Nat \cup {NoSeq}]
        BY DEF TypeOK
      <3>1. f.seq \in Nat /\ f.t \in {"event", "snapshot"} /\ f.seq \in Numbers
        BY <2>4, <2>6, FrameKinds DEF Numbers
      <3>2. handler => Route(epoch, f)
        BY <1>3, <2>6 DEF ShellReceive, CurrentEpoch, Topic
      <3>3. ~handler => stream' = stream
        BY <1>3 DEF ShellReceive
      <3>4. handler => stream' = IF Verdict(stream, epoch, f) \in {"snapshot", "delivered"}
                                 THEN [stream EXCEPT !.lastSeq = f.seq] ELSE stream
        BY <3>2 DEF Route
      <3> HIDE DEF f
      <3>5. PICK n \in Numbers : n = f.seq
        BY <3>1
      <3>6. Seen(n)'
        <4>1. handler /\ stream'.epoch = epoch /\ stream'.lastSeq # NoSeq
                => n # NoSeq /\ n <= stream'.lastSeq
          BY <2>1, <2>3, <2>6, <3>0, <3>1, <3>3, <3>4, <3>5 DEF Verdict, Follows, Seen, Numbers, NoSeq
        <4> QED BY <1>1, <4>1 DEF Seen
      <3>7. Chain(Tail(pipe[epoch]), n, b)
        BY <2>3, <2>6, <3>5
      <3>8. Chain(pipe'[epoch'], n, b) /\ Chain(pending', b, c) /\ (c = NoSeq \/ nextSeq' <= c + 1)
        BY <1>1, <2>1, <2>2, <3>7
      <3> QED BY <3>6, <3>8 DEF NoGapAhead
    <2> QED BY <2>5, <2>6
  <1> QED BY <1>2, <1>3

(* A step leaves no gap ahead.                                             *)
LEMMA AheadStep ==
  ASSUME TypeOK, EpochsFit, NoGapAhead, [Next]_vars
  PROVE  NoGapAhead'
  <1>a. PICK a \in Numbers, b \in Numbers, c \in Numbers :
          /\ Seen(a) /\ Chain(pipe[epoch], a, b) /\ Chain(pending, b, c)
          /\ c = NoSeq \/ nextSeq <= c + 1
    BY DEF NoGapAhead
  <1>b. pipe[epoch] \in Seq(Frames) /\ epoch \in Epochs /\ pipe \in [Epochs -> Seq(Frames)]
    BY DEF TypeOK, Frames
  <1>1. ASSUME NEW w \in Workers, (\E k \in Keys : WorkerCommit(w, k)) \/ WorkerReread(w) \/ WorkerEmit(w)
        PROVE  NoGapAhead'
    <2>1. CASE (\E k \in Keys : WorkerCommit(w, k)) \/ WorkerReread(w)
      BY <2>1, AheadKept DEF WorkerCommit, WorkerReread, coreVars, shellVars
    <2>2. CASE WorkerEmit(w)
      <3>1. worker[w] \in [at : {"emit"}, key : Keys, ver : Versions]
        BY <2>2 DEF WorkerEmit, TypeOK, Idle
      <3> QED BY <2>2, <3>1, EmitAhead DEF WorkerEmit, shellVars
    <2> QED BY <1>1, <2>1, <2>2
  <1>2. CASE RecvSubscribe
    <2>1. CASE sub
      BY <1>2, <2>1, AheadKept DEF RecvSubscribe, shellVars
    <2>2. CASE ~sub
      BY <1>2, <2>2, DropAhead DEF RecvSubscribe, shellVars
    <2> QED BY <2>1, <2>2
  <1>3. CASE RecvUnsubscribe
    BY <1>3, DropAhead DEF RecvUnsubscribe, shellVars
  <1>4. CASE RecvResync \/ ReadSnapshot
    BY <1>4, AheadKept DEF RecvResync, ReadSnapshot, shellVars
  <1>5. CASE RecvRequest
    <2>1. ASSUME NEW k \in Keys, db[k] < MaxVersion, Emit(k, db[k] + 1) PROVE NoGapAhead'
      <3>1. db[k] + 1 \in Versions
        BY <2>1, NextVersion DEF TypeOK
      <3> QED BY <1>5, <2>1, <3>1, EmitAhead DEF RecvRequest, shellVars
    <2>2. CASE UNCHANGED <<db, nextSeq, pending, wants, pipe, announced>>
      BY <1>5, <2>2, AheadKept DEF RecvRequest, shellVars
    <2> QED BY <1>5, <2>1, <2>2 DEF RecvRequest
  <1>6. CASE Respond
    <2>1. Response \in Frames /\ ~Topic(Response)
      BY DEF Frames, Topic
    <2>2. Chain(<<Response>>, b, b)
      BY <2>1, ChainOne
    <2>3. Chain(pipe[epoch] \o <<Response>>, a, b)
      <3>1. <<Response>> \in Seq(Frames)
        BY <2>1
      <3> QED BY <1>a, <1>b, <2>2, <3>1, ChainConcat
    <2>4. pipe'[epoch] = pipe[epoch] \o <<Response>>
      BY <1>6, <1>b, <2>1, AppendIsConcat DEF Respond
    <2>5. UNCHANGED <<epoch, pending, nextSeq, stream, handler>>
      BY <1>6 DEF Respond, shellVars
    <2>6. Seen(a)'
      BY <1>a, <2>5 DEF Seen
    <2> QED BY <1>a, <2>3, <2>4, <2>5, <2>6 DEF NoGapAhead
  <1>7. CASE SupplySnapshot
    <2>1. CASE ~sub
      BY <1>7, <2>1, AheadKept DEF SupplySnapshot, shellVars
    <2>2. CASE sub
      <3> DEFINE f == Snapshot(ThroughSeq, loop.data)
      <3>1. f \in Frame /\ f \in Frames /\ f.seq = nextSeq - 1 /\ f.t = "snapshot"
        BY DEF Snapshot, ThroughSeq, Frame, Frames, TypeOK
      <3>2. Topic(f) /\ Follows(b, f)
        BY <3>1, FrameKinds DEF Follows
      <3> HIDE DEF f
      <3>3. Chain(<<f>>, b, nextSeq - 1)
        BY <3>1, <3>2, ChainOne
      <3>4. <<f>> \in Seq(Frame) /\ nextSeq - 1 \in Numbers
        BY <3>1 DEF Numbers, TypeOK
      <3>5. Settle(<<f>>) /\ UNCHANGED <<epoch, nextSeq, stream, handler>>
        BY <1>7, <2>2 DEF SupplySnapshot, ReplaceWithSnapshot, shellVars, f
      <3>6. nextSeq' <= (nextSeq - 1) + 1
        BY <3>5 DEF TypeOK
      <3> QED BY <1>a, <3>3, <3>4, <3>5, <3>6, SettleAhead
    <2> QED BY <2>1, <2>2
  <1>8. CASE FlushQueue
    <2>1. Settle(pending) /\ UNCHANGED <<epoch, nextSeq, stream, handler>> /\ pending \in Seq(Frame)
      BY <1>8 DEF FlushQueue, shellVars, TypeOK
    <2> QED BY <1>a, <2>1, SettleAhead
  <1>9. CASE ShellReady
    <2>1. /\ pipe[epoch] # <<>> /\ Head(pipe[epoch]) = Hello /\ pipe'[epoch] = Tail(pipe[epoch])
          /\ UNCHANGED <<epoch, pending, nextSeq, handler>>
          /\ handler => stream' = NewStreamState(epoch)
      BY <1>9, <1>b DEF ShellReady, coreVars
    <2>2. Chain(Tail(pipe[epoch]), a, b)
      BY <1>a, <1>b, <2>1, ChainTail DEF Topic
    <2>3. Seen(a)'
      BY <2>1 DEF Seen, NewStreamState
    <2> QED BY <1>a, <2>1, <2>2, <2>3 DEF NoGapAhead
  <1>10. ASSUME NEW e \in Epochs, ShellReceive(e) PROVE NoGapAhead'
    BY <1>10, ReceiveAhead
  <1>11. CASE Subscribe \/ Unsubscribe
    <2>1. UNCHANGED <<pipe, epoch, pending, nextSeq>> /\ (handler' => stream'.lastSeq = NoSeq)
      BY <1>11 DEF Subscribe, Unsubscribe, coreVars, NewStreamState
    <2>2. Seen(a)'
      BY <2>1 DEF Seen
    <2> QED BY <1>a, <2>1, <2>2 DEF NoGapAhead
  <1>12. CASE Request
    BY <1>12, AheadKept DEF Request, coreVars, shellVars
  <1>13. CASE Crash
    BY <1>13, DropAhead DEF Crash, shellVars
  <1>14. CASE Launch
    <2>1. /\ epoch + 1 \in Epochs /\ epoch' = epoch + 1 /\ UNCHANGED <<pending, nextSeq, stream>>
          /\ pending = <<>> /\ stream.epoch < epoch + 1
      BY <1>14, BoundsAssumption DEF Launch, EpochsFit, TypeOK, Epochs, coreVars, shellVars
    <2>2. pipe'[epoch'] = <<Hello>>
      BY <1>14, <1>b, <2>1 DEF Launch
    <2>3. Hello \in Frames /\ ~Topic(Hello) /\ NoSeq \in Numbers
      BY DEF Frames, Topic, Numbers
    <2>4. Chain(pipe'[epoch'], NoSeq, NoSeq) /\ Chain(pending', NoSeq, NoSeq)
      BY <2>1, <2>2, <2>3, ChainOne, ChainEmpty
    <2>5. Seen(NoSeq)'
      BY <2>1 DEF Seen, TypeOK, Epochs
    <2> QED BY <2>3, <2>4, <2>5 DEF NoGapAhead
  <1>15. CASE UNCHANGED vars
    BY <1>15, AheadKept DEF vars, coreVars, shellVars
  <1> QED BY <1>1, <1>2, <1>3, <1>4, <1>5, <1>6, <1>7, <1>8, <1>9, <1>10, <1>11, <1>12, <1>13, <1>14,
             <1>15 DEF Next, Loop, Shell

(* With no frame on its way but the greeting, none is missing.             *)
LEMMA InitAhead == ASSUME Init PROVE NoGapAhead
  <1>1. epoch = 1 /\ pipe[1] = <<Hello>> /\ pending = <<>> /\ ~handler
    BY BoundsAssumption DEF Init, Epochs
  <1>2. Hello \in Frames /\ ~Topic(Hello) /\ NoSeq \in Numbers
    BY DEF Frames, Topic, Numbers
  <1>3. Chain(pipe[epoch], NoSeq, NoSeq) /\ Chain(pending, NoSeq, NoSeq)
    BY <1>1, <1>2, ChainOne, ChainEmpty
  <1> QED BY <1>1, <1>2, <1>3 DEF NoGapAhead, Seen

(* What is ahead without a gap is met without one.                         *)
LEMMA AheadIsMet == ASSUME TypeOK, NoGapAhead PROVE NoGap
  <1> SUFFICES ASSUME pipe[epoch] # <<>>, handler, Head(pipe[epoch]) \notin {Hello, Response},
                      Verdict(stream, epoch, Head(pipe[epoch])) = "gap"
               PROVE  FALSE
    BY DEF NoGap
  <1> DEFINE f == Head(pipe[epoch])
  <1>1. PICK a \in Numbers, b \in Numbers : Seen(a) /\ Chain(pipe[epoch], a, b)
    BY DEF NoGapAhead
  <1>2. pipe[epoch] \in Seq(Frames)
    BY DEF TypeOK, Frames
  <1>3. f \in Frames /\ Topic(f) /\ Follows(a, f)
    BY <1>1, <1>2, ChainTail, HeadTailProperties DEF Topic
  <1>4. f.seq \in Nat /\ f.t \in {"event", "snapshot"}
    BY <1>3, FrameKinds
  <1>5. stream \in [epoch : Epochs, lastSeq : Nat \cup {NoSeq}]
    BY DEF TypeOK
  <1> HIDE DEF f
  <1>6. Verdict(stream, epoch, f) = "gap"
    BY DEF f
  <1> QED BY <1>1, <1>3, <1>4, <1>5, <1>6 DEF Verdict, Follows, Seen, Numbers, NoSeq

(* acceptFrame never reports a gap: every frame on its way follows the one *)
(* before it, whatever overflowed into a snapshot, was dropped with its    *)
(* subscription, waited for the writer or died with its core.              *)
THEOREM SpecNoGap == Spec => []NoGap
  <1>1. TypeOK /\ EpochsFit /\ NoGapAhead /\ [Next]_vars => NoGapAhead'
    BY AheadStep
  <1>2. TypeOK /\ NoGapAhead => NoGap
    BY AheadIsMet
  <1> QED BY <1>1, <1>2, InitAhead, SpecTypeOK, PTL DEF Spec
-----------------------------------------------------------------------------
(* Folding frames.                                                         *)

(* A set of numbers that has 0, and with a number the next, has them all.  *)
LEMMA NatMin ==
  ASSUME NEW T, T \subseteq Nat, T # {}
  PROVE  \E x \in T : \A y \in T : x <= y
  <1> DEFINE R == OpToRel(<, Nat)
  <1>1. IsWellFoundedOn(R, Nat)
    BY NatLessThanWellFounded, Zenon
  <1>2. ASSUME NEW x \in Nat, NEW y \in Nat, <<y, x>> \notin R
        PROVE  x <= y
    BY <1>2 DEF OpToRel
  <1> HIDE DEF R
  <1>3. PICK x \in T : \A y \in T : ~(<<y, x>> \in R)
    BY <1>1, WFMin, Zenon
  <1>4. ASSUME NEW y \in T PROVE x <= y
    BY <1>2, <1>3, Zenon
  <1> QED BY <1>4, Zenon

(* Induction over the naturals, for a set: its least absentee has no predecessor. *)
LEMMA AllNumbers ==
  ASSUME NEW S, 0 \in S, \A n \in Nat : n \in S => n + 1 \in S
  PROVE  Nat \subseteq S
  <1> SUFFICES ASSUME Nat \ S # {} PROVE FALSE
    OBVIOUS
  <1>1. PICK x \in Nat \ S : \A y \in Nat \ S : x <= y
    BY NatMin
  <1>2. x # 0 /\ x - 1 \in Nat /\ x - 1 \in S
    BY <1>1
  <1> QED BY <1>1, <1>2

(* h is what the frames of s make of a, up to each place.                  *)
Folding(s, a, h) ==
    /\ DOMAIN h = 0..Len(s)
    /\ h[0] = a
    /\ \A i \in 1..Len(s) : h[i] = Fold(h[i - 1], s[i])

(* Frames can be folded.                                                   *)
LEMMA FoldingExists ==
  ASSUME NEW S, NEW s \in Seq(S), NEW A, NEW a \in A, \A x \in A, f \in S : Fold(x, f) \in A
  PROVE  \E h \in [0..Len(s) -> A] : Folding(s, a, h)
  <1> DEFINE Done(n, h) == /\ h \in [0..n -> A] /\ h[0] = a
                           /\ \A i \in 1..n : h[i] = Fold(h[i - 1], s[i])
             T == {n \in Nat : n <= Len(s) => \E h : Done(n, h)}
  <1>1. Len(s) \in Nat /\ \A i \in 1..Len(s) : s[i] \in S
    BY ElementOfSeq
  <1>2. 0 \in T
    <2> DEFINE h == [i \in 0..0 |-> a]
    <2>1. Done(0, h)
      OBVIOUS
    <2> HIDE DEF h, Done
    <2> QED BY <2>1
  <1>3. ASSUME NEW n \in Nat, n \in T PROVE n + 1 \in T
    <2> SUFFICES ASSUME n + 1 <= Len(s) PROVE \E h : Done(n + 1, h)
      OBVIOUS
    <2>1. PICK h : Done(n, h)
      BY <1>1, <1>3
    <2> DEFINE k == [i \in 0..(n + 1) |-> IF i <= n THEN h[i] ELSE Fold(h[n], s[n + 1])]
    <2>2. h[n] \in A /\ s[n + 1] \in S
      BY <1>1, <2>1
    <2>3. Fold(h[n], s[n + 1]) \in A
      BY <2>2
    <2>4. k \in [0..(n + 1) -> A] /\ k[0] = a
      BY <2>1, <2>3
    <2>5. ASSUME NEW i \in 1..(n + 1) PROVE k[i] = Fold(k[i - 1], s[i])
      <3>1. CASE i = n + 1
        BY <3>1
      <3>2. CASE i # n + 1
        <4>1. i \in 1..n /\ k[i] = h[i] /\ k[i - 1] = h[i - 1]
          BY <3>2
        <4> QED BY <2>1, <4>1
      <3> QED BY <3>1, <3>2
    <2> HIDE DEF k
    <2> QED BY <2>4, <2>5
  <1> HIDE DEF Done
  <1>4. Nat \subseteq T
    <2> HIDE DEF T
    <2> QED BY <1>2, <1>3, AllNumbers
  <1>5. PICK h : Done(Len(s), h)
    BY <1>1, <1>4
  <1> QED BY <1>5 DEF Done, Folding

(* In one way only.                                                        *)
LEMMA FoldingUnique ==
  ASSUME NEW s, Len(s) \in Nat, NEW a, NEW g, NEW h, Folding(s, a, g), Folding(s, a, h)
  PROVE  g[Len(s)] = h[Len(s)]
  <1> DEFINE T == {n \in Nat : n <= Len(s) => g[n] = h[n]}
  <1>1. 0 \in T
    BY DEF Folding
  <1>2. ASSUME NEW n \in Nat, n \in T PROVE n + 1 \in T
    <2> SUFFICES ASSUME n + 1 <= Len(s) PROVE g[n + 1] = h[n + 1]
      OBVIOUS
    <2>1. n + 1 \in 1..Len(s) /\ (n + 1) - 1 = n /\ g[n] = h[n]
      BY <1>2
    <2>2. g[n + 1] = Fold(g[(n + 1) - 1], s[n + 1]) /\ h[n + 1] = Fold(h[(n + 1) - 1], s[n + 1])
      BY <2>1 DEF Folding
    <2> QED BY <2>1, <2>2
  <1>3. Nat \subseteq T
    <2> HIDE DEF T
    <2> QED BY <1>1, <1>2, AllNumbers
  <1> QED BY <1>3

(* Folded is what a folding ends with.                                     *)
LEMMA FoldedIs ==
  ASSUME NEW s, Len(s) \in Nat, NEW a, NEW h, Folding(s, a, h)
  PROVE  Folded(a, s) = h[Len(s)]
  <1> DEFINE Upto(f) == f = [n \in 0..Len(s) |-> IF n = 0 THEN a ELSE Fold(f[n - 1], s[n])]
             k == [n \in 0..Len(s) |-> h[n]]
             u == CHOOSE f : Upto(f)
  <1>1. Upto(k)
    <2>1. ASSUME NEW n \in 0..Len(s) PROVE k[n] = IF n = 0 THEN a ELSE Fold(k[n - 1], s[n])
      BY DEF Folding
    <2>2. k = [n \in 0..Len(s) |-> k[n]]
      OBVIOUS
    <2> HIDE DEF k
    <2> QED BY <2>1, <2>2
  <1>2. Upto(u)
    <2> HIDE DEF k, Upto
    <2> QED BY <1>1
  <1>3. Folding(s, a, u)
    <2> HIDE DEF u
    <2>1. DOMAIN u = 0..Len(s) /\ \A n \in 0..Len(s) : u[n] = IF n = 0 THEN a ELSE Fold(u[n - 1], s[n])
      BY <1>2
    <2> QED BY <2>1 DEF Folding
  <1>4. Folded(a, s) = u[Len(s)]
    BY DEF Folded
  <1> HIDE DEF u
  <1> QED BY <1>3, <1>4, FoldingUnique

Accs == [lastSeq : Numbers, view : Rows, views : Seq(Rows)]

(* Started from the view v, the last view so far is the view.              *)
From(v) == {a \in Accs : a.view = IF a.views = <<>> THEN v ELSE a.views[Len(a.views)]}

(* What one frame does to an accumulator.                                  *)
Taken(a, f) == f \notin {Hello, Response}
               /\ Verdict([epoch |-> 1, lastSeq |-> a.lastSeq], 1, f) \in {"snapshot", "delivered"}
SeenOf(a, f) == IF f.t = "snapshot" THEN f.rows ELSE [a.view EXCEPT ![f.key] = f.ver]

(* One frame, unfolded: it is conveyed and shown, or changes nothing.      *)
LEMMA FoldIs ==
  ASSUME NEW a \in Accs, NEW f \in Frames
  PROVE  /\ Taken(a, f) => /\ Fold(a, f) = [lastSeq |-> f.seq, view |-> SeenOf(a, f),
                                            views |-> Append(a.views, SeenOf(a, f))]
                           /\ SeenOf(a, f) \in Rows /\ f.seq \in Nat
         /\ ~Taken(a, f) => Fold(a, f) = a
  <1>1. ASSUME Taken(a, f)
        PROVE  /\ f \in Frame
               /\ (Verdict([epoch |-> 1, lastSeq |-> a.lastSeq], 1, f) = "snapshot") = (f.t = "snapshot")
    <2>1. f \in Frame /\ f.t \in {"event", "snapshot"}
      BY <1>1, FrameKinds DEF Taken, Topic
    <2> QED BY <2>1 DEF Verdict
  <1>2. ASSUME Taken(a, f)
        PROVE  Fold(a, f) = [lastSeq |-> f.seq, view |-> SeenOf(a, f),
                             views |-> Append(a.views, SeenOf(a, f))]
    BY <1>1, <1>2 DEF Fold, Taken, SeenOf
  <1>3. ASSUME f \in Frame PROVE SeenOf(a, f) \in Rows /\ f.seq \in Nat
    BY <1>3 DEF SeenOf, Frame, Accs, Rows
  <1>4. ASSUME ~Taken(a, f) PROVE Fold(a, f) = a
    BY <1>4 DEF Fold, Taken
  <1> QED BY <1>1, <1>2, <1>3, <1>4

(* What a frame makes of a typed state is one.                             *)
LEMMA FoldIn ==
  ASSUME NEW v, NEW a \in From(v), NEW f \in Frames
  PROVE  Fold(a, f) \in From(v) /\ Fold(a, f) \in Accs
  <1>1. a \in Accs
    BY DEF From
  <1>2. CASE Taken(a, f)
    <2> DEFINE x == SeenOf(a, f)
    <2>1. x \in Rows /\ f.seq \in Numbers /\ a.views \in Seq(Rows)
          /\ Fold(a, f) = [lastSeq |-> f.seq, view |-> x, views |-> Append(a.views, x)]
      BY <1>1, <1>2, FoldIs DEF Accs, Numbers
    <2> HIDE DEF x
    <2>2. Append(a.views, x) \in Seq(Rows) /\ Append(a.views, x) # <<>> /\ Append(a.views, x)[Len(Append(a.views, x))] = x
      BY <2>1, AppendProperties
    <2> QED BY <2>1, <2>2 DEF From, Accs
  <1>3. CASE ~Taken(a, f)
    BY <1>1, <1>3, FoldIs
  <1> QED BY <1>2, <1>3

(* The recursion behind Folded, as an equation for each of its steps.      *)
LEMMA FoldingFrom ==
  ASSUME NEW v, NEW a \in From(v), NEW s \in Seq(Frames)
  PROVE  /\ \E h \in [0..Len(s) -> From(v)] : Folding(s, a, h) /\ Folded(a, s) = h[Len(s)]
         /\ Folded(a, s) \in From(v) /\ Folded(a, s) \in Accs
  <1>1. PICK h \in [0..Len(s) -> From(v)] : Folding(s, a, h)
    <2>1. \A x \in From(v), f \in Frames : Fold(x, f) \in From(v)
      BY FoldIn
    <2> QED BY <2>1, FoldingExists
  <1>2. Len(s) \in Nat
    OBVIOUS
  <1>3. Folded(a, s) = h[Len(s)]
    BY <1>1, <1>2, FoldedIs
  <1>4. h[Len(s)] \in From(v)
    BY <1>2
  <1> QED BY <1>1, <1>3, <1>4 DEF From

(* No frame makes no difference,                                           *)
LEMMA FoldedEmpty == ASSUME NEW a PROVE Folded(a, <<>>) = a
  <1> DEFINE h == [i \in 0..0 |-> a]
  <1>1. Folding(<<>>, a, h) /\ h[Len(<<>>)] = a /\ Len(<<>>) \in Nat
    BY DEF Folding
  <1> HIDE DEF h
  <1> QED BY <1>1, FoldedIs

(* one is folded,                                                          *)
LEMMA FoldedOne == ASSUME NEW a, NEW f PROVE Folded(a, <<f>>) = Fold(a, f)
  <1> DEFINE h == [i \in 0..1 |-> IF i = 0 THEN a ELSE Fold(a, f)]
  <1>1. Len(<<f>>) = 1 /\ <<f>>[1] = f
    OBVIOUS
  <1>2. Folding(<<f>>, a, h) /\ h[Len(<<f>>)] = Fold(a, f) /\ Len(<<f>>) \in Nat
    BY <1>1 DEF Folding
  <1> HIDE DEF h
  <1> QED BY <1>2, FoldedIs

(* and two sequences are folded one after the other.                       *)
LEMMA FoldedConcat ==
  ASSUME NEW v, NEW a \in From(v), NEW s \in Seq(Frames), NEW t \in Seq(Frames)
  PROVE  Folded(a, s \o t) = Folded(Folded(a, s), t)
  <1>1. PICK g : Folding(s, a, g) /\ Folded(a, s) = g[Len(s)]
    BY FoldingFrom
  <1>2. PICK h : Folding(t, Folded(a, s), h) /\ Folded(Folded(a, s), t) = h[Len(t)]
    BY FoldingFrom
  <1> DEFINE m == Len(s)
             n == Len(t)
             k == [i \in 0..(m + n) |-> IF i <= m THEN g[i] ELSE h[i - m]]
  <1>3. m \in Nat /\ n \in Nat /\ Len(s \o t) = m + n
        /\ \A i \in 1..(m + n) : (s \o t)[i] = IF i <= m THEN s[i] ELSE t[i - m]
    BY ConcatProperties
  <1>4. DOMAIN k = 0..(m + n) /\ k[0] = a /\ k[m + n] = h[n]
    BY <1>1, <1>2, <1>3, SMTT(60) DEF Folding
  <1>5. ASSUME NEW i \in 1..(m + n) PROVE k[i] = Fold(k[i - 1], (s \o t)[i])
    <2>1. CASE i <= m
      <3>1. i \in 1..Len(s) /\ k[i] = g[i] /\ k[i - 1] = g[i - 1] /\ (s \o t)[i] = s[i]
        BY <1>3, <2>1
      <3> QED BY <1>1, <3>1 DEF Folding
    <2>2. CASE i > m
      <3>1. i - m \in 1..Len(t) /\ k[i] = h[i - m] /\ (s \o t)[i] = t[i - m]
        BY <1>3, <2>2
      <3>2. k[i - 1] = h[(i - m) - 1]
        <4>1. CASE i = m + 1
          <5>1. k[i - 1] = g[m] /\ h[(i - m) - 1] = h[0]
            BY <1>3, <4>1
          <5> QED BY <5>1, <1>1, <1>2 DEF Folding
        <4>2. CASE i # m + 1
          BY <1>3, <2>2, <4>2
        <4> QED BY <4>1, <4>2
      <3> QED BY <1>2, <3>1, <3>2 DEF Folding
    <2> QED BY <1>3, <2>1, <2>2
  <1> HIDE DEF k
  <1>6. Folding(s \o t, a, k) /\ Len(s \o t) \in Nat
    BY <1>3, <1>4, <1>5 DEF Folding
  <1>7. Folded(a, s \o t) = k[Len(s \o t)]
    BY <1>6, FoldedIs
  <1> QED BY <1>2, <1>3, <1>4, <1>7

Behind(w, a) == [lastSeq |-> a.lastSeq, view |-> a.view, views |-> w \o a.views]

(* Views already conveyed stay in front of what one more frame gives,      *)
LEMMA FoldBehind ==
  ASSUME NEW w \in Seq(Rows), NEW a \in Accs, NEW f \in Frames
  PROVE  Behind(w, a) \in Accs /\ Fold(Behind(w, a), f) = Behind(w, Fold(a, f))
  <1>1. Behind(w, a) \in Accs /\ Behind(w, a).lastSeq = a.lastSeq /\ Behind(w, a).view = a.view
        /\ Behind(w, a).views = w \o a.views /\ a.views \in Seq(Rows)
    BY ConcatProperties DEF Behind, Accs
  <1>2. Taken(Behind(w, a), f) = Taken(a, f) /\ SeenOf(Behind(w, a), f) = SeenOf(a, f)
    BY <1>1 DEF Taken, SeenOf
  <1>3. CASE Taken(a, f)
    <2> DEFINE x == SeenOf(a, f)
    <2>1. x \in Rows /\ Fold(a, f) = [lastSeq |-> f.seq, view |-> x, views |-> Append(a.views, x)]
      BY <1>3, FoldIs
    <2>2. Fold(Behind(w, a), f) = [lastSeq |-> f.seq, view |-> x, views |-> Append(w \o a.views, x)]
      BY <1>1, <1>2, <1>3, FoldIs
    <2> HIDE DEF x
    <2>3. Append(w \o a.views, x) = w \o Append(a.views, x)
      <3>1. w \o a.views \in Seq(Rows) /\ a.views \in Seq(Rows) /\ <<x>> \in Seq(Rows)
        BY <1>1, <2>1, ConcatProperties
      <3>2. Append(w \o a.views, x) = (w \o a.views) \o <<x>> /\ Append(a.views, x) = a.views \o <<x>>
        BY <2>1, <3>1, AppendIsConcat
      <3>3. (w \o a.views) \o <<x>> = w \o (a.views \o <<x>>)
        <4>1. \A p, q, r \in Seq(Rows) : (p \o q) \o r = p \o (q \o r)
          BY ConcatAssociative
        <4> QED BY <3>1, <4>1
      <3> QED BY <3>2, <3>3
    <2> QED BY <1>1, <2>1, <2>2, <2>3 DEF Behind
  <1>4. CASE ~Taken(a, f)
    BY <1>1, <1>2, <1>4, FoldIs
  <1> QED BY <1>1, <1>3, <1>4

(* and of what any number of frames give.                                  *)
LEMMA FoldedBehind ==
  ASSUME NEW v, NEW w \in Seq(Rows), NEW a \in From(v), NEW s \in Seq(Frames)
  PROVE  Folded(Behind(w, a), s) = Behind(w, Folded(a, s))
  <1>1. PICK h \in [0..Len(s) -> From(v)] : Folding(s, a, h) /\ Folded(a, s) = h[Len(s)]
    BY FoldingFrom
  <1> DEFINE k == [i \in 0..Len(s) |-> Behind(w, h[i])]
  <1>2. Len(s) \in Nat /\ \A i \in 1..Len(s) : s[i] \in Frames
    BY ElementOfSeq
  <1>3. ASSUME NEW i \in 1..Len(s) PROVE k[i] = Fold(k[i - 1], s[i])
    <2>0. i - 1 \in 0..Len(s) /\ i \in 0..Len(s)
      BY <1>2
    <2>1. h[i - 1] \in From(v) /\ s[i] \in Frames /\ h[i] = Fold(h[i - 1], s[i])
      BY <1>1, <1>2, <2>0 DEF Folding
    <2>2. k[i] = Behind(w, h[i]) /\ k[i - 1] = Behind(w, h[i - 1])
      BY <1>2
    <2>3. h[i - 1] \in Accs
      BY <2>1 DEF From
    <2> HIDE DEF k
    <2> QED BY <2>1, <2>2, <2>3, FoldBehind
  <1>4. k[0] = Behind(w, a) /\ k[Len(s)] = Behind(w, Folded(a, s))
    BY <1>1, <1>2 DEF Folding
  <1>5. DOMAIN k = 0..Len(s)
    OBVIOUS
  <1> HIDE DEF k
  <1>6. Folding(s, Behind(w, a), k)
    BY <1>3, <1>4, <1>5 DEF Folding
  <1> QED BY <1>2, <1>4, <1>6, FoldedIs

-----------------------------------------------------------------------------
(* TopicStream implements TopicFeed.                                       *)

(* A dead core has no inbox, and whoever subscribes listens to the epoch.  *)
EpochHeard ==
    /\ ~alive => inbox = <<>>
    /\ alive /\ (sub \/ \E i \in DOMAIN inbox : inbox[i] = "subscribe") => stream.epoch = epoch

(* What is on its way ends with what was told and with the last number     *)
(* handed out.                                                             *)
EndIsTold ==
    Established =>
        /\ Folded(Shown, Unread).lastSeq = nextSeq - 1
        /\ Folded(Shown, Unread).view = announced

(* What a step has to be, and to keep.                                     *)
Conveys == EndIsTold' /\ [Feed!Next]_(Feed!vars)

(* The frames on their way and what is shown are of their types.           *)
LEMMA ShownTypes ==
  ASSUME TypeOK
  PROVE  /\ Shown \in From(view) /\ Shown \in Accs
         /\ pipe[epoch] \in Seq(Frames) /\ pending \in Seq(Frames) /\ Unread \in Seq(Frames)
  <1>1. Shown \in From(view) /\ Shown \in Accs
    BY DEF TypeOK, Shown, From, Accs, Numbers
  <1>2. pipe[epoch] \in Seq(Frames)
    BY DEF TypeOK, Frames
  <1>3. pending \in Seq(Frames)
    BY SeqMonotonic DEF TypeOK, Frames
  <1> QED BY <1>1, <1>2, <1>3, ConcatProperties DEF Unread

(* A step that ends with the feed off is one of the feed's.                *)
LEMMA ConveysOff ==
  ASSUME ~Established'
  PROVE  Conveys
  <1>1. EndIsTold'
    BY DEF EndIsTold
  <1>2. Feed!Next
    BY DEF Feed!Next, Feed!Break, Feed!Unknown
  <1> QED BY <1>1, <1>2 DEF Conveys

(* A step that leaves what is on its way to the same end is none.          *)
LEMMA ConveysSame ==
  ASSUME Established' = Established, Shown' = Shown, UNCHANGED <<announced, nextSeq>>, EndIsTold,
         Folded(Shown', Unread') = Folded(Shown, Unread)
  PROVE  Conveys
  <1>1. UNCHANGED view
    BY DEF Shown
  <1>2. Coming' = Coming
    BY DEF Coming
  <1>3. EndIsTold'
    BY DEF EndIsTold
  <1>4. UNCHANGED Feed!vars
    BY <1>1, <1>2 DEF Feed!vars
  <1> QED BY <1>3, <1>4 DEF Conveys

(* What comes is what was coming from a part of the frames, and the rest.  *)
LEMMA ComesAfter ==
  ASSUME TypeOK, NEW s \in Seq(Frames), NEW rest \in Seq(Frames)
  PROVE  \E w \in Seq(Rows) : Folded(Shown, s \o rest).views = Folded(Shown, s).views \o w
  <1> DEFINE a == Folded(Shown, s)
             b == [lastSeq |-> a.lastSeq, view |-> a.view, views |-> <<>>]
  <1>1. a \in Accs
    BY ShownTypes, FoldingFrom
  <1>2. b \in From(a.view) /\ Behind(a.views, b) = a /\ a.views \in Seq(Rows)
    <2> HIDE DEF a
    <2>1. a.views \in Seq(Rows) /\ a.views \o <<>> = a.views
      BY <1>1, ConcatEmptySeq DEF Accs
    <2> QED BY <1>1, <2>1 DEF From, Accs, Behind
  <1>3. Folded(Shown, s \o rest) = Folded(a, rest)
    BY ShownTypes, FoldedConcat
  <1> HIDE DEF a, b
  <1>4. Folded(a, rest) = Behind(a.views, Folded(b, rest)) /\ Folded(b, rest) \in Accs
    BY <1>2, FoldedBehind, FoldingFrom
  <1>5. Folded(a, rest).views = a.views \o Folded(b, rest).views /\ Folded(b, rest).views \in Seq(Rows)
    BY <1>4 DEF Behind, Accs
  <1> QED BY <1>3, <1>5 DEF a

(* Told a new state, at the end of what is on its way or in place of some  *)
(* of it, or of all with the feed off.                                     *)
LEMMA ConveysTold ==
  ASSUME TypeOK, NEW s \in Seq(Frames), NEW rest \in Seq(Frames), NEW f \in Frames,
         Shown' = Shown, Unread = s \o rest, Unread' = s \o <<f>>,
         Taken(Folded(Shown, s), f), f.seq = nextSeq' - 1, SeenOf(Folded(Shown, s), f) = announced'
  PROVE  Conveys
  <1> DEFINE a == Folded(Shown, s)
             x == SeenOf(a, f)
  <1>1. a \in Accs
    BY ShownTypes, FoldingFrom
  <1>2. x \in Rows /\ Fold(a, f) = [lastSeq |-> f.seq, view |-> x, views |-> Append(a.views, x)]
    BY <1>1, FoldIs
  <1>3. Folded(Shown', Unread') = Fold(a, f)
    <2>1. <<f>> \in Seq(Frames)
      OBVIOUS
    <2>2. Folded(Shown, s \o <<f>>) = Folded(a, <<f>>)
      BY <2>1, ShownTypes, FoldedConcat, ZenonT(60)
    <2> QED BY <2>2, FoldedOne
  <1>4. EndIsTold'
    BY <1>2, <1>3 DEF EndIsTold
  <1>5. Coming' = Append(a.views, announced')
    <2>1. Coming' = Folded(Shown', Unread').views
      BY DEF Coming
    <2> HIDE DEF a
    <2>2. x = announced'
      BY DEF a
    <2> HIDE DEF x
    <2> QED BY <1>2, <1>3, <2>1, <2>2
  <1>6. view' = view
    BY DEF Shown
  <1>7. PICK w \in Seq(Rows) : Coming = a.views \o w
    BY ComesAfter DEF Coming
  <1>8. a.views \in Seq(Rows) /\ announced' \in Rows
    BY <1>1, <1>2 DEF Accs
  <1> HIDE DEF a, x
  <1>9. /\ Coming' # <<>> /\ Feed!Last(Coming') = announced' /\ Feed!Front(Coming') = a.views
        /\ Feed!IsPrefix(a.views, Coming)
    <2>1. /\ Coming' \in Seq(Rows) /\ Len(Coming') = Len(a.views) + 1 /\ Coming'[Len(a.views) + 1] = announced'
          /\ \A i \in 1..Len(a.views) : Coming'[i] = a.views[i]
      BY <1>5, <1>8, AppendProperties
    <2>2. Feed!Front(Coming') = a.views
      BY <1>8, <2>1, SeqEqual, SubSeqProperties DEF Feed!Front
    <2>3. Feed!IsPrefix(a.views, Coming)
      BY <1>7, <1>8, ConcatProperties DEF Feed!IsPrefix
    <2> QED BY <2>1, <2>2, <2>3 DEF Feed!Last
  <1>10. CASE ~Established'
    BY <1>10, ConveysOff
  <1>11. CASE Established /\ Established'
    <2>1. Feed!Tell
      BY <1>6, <1>9, <1>11 DEF Feed!Tell
    <2> QED BY <1>4, <2>1 DEF Conveys, Feed!Next
  <1>12. CASE ~Established /\ Established'
    <2>1. Feed!Establish
      BY <1>9, <1>12 DEF Feed!Establish, Feed!Upshot
    <2> QED BY <1>4, <2>1 DEF Conveys, Feed!Next
  <1> QED BY <1>10, <1>11, <1>12

(* The shell takes the next frame on its way.                              *)
LEMMA ConveysShown ==
  ASSUME TypeOK, EndIsTold, NEW f \in Frames, NEW t \in Seq(Frames), Unread = <<f>> \o t, Unread' = t,
         UNCHANGED <<announced, nextSeq>>, Established' = Established,
         IF Taken(Shown, f) THEN Shown' = [lastSeq |-> f.seq, view |-> SeenOf(Shown, f), views |-> <<>>]
                            ELSE Shown' = Shown
  PROVE  Conveys
  <1>1. Folded(Shown, Unread) = Folded(Fold(Shown, f), t)
    <2>1. <<f>> \in Seq(Frames)
      OBVIOUS
    <2>2. Folded(Shown, <<f>> \o t) = Folded(Folded(Shown, <<f>>), t)
      BY <2>1, ShownTypes, FoldedConcat, ZenonT(60)
    <2> QED BY <2>2, FoldedOne
  <1>2. CASE ~Taken(Shown, f)
    <2>1. Folded(Shown', Unread') = Folded(Shown, Unread)
      BY <1>1, <1>2, ShownTypes, FoldIs
    <2> QED BY <1>2, <2>1, ConveysSame
  <1>3. CASE Taken(Shown, f)
    <2> DEFINE x == SeenOf(Shown, f)
               b == [lastSeq |-> f.seq, view |-> x, views |-> <<>>]
    <2>1. Shown' = b /\ x \in Rows /\ f.seq \in Nat
          /\ Fold(Shown, f) = [lastSeq |-> f.seq, view |-> x, views |-> <<x>>]
      BY <1>3, ShownTypes, FoldIs DEF Shown
    <2> HIDE DEF x
    <2>2. b \in From(x) /\ Fold(Shown, f) = Behind(<<x>>, b) /\ <<x>> \in Seq(Rows)
      BY <2>1 DEF From, Accs, Numbers, Behind
    <2>3. Folded(Shown, Unread) = Behind(<<x>>, Folded(b, t)) /\ Folded(b, t) \in Accs
      <3> HIDE DEF b
      <3> QED BY <1>1, <2>2, FoldedBehind, FoldingFrom
    <2>4. Folded(Shown', Unread') = Folded(b, t)
      BY <2>1
    <2>5. Coming = <<x>> \o Coming' /\ view' = x
      BY <2>1, <2>3, <2>4, SMTT(60) DEF Coming, Behind, Shown
    <2>6. EndIsTold'
      BY <2>3, <2>4 DEF EndIsTold, Behind
    <2>7. CASE Established
      BY <2>5, <2>6, <2>7 DEF Conveys, Feed!Next, Feed!Show
    <2> QED BY <2>7, ConveysOff
  <1> QED BY <1>2, <1>3

(* Sequences of frames are joined in any order.                            *)
LEMMA JoinFrames == \A p, q, r \in Seq(Frames) : (p \o q) \o r = p \o (q \o r)
  BY ConcatAssociative

(* A flush moves frames and changes none.                                  *)
LEMMA SettleUnread ==
  ASSUME TypeOK, NEW queue \in Seq(Frame), Settle(queue), UNCHANGED epoch
  PROVE  Unread' = pipe[epoch] \o queue
  <1> DEFINE n == Smaller(Len(queue), Capacity - Len(pipe[epoch]))
             m == IF n < 0 THEN 0 ELSE n
             head == SubSeq(queue, 1, m)
             rest == SubSeq(queue, m + 1, Len(queue))
  <1>1. pipe[epoch] \in Seq(Frames) /\ queue \in Seq(Frames) /\ epoch \in Epochs
    BY ShownTypes, SeqMonotonic DEF Frames, TypeOK
  <1>2. Len(queue) \in Nat /\ Len(pipe[epoch]) \in Nat /\ Capacity \in Nat
    BY <1>1, CapacityAssumption
  <1>3. m \in 0..Len(queue)
    BY <1>2 DEF Smaller
  <1>4. pending' = rest /\ pipe'[epoch] = pipe[epoch] \o head
    BY SettleTypes DEF Flush
  <1> HIDE DEF m
  <1>5. head \in Seq(Frames) /\ rest \in Seq(Frames) /\ head \o rest = queue
    <2>1. \A i \in 1..Len(queue) : queue[i] \in Frames
      BY <1>1, ElementOfSeq
    <2>2. head \in Seq(Frames) /\ rest \in Seq(Frames)
      BY <1>2, <1>3, <2>1, SubSeqProperties
    <2>3. SubSeq(queue, 1, m) \o SubSeq(queue, m + 1, Len(queue)) = SubSeq(queue, 1, Len(queue))
      <3>1. 1 \in 1..Len(queue)+1 /\ m \in (1 - 1)..Len(queue) /\ Len(queue) \in m..Len(queue)
        BY <1>2, <1>3
      <3> QED BY <1>1, <3>1, ConcatAdjacentSubSeq
    <2>4. SubSeq(queue, 1, Len(queue)) = queue
      BY <1>1, SubSeqFull
    <2> QED BY <2>2, <2>3, <2>4
  <1> HIDE DEF head, rest
  <1>6. (pipe[epoch] \o head) \o rest = pipe[epoch] \o (head \o rest)
    BY <1>1, <1>5, JoinFrames, ZenonT(60)
  <1> QED BY <1>4, <1>5, <1>6 DEF Unread

(* A step that leaves the frames and the stream alone.                     *)
LEMMA ConveysKept ==
  ASSUME EndIsTold, Established' = Established,
         UNCHANGED <<announced, nextSeq, pipe, epoch, pending, stream, view>>
  PROVE  Conveys
  BY ConveysSame DEF Shown, Unread

(* An emit tells the new row.                                              *)
LEMMA ConveysEmit ==
  ASSUME TypeOK, EndIsTold, NEW k \in Keys, NEW v \in Versions, Emit(k, v),
         Established' = Established, UNCHANGED <<epoch, stream, view, sub>>
  PROVE  Conveys
  <1>1. CASE ~Established
    BY <1>1, ConveysOff
  <1>2. CASE Established
    <2> DEFINE f == Delta(nextSeq, k, v)
               a == Folded(Shown, Unread)
    <2>1. sub /\ Settle(Append(pending, f)) /\ nextSeq' = nextSeq + 1
          /\ announced' = [announced EXCEPT ![k] = v]
      BY <1>2 DEF Emit, Established
    <2>2. f \in Frame /\ f \in Frames /\ f.t = "event" /\ f.seq = nextSeq /\ f.key = k /\ f.ver = v
          /\ nextSeq \in Nat
      BY DEF Delta, Frame, Frames, TypeOK
    <2>3. Append(pending, f) \in Seq(Frame) /\ Append(pending, f) = pending \o <<f>>
          /\ <<f>> \in Seq(Frames)
      <3> HIDE DEF f
      <3> QED BY <2>2, AppendIsConcat DEF TypeOK
    <2> HIDE DEF f
    <2>4. Unread' = Unread \o <<f>>
      <3>1. Unread' = pipe[epoch] \o (pending \o <<f>>)
        BY <2>1, <2>3, SettleUnread
      <3>2. (pipe[epoch] \o pending) \o <<f>> = pipe[epoch] \o (pending \o <<f>>)
        BY <2>3, ShownTypes, JoinFrames
      <3> QED BY <3>1, <3>2 DEF Unread
    <2>5. a.lastSeq = nextSeq - 1 /\ a.view = announced
      BY <1>2 DEF EndIsTold
    <2> HIDE DEF a
    <2>6. Taken(a, f) /\ SeenOf(a, f) = announced' /\ f.seq = nextSeq' - 1
      BY <2>1, <2>2, <2>5, FrameKinds DEF Taken, SeenOf, Verdict, NoSeq, Topic
    <2>7. Shown' = Shown
      BY DEF Shown
    <2>8. Unread \in Seq(Frames) /\ <<>> \in Seq(Frames) /\ Unread = Unread \o <<>>
      BY ShownTypes, ConcatEmptySeq
    <2> QED BY <2>2, <2>4, <2>6, <2>7, <2>8, ConveysTold DEF a
  <1> QED BY <1>1, <1>2

(* A snapshot replaces what is queued.                                     *)
LEMMA ConveysSupply ==
  ASSUME TypeOK, EndIsTold, SupplySnapshot
  PROVE  Conveys
  <1>1. CASE ~sub
    BY <1>1, ConveysOff DEF SupplySnapshot, Established
  <1>2. CASE sub
    <2> DEFINE f == Snapshot(ThroughSeq, loop.data)
    <2>1. f \in Frame /\ f \in Frames /\ f.seq = nextSeq - 1 /\ f.t = "snapshot" /\ f.rows = loop.data
      BY DEF Snapshot, ThroughSeq, Frame, Frames, TypeOK
    <2>2. Settle(<<f>>) /\ announced' = loop.data /\ UNCHANGED <<epoch, nextSeq, stream, view>>
      BY <1>2 DEF SupplySnapshot, ReplaceWithSnapshot, shellVars
    <2> HIDE DEF f
    <2>3. Unread' = pipe[epoch] \o <<f>>
      <3>1. <<f>> \in Seq(Frame)
        BY <2>1
      <3> QED BY <2>2, <3>1, SettleUnread
    <2>4. Taken(Folded(Shown, pipe[epoch]), f) /\ SeenOf(Folded(Shown, pipe[epoch]), f) = announced'
      BY <2>1, <2>2, FrameKinds DEF Taken, SeenOf, Verdict, Topic
    <2>5. Shown' = Shown
      BY <2>2 DEF Shown
    <2> QED BY <2>1, <2>2, <2>3, <2>4, <2>5, ShownTypes, ConveysTold DEF Unread
  <1> QED BY <1>1, <1>2

(* Reading the pipe shows what comes next.                                 *)
LEMMA ConveysReceive ==
  ASSUME TypeOK, EpochHeard, EndIsTold, NEW e \in Epochs, ShellReceive(e)
  PROVE  Conveys
  <1>a. pipe[epoch] \in Seq(Frames) /\ pipe \in [Epochs -> Seq(Frames)] /\ epoch \in Epochs
    BY DEF TypeOK, Frames
  <1>b. UNCHANGED <<announced, nextSeq, epoch, pending, alive, handler, sub, loop>>
        /\ pipe' = [pipe EXCEPT ![e] = Tail(@)] /\ pipe[e] # <<>> /\ Head(pipe[e]) # Hello
    BY DEF ShellReceive, coreVars
  <1>c. Established' = Established
    <2>1. inbox' = inbox \/ (inbox \in Seq(Message) /\ inbox' = inbox \o <<"resync">>)
      BY DEF ShellReceive, Route, Send, TypeOK
    <2>2. CASE inbox' = inbox
      BY <1>b, <2>2 DEF Established
    <2>3. CASE inbox \in Seq(Message) /\ inbox' = inbox \o <<"resync">>
      <3>1. /\ DOMAIN inbox' = 1..(Len(inbox) + 1) /\ DOMAIN inbox = 1..Len(inbox) /\ Len(inbox) \in Nat
            /\ inbox'[Len(inbox) + 1] = "resync" /\ \A i \in 1..Len(inbox) : inbox'[i] = inbox[i]
        BY <2>3
      <3>2. (\A i \in DOMAIN inbox' : inbox'[i] \notin {"subscribe", "unsubscribe"})
            = (\A i \in DOMAIN inbox : inbox[i] \notin {"subscribe", "unsubscribe"})
        BY <3>1
      <3> QED BY <1>b, <3>2 DEF Established
    <2> QED BY <2>1, <2>2, <2>3
  <1>1. CASE ~Established
    BY <1>1, <1>c, ConveysOff
  <1>2. CASE e # epoch
    <2>1. UNCHANGED <<stream, view>> /\ pipe'[epoch] = pipe[epoch]
      BY <1>2, <1>a, <1>b DEF ShellReceive, CurrentEpoch
    <2> QED BY <1>b, <1>c, <2>1, ConveysSame DEF Shown, Unread
  <1>3. CASE Established /\ e = epoch
    <2> DEFINE f == Head(pipe[epoch])
               t == Tail(pipe[epoch]) \o pending
    <2>1. handler /\ stream.epoch = epoch
      BY <1>3 DEF Established, EpochHeard
    <2>2. f \in Frames /\ f # Hello /\ Tail(pipe[epoch]) \in Seq(Frames) /\ pipe[epoch] = <<f>> \o Tail(pipe[epoch])
      <3>1. pipe[epoch] # <<>>
        BY <1>b, <1>3
      <3> QED BY <1>a, <1>b, <1>3, <3>1, HeadTailProperties, SeqEqual, ConcatProperties
    <2>3. t \in Seq(Frames) /\ Unread = <<f>> \o t /\ Unread' = t
      <3>1. pipe'[epoch] = Tail(pipe[epoch])
        BY <1>a, <1>b, <1>3
      <3>2. (<<f>> \o Tail(pipe[epoch])) \o pending = <<f>> \o (Tail(pipe[epoch]) \o pending)
        <4>1. <<f>> \in Seq(Frames)
          BY <2>2
        <4> HIDE DEF f
        <4> QED BY <2>2, <4>1, ShownTypes, JoinFrames
      <3> HIDE DEF f
      <3> QED BY <1>b, <2>2, <3>1, <3>2, ShownTypes, ConcatProperties DEF Unread
    <2>4. IF Taken(Shown, f) THEN Shown' = [lastSeq |-> f.seq, view |-> SeenOf(Shown, f), views |-> <<>>]
                             ELSE Shown' = Shown
      <3>1. CASE f = Response
        <4>1. UNCHANGED <<stream, view>>
          BY <1>3, <3>1 DEF ShellReceive
        <4> QED BY <3>1, <4>1 DEF Taken, Shown
      <3>2. CASE f # Response
        <4>1. Route(epoch, f)
          BY <1>3, <2>1, <2>2, <3>2 DEF ShellReceive, CurrentEpoch
        <4>2. stream \in [epoch : Epochs, lastSeq : Nat \cup {NoSeq}]
          BY DEF TypeOK
        <4>3. f \in Frame /\ f.t \in {"event", "snapshot"}
          BY <2>2, <3>2, FrameKinds DEF Topic
        <4> HIDE DEF f, t
        <4>4. Verdict(stream, epoch, f) = Verdict([epoch |-> 1, lastSeq |-> Shown.lastSeq], 1, f)
          BY <2>1, <4>2 DEF Verdict, Shown
        <4>5. /\ Verdict(stream, epoch, f) \in {"stale", "snapshot", "delivered", "gap"}
              /\ Verdict(stream, epoch, f) = "snapshot" <=> f.t = "snapshot"
          BY <2>1, <4>3 DEF Verdict
        <4>6. CASE Verdict(stream, epoch, f) \in {"snapshot", "delivered"}
          <5>1. stream' = [stream EXCEPT !.lastSeq = f.seq] /\ view' = SeenOf(Shown, f)
            BY <4>1, <4>5, <4>6 DEF Route, SeenOf, Shown
          <5>2. Taken(Shown, f)
            BY <2>2, <3>2, <4>4, <4>6 DEF Taken
          <5> QED BY <4>2, <5>1, <5>2 DEF Shown
        <4>7. CASE Verdict(stream, epoch, f) \notin {"snapshot", "delivered"}
          <5>1. UNCHANGED <<stream, view>>
            BY <4>1, <4>5, <4>7 DEF Route
          <5>2. ~Taken(Shown, f)
            BY <4>4, <4>7 DEF Taken
          <5> QED BY <5>1, <5>2 DEF Shown
        <4> QED BY <4>6, <4>7
      <3> QED BY <3>1, <3>2
    <2> HIDE DEF f, t
    <2> QED BY <1>b, <1>c, <2>2, <2>3, <2>4, ConveysShown
  <1> QED BY <1>1, <1>2, <1>3

(* A step keeps the shell's stream to the epoch it subscribed in.          *)
LEMMA HeardStep ==
  ASSUME TypeOK, EpochsFit, EpochHeard, [Next]_vars
  PROVE  EpochHeard'
  <1> DEFINE Asked == \E i \in DOMAIN inbox : inbox[i] = "subscribe"
  <1>a. inbox \in Seq(Message)
    BY DEF TypeOK
  <1>b. ASSUME NEW m, Receive(m)
        PROVE  alive /\ (m = "subscribe" \/ Asked' => Asked)
    <2>1. alive /\ inbox # <<>> /\ inbox' = Tail(inbox) /\ Head(inbox) = m
      BY <1>b DEF Receive
    <2>2. Len(inbox) \in Nat \ {0} /\ DOMAIN inbox = 1..Len(inbox) /\ Head(inbox) = inbox[1]
      BY <1>a, <2>1
    <2>3. DOMAIN Tail(inbox) = 1..(Len(inbox) - 1) /\ \A i \in 1..(Len(inbox) - 1) : Tail(inbox)[i] = inbox[i + 1]
      BY <1>a, <2>1
    <2> QED BY <2>1, <2>2, <2>3
  <1>c. ASSUME NEW m, inbox' = inbox \o <<m>> \/ inbox' = Append(inbox, m), m # "subscribe", Asked' PROVE Asked
    <2>1. /\ DOMAIN inbox' = 1..(Len(inbox) + 1) /\ DOMAIN inbox = 1..Len(inbox) /\ Len(inbox) \in Nat
          /\ inbox'[Len(inbox) + 1] = m /\ \A i \in 1..Len(inbox) : inbox'[i] = inbox[i]
      BY <1>a, <1>c
    <2> QED BY <1>c, <2>1
  <1>d. EpochHeard = /\ ~alive => inbox = <<>>
                     /\ alive /\ (sub \/ Asked) => stream.epoch = epoch
    BY DEF EpochHeard
  <1>e. EpochHeard' = /\ ~alive' => inbox' = <<>>
                      /\ alive' /\ (sub' \/ Asked') => stream'.epoch = epoch'
    BY DEF EpochHeard
  <1>f. inbox' = inbox => Asked' = Asked
    OBVIOUS
  <1> HIDE DEF Asked
  <1>1. ASSUME NEW w \in Workers, (\E k \in Keys : WorkerCommit(w, k)) \/ WorkerReread(w) \/ WorkerEmit(w)
        PROVE  EpochHeard'
    <2>1. UNCHANGED <<inbox, alive, sub, stream, epoch>>
      BY <1>1 DEF WorkerCommit, WorkerReread, WorkerEmit, coreVars, shellVars
    <2> QED BY <1>d, <1>e, <1>f, <2>1
  <1>2. CASE RecvSubscribe \/ RecvUnsubscribe \/ RecvResync \/ RecvRequest
    <2>1. \E m : Receive(m) /\ (sub' => sub \/ m = "subscribe")
      BY <1>2 DEF RecvSubscribe, RecvUnsubscribe, RecvResync, RecvRequest
    <2>2. UNCHANGED <<alive, stream, epoch>>
      BY <1>2 DEF RecvSubscribe, RecvUnsubscribe, RecvResync, RecvRequest, shellVars
    <2> QED BY <1>b, <1>d, <1>e, <2>1, <2>2
  <1>3. CASE Respond \/ ReadSnapshot \/ SupplySnapshot \/ FlushQueue
    <2>1. UNCHANGED <<inbox, alive, sub, stream, epoch>>
      BY <1>3 DEF Respond, ReadSnapshot, SupplySnapshot, FlushQueue, shellVars
    <2> QED BY <1>d, <1>e, <1>f, <2>1
  <1>4. CASE ShellReady
    <2>1. UNCHANGED <<alive, sub, epoch>>
          /\ \/ stream' = NewStreamState(epoch) /\ inbox' = Send(ResubscribeFrames)
             \/ UNCHANGED <<stream, inbox>>
      BY <1>4 DEF ShellReady, coreVars
    <2>2. CASE UNCHANGED <<stream, inbox>>
      BY <1>d, <1>e, <1>f, <2>1, <2>2
    <2>3. CASE stream' = NewStreamState(epoch) /\ inbox' = Send(ResubscribeFrames)
      BY <1>d, <1>e, <2>1, <2>3 DEF NewStreamState, Send
    <2> QED BY <2>1, <2>2, <2>3
  <1>5. ASSUME NEW e \in Epochs, ShellReceive(e) PROVE EpochHeard'
    <2>1. UNCHANGED <<alive, sub, epoch>>
      BY <1>5 DEF ShellReceive, coreVars
    <2>2. stream'.epoch = stream.epoch
      BY <1>5 DEF ShellReceive, Route, TypeOK
    <2>3. inbox' = inbox \/ (alive /\ inbox' = inbox \o <<"resync">>)
      BY <1>5 DEF ShellReceive, Route, Send
    <2>4. (~alive => inbox' = inbox) /\ (Asked' => Asked)
      BY <1>c, <1>f, <2>3
    <2> QED BY <1>d, <1>e, <2>1, <2>2, <2>4
  <1>6. CASE Subscribe
    BY <1>6, <1>d, <1>e DEF Subscribe, NewStreamState, Send, coreVars
  <1>7. CASE Unsubscribe
    <2>1. UNCHANGED <<alive, sub, epoch, stream>> /\ inbox' = Send(<<"unsubscribe">>)
      BY <1>7 DEF Unsubscribe, coreVars
    <2>2. (~alive => inbox' = inbox) /\ (Asked' => Asked)
      BY <1>c, <1>f, <2>1 DEF Send
    <2> QED BY <1>d, <1>e, <2>1, <2>2
  <1>8. CASE Request
    <2>1. UNCHANGED <<alive, sub, epoch, stream>> /\ inbox' = Append(inbox, "request") /\ alive
      BY <1>8 DEF Request, coreVars, shellVars
    <2> QED BY <1>c, <1>d, <1>e, <2>1
  <1>9. CASE Crash
    BY <1>9, <1>e DEF Crash
  <1>10. CASE Launch
    <2>1. inbox' = <<>> /\ ~sub' /\ alive'
      BY <1>10 DEF Launch, EpochHeard, EpochsFit, coreVars
    <2>2. ~Asked'
      BY <2>1 DEF Asked
    <2> QED BY <1>e, <2>1, <2>2
  <1>11. CASE UNCHANGED vars
    BY <1>11, <1>d, <1>e, <1>f DEF vars, coreVars, shellVars
  <1> QED BY <1>1, <1>2, <1>3, <1>4, <1>5, <1>6, <1>7, <1>8, <1>9, <1>10, <1>11 DEF Next, Loop, Shell

(* A step of the core is one of the feed's, or none.                       *)
LEMMA CoreConveys ==
  ASSUME TypeOK, EndIsTold,
         Loop \/ \E w \in Workers : (\E k \in Keys : WorkerCommit(w, k)) \/ WorkerReread(w) \/ WorkerEmit(w)
  PROVE  Conveys
  <1>a. inbox \in Seq(Message) /\ pipe[epoch] \in Seq(Frames) /\ epoch \in Epochs /\ pipe \in [Epochs -> Seq(Frames)]
    BY DEF TypeOK, Frames
  <1>b. ASSUME NEW m, Receive(m)
        PROVE  /\ loop.at = "recv"
               /\ m \in {"subscribe", "unsubscribe"} => ~Established
               /\ (\A i \in DOMAIN inbox : inbox[i] \notin {"subscribe", "unsubscribe"}) <=>
                    m \notin {"subscribe", "unsubscribe"}
                      /\ \A i \in DOMAIN inbox' : inbox'[i] \notin {"subscribe", "unsubscribe"}
    <2>1. inbox # <<>> /\ inbox' = Tail(inbox) /\ Head(inbox) = m /\ loop.at = "recv"
      BY <1>b DEF Receive
    <2>2. Len(inbox) \in Nat \ {0} /\ DOMAIN inbox = 1..Len(inbox) /\ inbox[1] = m
      BY <1>a, <2>1
    <2>3. DOMAIN inbox' = 1..(Len(inbox) - 1) /\ \A i \in 1..(Len(inbox) - 1) : inbox'[i] = inbox[i + 1]
      BY <1>a, <2>1
    <2>4. \A i \in 2..Len(inbox) : i - 1 \in 1..(Len(inbox) - 1) /\ inbox[i] = inbox'[i - 1]
      BY <2>2, <2>3
    <2> DEFINE X == {"subscribe", "unsubscribe"}
    <2>5. ASSUME \A i \in DOMAIN inbox : inbox[i] \notin X
          PROVE  m \notin X /\ \A i \in DOMAIN inbox' : inbox'[i] \notin X
      <3>1. 1 \in DOMAIN inbox /\ \A i \in 1..(Len(inbox) - 1) : i + 1 \in DOMAIN inbox
        BY <2>2
      <3> HIDE DEF X
      <3> QED BY <2>2, <2>3, <2>5, <3>1
    <2>6. ASSUME m \notin X, \A i \in DOMAIN inbox' : inbox'[i] \notin X, NEW i \in DOMAIN inbox
          PROVE  inbox[i] \notin X
      <3>1. i = 1 \/ i \in 2..Len(inbox)
        BY <2>2
      <3> HIDE DEF X
      <3> QED BY <2>2, <2>3, <2>4, <2>6, <3>1
    <2>7. m \in X => ~Established
      BY <2>5 DEF Established
    <2> QED BY <2>1, <2>5, <2>6, <2>7
  <1>1. ASSUME NEW w \in Workers, (\E k \in Keys : WorkerCommit(w, k)) \/ WorkerReread(w) \/ WorkerEmit(w)
        PROVE  Conveys
    <2>1. Established' = Established
      BY <1>1 DEF WorkerCommit, WorkerReread, WorkerEmit, Established, coreVars, shellVars
    <2>2. CASE (\E k \in Keys : WorkerCommit(w, k)) \/ WorkerReread(w)
      BY <2>1, <2>2, ConveysKept DEF WorkerCommit, WorkerReread, coreVars, shellVars
    <2>3. CASE WorkerEmit(w)
      <3>1. worker[w] \in [at : {"emit"}, key : Keys, ver : Versions]
        BY <2>3 DEF WorkerEmit, TypeOK, Idle
      <3> QED BY <2>1, <2>3, <3>1, ConveysEmit DEF WorkerEmit, shellVars
    <2> QED BY <1>1, <2>2, <2>3
  <1>2. CASE RecvSubscribe
    <2>1. loop' = ReadNext(1, "recv")
      BY <1>2 DEF RecvSubscribe
    <2> QED BY <2>1, ConveysOff DEF ReadNext, Established
  <1>3. CASE RecvUnsubscribe
    BY <1>3, ConveysOff DEF RecvUnsubscribe, Established
  <1>4. CASE RecvResync
    <2>1. ~Established'
      <3>1. CASE sub
        BY <1>4, <3>1 DEF RecvResync, ReadNext, Established
      <3>2. CASE ~sub
        BY <1>4, <3>2 DEF RecvResync, Established
      <3> QED BY <3>1, <3>2
    <2> QED BY <2>1, ConveysOff
  <1>5. CASE RecvRequest
    <2>1. Receive("request") /\ loop' = [Recv EXCEPT !.at = "respond"]
          /\ UNCHANGED <<sub, alive, epoch, handler, stream, view>>
      BY <1>5 DEF RecvRequest, shellVars
    <2>2. loop'.at = "respond" /\ loop.at = "recv"
      BY <1>b, <2>1 DEF Recv
    <2>3. Established' = Established
      BY <1>b, <2>1, <2>2 DEF Established
    <2>4. ASSUME NEW k \in Keys, db[k] < MaxVersion, Emit(k, db[k] + 1) PROVE Conveys
      <3>1. db[k] + 1 \in Versions
        BY <2>4, NextVersion DEF TypeOK
      <3> QED BY <2>1, <2>3, <2>4, <3>1, ConveysEmit
    <2>5. CASE UNCHANGED <<db, nextSeq, pending, wants, pipe, announced>>
      BY <2>1, <2>3, <2>5, ConveysKept
    <2> QED BY <1>5, <2>4, <2>5 DEF RecvRequest
  <1>6. CASE Respond
    <2>1. loop.at = "respond" /\ (loop'.at = "flush" \/ loop'.last = "flush")
      BY <1>6 DEF Respond, Recv, ReadNext
    <2>2. UNCHANGED <<sub, alive, epoch, handler, stream, view, inbox, pending, nextSeq, announced>>
      BY <1>6 DEF Respond, shellVars
    <2>3. Established' = Established
      BY <2>1, <2>2 DEF Established
    <2>4. Response \in Frames /\ <<Response>> \in Seq(Frames)
      BY DEF Frames
    <2>5. pipe'[epoch] = pipe[epoch] \o <<Response>>
      BY <1>6, <1>a, <2>4, AppendIsConcat DEF Respond
    <2>6. Unread' = (pipe[epoch] \o <<Response>>) \o pending
      BY <2>2, <2>5 DEF Unread
    <2>7. Folded(Shown, pipe[epoch] \o <<Response>>) = Folded(Shown, pipe[epoch])
      <3> DEFINE a == Folded(Shown, pipe[epoch])
      <3>1. Folded(Shown, pipe[epoch] \o <<Response>>) = Fold(a, Response)
        BY <2>4, ShownTypes, FoldedConcat, FoldedOne, ZenonT(60)
      <3>2. a \in Accs
        BY ShownTypes, FoldingFrom
      <3> HIDE DEF a
      <3>3. Fold(a, Response) = a
        BY <2>4, <3>2, FoldIs DEF Taken
      <3> QED BY <3>1, <3>3 DEF a
    <2>8. pipe[epoch] \o <<Response>> \in Seq(Frames)
      BY <2>4, <1>a, ConcatProperties
    <2>9. Folded(Shown, Unread') = Folded(Shown, Unread)
      <3>1. Folded(Shown, Unread') = Folded(Folded(Shown, pipe[epoch] \o <<Response>>), pending)
        BY <2>6, <2>8, ShownTypes, FoldedConcat
      <3>2. Folded(Shown, Unread) = Folded(Folded(Shown, pipe[epoch]), pending)
        BY ShownTypes, FoldedConcat DEF Unread
      <3> QED BY <2>7, <3>1, <3>2
    <2>10. Shown' = Shown
      BY <2>2 DEF Shown
    <2> QED BY <2>2, <2>3, <2>9, <2>10, ConveysSame
  <1>7. CASE ReadSnapshot
    <2>1. loop.at = "read" /\ loop' = [loop EXCEPT !.at = "supply", !.data = db] /\ loop \in LoopType
      BY <1>7 DEF ReadSnapshot, TypeOK, LoopType
    <2>2. loop'.at = "supply" /\ loop'.last = loop.last
      BY <2>1 DEF LoopType
    <2>3. UNCHANGED <<sub, alive, epoch, handler, stream, view, inbox, pending, nextSeq, announced, pipe>>
      BY <1>7 DEF ReadSnapshot, shellVars
    <2>4. Established' = Established
      BY <2>1, <2>2, <2>3 DEF Established
    <2> QED BY <2>3, <2>4, ConveysKept
  <1>8. CASE SupplySnapshot
    BY <1>8, ConveysSupply
  <1>9. CASE FlushQueue
    <2>1. Settle(pending) /\ pending \in Seq(Frame) /\ loop.at \in {"flush", "recv"} /\ loop'.at = "recv"
          /\ UNCHANGED <<sub, alive, epoch, handler, stream, view, inbox, nextSeq, announced>>
      BY <1>9 DEF FlushQueue, FlushDue, Recv, TypeOK, shellVars
    <2>2. Unread' = Unread
      BY <2>1, SettleUnread DEF Unread
    <2>3. Established' = Established
      BY <2>1 DEF Established
    <2>4. Shown' = Shown
      BY <2>1 DEF Shown
    <2> QED BY <2>1, <2>2, <2>3, <2>4, ConveysSame
  <1> QED BY <1>1, <1>2, <1>3, <1>4, <1>5, <1>6, <1>7, <1>8, <1>9 DEF Loop

(* A step of any process is one of the feed's, or none.                    *)
LEMMA ConveysStep ==
  ASSUME TypeOK, EpochsFit, EpochHeard, EndIsTold, [Next]_vars
  PROVE  Conveys
  <1>a. inbox \in Seq(Message)
    BY DEF TypeOK
  <1>1. CASE ShellReady
    <2>1. CASE handler /\ alive
      <3>1. inbox' = inbox \o <<"subscribe", "resync">>
        BY <1>1, <2>1 DEF ShellReady, Send, ResubscribeFrames
      <3>2. Len(inbox) \in Nat /\ Len(inbox) + 1 \in DOMAIN inbox' /\ inbox'[Len(inbox) + 1] = "subscribe"
        BY <1>a, <3>1
      <3> QED BY <3>2, ConveysOff DEF Established
    <2>2. CASE ~(handler /\ alive)
      BY <1>1, <2>2, ConveysOff DEF ShellReady, Established
    <2> QED BY <2>1, <2>2
  <1>2. ASSUME NEW e \in Epochs, ShellReceive(e) PROVE Conveys
    BY <1>2, ConveysReceive
  <1>3. CASE Subscribe
    <2>1. CASE alive
      <3>1. inbox' = inbox \o <<"subscribe">>
        BY <1>3, <2>1 DEF Subscribe, Send
      <3>2. Len(inbox) \in Nat /\ Len(inbox) + 1 \in DOMAIN inbox' /\ inbox'[Len(inbox) + 1] = "subscribe"
        BY <1>a, <3>1
      <3> QED BY <3>2, ConveysOff DEF Established
    <2>2. CASE ~alive
      BY <1>3, <2>2, ConveysOff DEF Subscribe, Established
    <2> QED BY <2>1, <2>2
  <1>4. CASE Unsubscribe
    BY <1>4, ConveysOff DEF Unsubscribe, Established
  <1>5. CASE Request
    <2>1. inbox' = Append(inbox, "request")
          /\ UNCHANGED <<sub, alive, epoch, handler, stream, view, loop, pending, nextSeq, announced, pipe>>
      BY <1>5 DEF Request, coreVars, shellVars
    <2>2. /\ DOMAIN inbox' = 1..(Len(inbox) + 1) /\ DOMAIN inbox = 1..Len(inbox) /\ Len(inbox) \in Nat
          /\ inbox'[Len(inbox) + 1] = "request" /\ \A i \in 1..Len(inbox) : inbox'[i] = inbox[i]
      BY <1>a, <2>1
    <2>3. Established' = Established
      BY <2>1, <2>2 DEF Established
    <2> QED BY <2>1, <2>3, ConveysKept
  <1>6. CASE Crash
    BY <1>6, ConveysOff DEF Crash, Established
  <1>7. CASE Launch
    BY <1>7, ConveysOff DEF Launch, EpochsFit, coreVars, Established
  <1>8. CASE UNCHANGED vars
    BY <1>8, ConveysKept DEF vars, coreVars, shellVars, Established
  <1> QED BY <1>1, <1>2, <1>3, <1>4, <1>5, <1>6, <1>7, <1>8, CoreConveys DEF Next, Shell

(* Nobody has subscribed, and nothing is coming.                           *)
LEMMA InitConveys == ASSUME Init PROVE EpochHeard /\ EndIsTold /\ Feed!Init
  <1>1. ~Established /\ ~sub /\ inbox = <<>> /\ alive
    BY DEF Init, Established
  <1>2. announced \in Rows /\ view \in Rows
    BY LoopPlaces DEF Init
  <1> QED BY <1>1, <1>2 DEF EpochHeard, EndIsTold, Feed!Init

(* pubsub.rs and stream.ts implement TopicFeed: for any rows, workers,     *)
(* bounds of queue and writer, while a subscription is established the     *)
(* shell is shown what was announced, in its order, through overflow,      *)
(* snapshots, resyncs and frames of earlier subscriptions and dead cores,  *)
(* and what is on its way ends with the last of it.                        *)
THEOREM SpecImplementsFeed == Spec => ImplementsFeed
  <1>1. EpochsFit /\ EpochHeard /\ TypeOK /\ [Next]_vars => EpochHeard'
    BY HeardStep
  <1>2. TypeOK /\ EpochsFit /\ EpochHeard /\ EndIsTold /\ [Next]_vars => EndIsTold' /\ [Feed!Next]_(Feed!vars)
    BY ConveysStep DEF Conveys
  <1>3. Init => EpochHeard /\ EndIsTold /\ Feed!Init
    BY InitConveys
  <1> QED BY <1>1, <1>2, <1>3, SpecTypeOK, PTL DEF Spec, ImplementsFeed, Feed!Spec
====
