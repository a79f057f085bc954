---------------------- MODULE SessionLedger_proofs ----------------------
(***************************************************************************)
(* Proofs about SessionLedger, for any projects, sessions, idle times,     *)
(* budgets and jumps of the clocks.                                        *)
(*                                                                         *)
(* That a closed session's credit is the sum over its segments, and that   *)
(* the seconds paid for a day are the union of the counted segments on it, *)
(* hold of the rows by themselves: each write is shown to keep the books   *)
(* balanced (Balanced), the recovery by induction over the segments of a   *)
(* session and over the sessions.  What a handler needs for that is a      *)
(* segment of its own to write, still open (Follows).  The sums are folds, *)
(* and SumMore says what a summand more does to one.                       *)
(*                                                                         *)
(* That a tick hears of the edits under a watched root needs WatchInv: the *)
(* root of a session that lost no watch to another's end is in the channel *)
(* wherever the session counts as edited, behind as many errors.           *)
(*                                                                         *)
(* What credit is worth is a matter of time (TimeInv): how far behind the  *)
(* clocks a machine, the last tick, a claim and an edit not yet heard may  *)
(* be, so that each second a row counts, and the end it states, has its    *)
(* input.  It holds until a clock jumps, a transaction is refused or the   *)
(* watcher errs, and of every session on its own, however many run on one  *)
(* project.                                                                *)
(***************************************************************************)
EXTENDS SessionLedger, FiniteSetTheorems, SequenceTheorems, WellFoundedInduction, TLAPS

-----------------------------------------------------------------------------
(* What the variables hold.                                                *)

Days     == 0 .. DayOf(2 * MaxTime + Epoch)
Reasons  == {"stop", "idle", "process_exit", "app_exit", "orphaned"}
Bys      == {"open", "idle", "session_end", "app_exit", "crash"}
Opened   == [state : {"open"}, project : Projects, started : Nat]
Closed   == [state : {"closed"}, project : Projects, started : Nat, ended : Nat,
             reason : Reasons, credit : Nat]
Rows     == {NoSession} \cup Opened \cup Closed
Segment  == [session : Sessions, started : Nat, ended : Nat, credit : Nat, by : Bys,
             signalled : BOOLEAN]
Books    == [sess : [Sessions -> Rows], segs : Seq(Segment),
             paid : [Projects -> [Days -> Nat]]]
Running  == [on : {TRUE}, project : Projects, segment : Nat, machine : Machines,
             launched : Nat, wait : BOOLEAN, waiter : {"none", "running", "finished"}]
Lives    == {NotLive} \cup Running
Perhaps(S) == {None} \cup {Some(x) : x \in S}
Channel(S) == Seq(SUBSET S) \ {<<>>}
Watches  == [roots : [Sessions -> Perhaps(Projects)], os : SUBSET Projects,
             rx : Channel(Projects), outlived : SUBSET Sessions]
Passes   == [at : {"idle", "observe", "reap", "shutdown"}, todo : SUBSET Sessions,
             signals : SUBSET Sessions]
Moments  == [mono : Nat, wall : Nat, ticked : Perhaps(Nat)]
Claims   == [project : Projects, at : Nat]
Faults   == [jumps : Nat, crashes : Nat, refusals : Nat, deaf : Nat, errors : Nat,
             met : BOOLEAN, launches : Nat, waits : SUBSET BOOLEAN, of : SUBSET Projects,
             inputs : Nat, until : 0 .. MaxTime]

Typed ==
  /\ db \in Books
  /\ live \in [Sessions -> Lives]
  /\ watch \in Watches
  /\ focus \in Perhaps(Claims)
  /\ loop \in Passes
  /\ clock \in Moments
  /\ up \in BOOLEAN
  /\ edited \in Channel(Sessions)
  /\ evidence \in [Sessions -> SUBSET Int]
  /\ faults \in Faults

-----------------------------------------------------------------------------
(* The rows by themselves, in every state and whatever was refused.        *)

(* A session that was opened has a segment, and only such a one has.       *)
HasSegments(d) ==
  /\ \A s \in Sessions : d.sess[s].state # "none" => SegmentsOf(d, s) # {}
  /\ \A g \in DOMAIN d.segs : d.sess[d.segs[g].session].state # "none"

SumsHold(d) ==
  \A s \in Sessions :
    d.sess[s].state = "closed" =>
      d.sess[s].credit = CreditedSeconds(d, s) /\ d.sess[s].ended >= d.sess[s].started

PaidOn(d, day) == SumOf([p \in Projects |-> d.paid[p][day]])
CoveredOn(d, day) == {t \in Union(d, CountedClosed(d)) : DayOf(t) = day}
PaidIsTheUnion(d) == \A day \in Days : PaidOn(d, day) = Cardinality(CoveredOn(d, day))

Balanced(d) ==
  d \in Books /\ HasSegments(d) /\ SumsHold(d) /\ PaidIsTheUnion(d)

(* A live session is open in the rows, and the segment it writes is its own and open. *)
Follows(s) ==
  live[s].on =>
    /\ db.sess[s].state = "open" /\ db.sess[s].project = live[s].project
    /\ LET g == live[s].segment IN
       g # 0 => /\ g \in DOMAIN db.segs
                /\ db.segs[g].session = s /\ db.segs[g].by = "open"

Standing ==
  /\ loop.todo \subseteq LiveSessions /\ (loop.at = "idle" => loop.todo = {})
  /\ ~up => LiveSessions = {} /\ loop = Idle
  /\ LiveSessions = {} \/ up

LedgerInv == Typed /\ Balanced(db) /\ (\A s \in Sessions : Follows(s)) /\ Standing

-----------------------------------------------------------------------------
(* The watch.                                                              *)
Watched(s) ==
  watch.roots[s] # None =>
    /\ live[s].on /\ watch.roots[s] = Some(live[s].project)
    /\ s \notin watch.outlived =>
         /\ live[s].project \in watch.os
         /\ \A i \in 1 .. Len(edited) : s \in edited[i] => live[s].project \in watch.rx[i]
WatchInv ==
  /\ \A s \in Sessions : Watched(s)
  /\ Len(edited) = Len(watch.rx) /\ (~faults.met => Len(edited) = 1)
  /\ \A i \in 1 .. Len(edited) : \A s \in edited[i] : db.sess[s].state # "none"

-----------------------------------------------------------------------------
(* Time, as long as no clock jumped and no transaction was refused.        *)
LastTick == IF clock.ticked = None THEN clock.mono ELSE clock.ticked[1]
(* When the next tick comes at the latest.                                 *)
NextTick == IF clock.ticked = None THEN clock.mono ELSE clock.ticked[1] + TickPeriod
(* The wall clock at t on the monotonic one.                               *)
At(t) == t + Epoch
(* How long a segment may last that gets no more input.                    *)
Lasting == SegmentIdle + TickPeriod - 1

OnTime ==
  /\ clock.wall = At(clock.mono)
  /\ LastTick <= clock.mono
  /\ up => clock.mono <= NextTick
  /\ ~up => clock.ticked = None
  /\ loop.at \in {"observe", "reap"} => clock.ticked = Some(clock.mono)
  /\ focus # None => focus[1].at <= clock.mono /\ focus[1].at <= faults.inputs

(* The machine m of a session with evidence E and the row r it writes, at  *)
(* now, where the last input is at lastInput.                              *)
InFits(m, r, E, now, lastInput) ==
  /\ m.at = At(m.mono) /\ m.started <= m.at
  /\ m.mono <= now /\ now <= m.mono + Lasting
  /\ m.mono <= lastInput + FocusStale - 1
  /\ r.started = m.started /\ r.credit = m.at - m.started
  /\ m.started .. m.at + Lasting - 1 \subseteq E
BetweenFits(m, E, lastInput) ==
  /\ m.at = At(m.mono)
  /\ m.mono <= lastInput + FocusStale - 1 + SegmentIdle
  /\ \E t \in E : m.at <= t + 1
(* It has seen the tick at last, and needed no idle close.                 *)
InTime(m, wait, last) ==
  /\ m.phase = "in" => last < m.mono + SegmentIdle
  /\ m.phase = "between" /\ ~wait => last < m.mono + SessionIdle
(* A signal heard at now.                                                  *)
SignalFits(E, now, lastInput) ==
  /\ now <= lastInput + FocusStale - 1
  /\ At(now) .. At(now) + Lasting - 1 \subseteq E

Observing(s) == loop.at = "observe" /\ s \in loop.todo
MachineFits(m, g, d, E, now, lastInput) ==
  /\ m.phase # "ended"
  /\ m.phase = "in" => g # 0 /\ InFits(m, d.segs[g], E, now, lastInput)
  /\ m.phase = "between" => g = 0 /\ BetweenFits(m, E, lastInput)
MachineOf(s) ==
  live[s].on =>
    /\ MachineFits(live[s].machine, live[s].segment, db, evidence[s], clock.mono, faults.inputs)
    /\ ~Observing(s) => InTime(live[s].machine, live[s].wait, LastTick)

(* An edit in the watcher, a fresh claim and a signal of this pass have their evidence. *)
EditEvidenced(s) ==
  watch.roots[s] # None =>
    /\ live[s].on /\ watch.roots[s] = Some(live[s].project)
    /\ live[s].project \in watch.rx[1] =>
         /\ NextTick <= faults.inputs + TickPeriod
         /\ At(clock.mono) .. At(NextTick) + Lasting - 1 \subseteq evidence[s]
ClaimEvidenced(s) ==
  live[s].on /\ focus # None =>
    (focus[1].project = live[s].project /\ focus[1].at >= live[s].launched =>
      Touch(At(focus[1].at)) \subseteq evidence[s])
SignalEvidenced(s) ==
  Observing(s) /\ s \in loop.signals => SignalFits(evidence[s], clock.mono, faults.inputs)

(* The rows of s are accounted for by E.                                   *)
SegmentsIn(d, s, E) ==
  \A g \in DOMAIN d.segs :
    d.segs[g].session = s => d.segs[g].started \in E /\ Seconds(d.segs[g]) \subseteq E
SessionIn(d, s, E) ==
  /\ d.sess[s].state # "none" => d.sess[s].started \in E
  /\ d.sess[s].state = "closed" /\ d.sess[s].reason \in {"idle", "orphaned"} =>
       \E t \in E : d.sess[s].ended <= t + 1
Accounted(d, s, E) == SegmentsIn(d, s, E) /\ SessionIn(d, s, E)

(* An open segment has no end of its own, another ends where its credit does. *)
EndsWithCredit(d) ==
  \A g \in DOMAIN d.segs :
    d.segs[g].ended = d.segs[g].started
                        + IF d.segs[g].by = "open" THEN 0 ELSE d.segs[g].credit

Timely(s) ==
  /\ up /\ db.sess[s].state = "open" => live[s].on
  /\ MachineOf(s) /\ EditEvidenced(s) /\ ClaimEvidenced(s) /\ SignalEvidenced(s)
  /\ Accounted(db, s, evidence[s])
TimeInv ==
  ~faults.met => OnTime /\ EndsWithCredit(db) /\ \A s \in Sessions : Timely(s)

-----------------------------------------------------------------------------
(* Optional values.                                                        *)

(* An option that holds a value is not the empty one, and gives it back.   *)
LEMMA Options ==
  /\ \A x : Some(x) # None /\ Some(x)[1] = x
  /\ \A x, y : Some(x) = Some(y) => x = y
  BY DEF Some, None

(* An option of S that is not empty holds a member of S.                   *)
LEMMA PerhapsIs ==
  ASSUME NEW S, NEW x \in Perhaps(S), x # None
  PROVE  x[1] \in S /\ x = Some(x[1])
  BY Options DEF Perhaps

(* Both kinds of option are options.                                       *)
LEMMA SomeIn ==
  /\ \A S : None \in Perhaps(S)
  /\ \A S : \A x \in S : Some(x) \in Perhaps(S)
  BY DEF Perhaps

(* The batches of a channel.                                               *)
LEMMA ChannelIs ==
  ASSUME NEW S, NEW q \in Channel(S)
  PROVE  /\ q \in Seq(SUBSET S) /\ Len(q) \in Nat /\ Len(q) > 0 /\ DOMAIN q = 1 .. Len(q)
         /\ \A i \in 1 .. Len(q) : q[i] \in SUBSET S
  BY EmptySeq DEF Channel

(* One with nothing in it.                                                 *)
LEMMA QuietlyIs ==
  ASSUME NEW S
  PROVE  Quietly \in Channel(S) /\ Len(Quietly) = 1 /\ Quietly[1] = {}
  BY DEF Channel, Quietly

(* A drain takes the first batch.                                          *)
LEMMA DrainedIs ==
  ASSUME NEW S, NEW q \in Channel(S)
  PROVE  /\ Drained(q) \in Channel(S)
         /\ Len(q) = 1 => Drained(q) = Quietly
         /\ Len(q) # 1 => /\ Len(Drained(q)) = Len(q) - 1
                          /\ \A i \in 1 .. Len(q) - 1 : Drained(q)[i] = q[i + 1]
  <1>1. q \in Seq(SUBSET S) /\ Len(q) \in Nat /\ Len(q) > 0
    BY ChannelIs
  <1>2. CASE Len(q) = 1
    BY <1>2, QuietlyIs DEF Drained
  <1>3. CASE Len(q) # 1
    <2>1. Drained(q) = Tail(q) /\ q # <<>>
      BY <1>3 DEF Drained, Channel
    <2>2. /\ Tail(q) \in Seq(SUBSET S) /\ Len(Tail(q)) = Len(q) - 1
          /\ \A i \in 1 .. Len(Tail(q)) : Tail(q)[i] = q[i + 1]
      BY <1>1, <2>1, HeadTailProperties
    <2>3. Len(Tail(q)) # 0 /\ Len(<<>>) = 0
      BY <1>1, <1>3, <2>2
    <2>4. Tail(q) # <<>>
      BY <2>3
    <2> QED BY <1>3, <2>1, <2>2, <2>4 DEF Channel
  <1> QED BY <1>2, <1>3

(* What comes in goes to the last one.                                     *)
LEMMA WithLastIs ==
  ASSUME NEW S, NEW q \in Channel(S), NEW T \in SUBSET S
  PROVE  /\ WithLast(q, T) \in Channel(S) /\ Len(WithLast(q, T)) = Len(q)
         /\ WithLast(q, T)[Len(q)] = q[Len(q)] \cup T
         /\ \A i \in 1 .. Len(q) : i # Len(q) => WithLast(q, T)[i] = q[i]
  <1>1. /\ q \in Seq(SUBSET S) /\ Len(q) \in Nat /\ Len(q) > 0 /\ DOMAIN q = 1 .. Len(q)
        /\ \A i \in 1 .. Len(q) : q[i] \in SUBSET S
    BY ChannelIs
  <1>2. PICK n : n = Len(q)
    OBVIOUS
  <1>3. n \in 1 .. Len(q)
    BY <1>1, <1>2
  <1>4. PICK b : b = q[n] \cup T
    OBVIOUS
  <1>5. b \in SUBSET S
    BY <1>1, <1>3, <1>4
  <1>6. WithLast(q, T) = [q EXCEPT ![n] = b]
    BY <1>2, <1>4 DEF WithLast
  <1>7. PICK r : r = [q EXCEPT ![n] = b]
    OBVIOUS
  <1>8. r \in Seq(SUBSET S) /\ Len(r) = Len(q) /\ r[n] = b /\ \A i \in 1 .. Len(q) : i # n => r[i] = q[i]
    BY <1>1, <1>3, <1>5, <1>7, ExceptSeq
  <1>9. r # <<>>
    BY <1>1, <1>8, EmptySeq
  <1> QED BY <1>2, <1>4, <1>6, <1>7, <1>8, <1>9 DEF Channel

(* An error begins a batch.                                                *)
LEMMA ErrorIs ==
  ASSUME NEW S, NEW q \in Channel(S)
  PROVE  /\ Append(q, {}) \in Channel(S) /\ Len(Append(q, {})) = Len(q) + 1
         /\ Append(q, {})[Len(q) + 1] = {}
         /\ \A i \in 1 .. Len(q) : Append(q, {})[i] = q[i]
  <1>1. q \in Seq(SUBSET S) /\ {} \in SUBSET S /\ Len(q) \in Nat
    BY ChannelIs
  <1>2. /\ Append(q, {}) \in Seq(SUBSET S) /\ Append(q, {}) # <<>>
        /\ Len(Append(q, {})) = Len(q) + 1 /\ Append(q, {})[Len(q) + 1] = {}
        /\ \A i \in 1 .. Len(q) : Append(q, {})[i] = q[i]
    <2>1. PICK T : T = SUBSET S
      OBVIOUS
    <2>2. q \in Seq(T) /\ {} \in T
      BY <1>1, <2>1
    <2>3. PICK e \in T : e = {}
      BY <2>2
    <2>4. /\ Append(q, e) \in Seq(T) /\ Append(q, e) # <<>>
          /\ Len(Append(q, e)) = Len(q) + 1 /\ Append(q, e)[Len(q) + 1] = e
          /\ \A i \in 1 .. Len(q) : Append(q, e)[i] = q[i]
      <3> QED BY <2>2, AppendProperties
    <2> QED BY <2>1, <2>3, <2>4
  <1> QED BY <1>2 DEF Channel

-----------------------------------------------------------------------------
(* Induction: a set of naturals with 0 and every successor has them all.   *)

(* A set of naturals that is not empty has a least member.                 *)
LEMMA NatMin ==
  ASSUME NEW T, T \subseteq Nat, T # {}
  PROVE  \E x \in T : \A y \in T : x <= y
  <1> DEFINE R == OpToRel(<, Nat)
  <1>1. IsWellFoundedOn(R, Nat)
    BY NatLessThanWellFounded, Zenon
  <1>2. ASSUME NEW x \in Nat, NEW y \in Nat, <<y, x>> \notin R
        PROVE  x <= y
    BY <1>2 DEF OpToRel
  <1> HIDE DEF R
  <1>3. PICK x \in T : \A y \in T : ~(<<y, x>> \in R)
    BY <1>1, WFMin, Zenon
  <1>4. ASSUME NEW y \in T PROVE x <= y
    BY <1>2, <1>3, Zenon
  <1> QED BY <1>4, Zenon

(* Induction over the naturals, for a set: its least absentee has no predecessor. *)
LEMMA AllNumbers ==
  ASSUME NEW S, 0 \in S, \A n \in Nat : n \in S => n + 1 \in S
  PROVE  Nat \subseteq S
  <1> SUFFICES ASSUME Nat \ S # {} PROVE FALSE
    OBVIOUS
  <1>1. PICK x \in Nat \ S : \A y \in Nat \ S : x <= y
    BY NatMin
  <1>2. x # 0 /\ x - 1 \in Nat /\ x - 1 \in S
    BY <1>1
  <1> QED BY <1>1, <1>2

-----------------------------------------------------------------------------
(* Sums.                                                                   *)

(* it adds up what f gives the members of each part of its domain.         *)
Adds(f, it) ==
  it = [A \in SUBSET DOMAIN f |->
          IF A = {} THEN 0 ELSE LET x == CHOOSE x \in A : TRUE IN f[x] + it[A \ {x}]]
Adding(f) == CHOOSE it : Adds(f, it)

(* SumOf is the fold that Adding unfolds.                                  *)
LEMMA SumIs ==
  ASSUME NEW f
  PROVE  SumOf(f) = Adding(f)[DOMAIN f]
  BY DEF SumOf, MapThenSumSet, MapThenFoldSet, Adding, Adds

UpTo(D, n) == {A \in SUBSET D : Cardinality(A) <= n}

(* There is such an adding for a finite domain.                            *)
LEMMA AddingExists ==
  ASSUME NEW f, IsFiniteSet(DOMAIN f)
  PROVE  Adds(f, Adding(f))
  <1> DEFINE D == DOMAIN f
             c(A) == CHOOSE x \in A : TRUE
             Ok(n, h) == h = [A \in UpTo(D, n) |-> IF A = {} THEN 0 ELSE f[c(A)] + h[A \ {c(A)}]]
             T == {n \in Nat : \E h : Ok(n, h)}
  <1>1. \A A \in SUBSET D : IsFiniteSet(A) /\ Cardinality(A) \in Nat
    BY FS_Subset, FS_CardinalityType
  <1>2. ASSUME NEW A \in SUBSET D, A # {}
        PROVE  c(A) \in A /\ A \ {c(A)} \in SUBSET D /\ Cardinality(A \ {c(A)}) = Cardinality(A) - 1
    BY <1>1, <1>2, FS_RemoveElement
  <1> HIDE DEF c
  <1>3. 0 \in T
    <2> DEFINE h == [A \in UpTo(D, 0) |-> 0]
    <2>1. \A A \in UpTo(D, 0) : A = {}
      BY <1>1, FS_EmptySet DEF UpTo
    <2>2. [A \in UpTo(D, 0) |-> IF A = {} THEN 0 ELSE f[c(A)] + h[A \ {c(A)}]] = h
      BY <2>1
    <2> HIDE DEF h
    <2> QED BY <2>2
  <1>4. ASSUME NEW n \in Nat, n \in T PROVE n + 1 \in T
    <2>1. PICK h : Ok(n, h)
      BY <1>4
    <2> DEFINE k == [A \in UpTo(D, n + 1) |-> IF A = {} THEN 0 ELSE f[c(A)] + h[A \ {c(A)}]]
    <2>2. ASSUME NEW A \in UpTo(D, n) PROVE A \in UpTo(D, n + 1) /\ h[A] = k[A]
      <3>1. A \in UpTo(D, n + 1)
        BY <1>1 DEF UpTo
      <3>2. h[A] = IF A = {} THEN 0 ELSE f[c(A)] + h[A \ {c(A)}]
        BY <2>1
      <3> QED BY <3>1, <3>2
    <2>3. ASSUME NEW A \in UpTo(D, n + 1), A # {} PROVE A \ {c(A)} \in UpTo(D, n)
      BY <1>1, <1>2, <2>3 DEF UpTo
    <2>4. k = [A \in UpTo(D, n + 1) |-> IF A = {} THEN 0 ELSE f[c(A)] + k[A \ {c(A)}]]
      <3>1. \A A \in UpTo(D, n + 1) : A # {} => h[A \ {c(A)}] = k[A \ {c(A)}]
        BY <2>2, <2>3
      <3>2. \A A \in UpTo(D, n + 1) : k[A] = IF A = {} THEN 0 ELSE f[c(A)] + k[A \ {c(A)}]
        BY <3>1
      <3>3. k = [A \in UpTo(D, n + 1) |-> k[A]]
        OBVIOUS
      <3> HIDE DEF k
      <3> QED BY <3>2, <3>3
    <2>5. Ok(n + 1, k)
      BY <2>4, Zenon
    <2> HIDE DEF k, Ok
    <2> QED BY <2>5
  <1>5. Nat \subseteq T
    <2> HIDE DEF T
    <2> QED BY <1>3, <1>4, AllNumbers
  <1>6. PICK h : Ok(Cardinality(D), h)
    BY <1>1, <1>5
  <1>7. UpTo(D, Cardinality(D)) = SUBSET D
    BY FS_Subset DEF UpTo
  <1>8. Adds(f, h)
    BY <1>6, <1>7 DEF Adds, c
  <1> QED BY <1>8 DEF Adding

(* What is taken from a part, and what the adding makes of it.             *)
Taken(A) == CHOOSE x \in A : TRUE

(* What Adding does to a set: it takes one member and adds the rest.       *)
LEMMA AddingStep ==
  ASSUME NEW D, IsFiniteSet(D), NEW f, DOMAIN f = D
  PROVE  /\ Adding(f)[{}] = 0
         /\ \A A \in SUBSET D : A # {} => Adding(f)[A] = f[Taken(A)] + Adding(f)[A \ {Taken(A)}]
  <1>1. Adds(f, Adding(f))
    BY AddingExists
  <1>2. Adding(f)[{}] = 0
    BY <1>1, Zenon DEF Adds
  <1>3. ASSUME NEW A \in SUBSET D, A # {}
        PROVE  Adding(f)[A] = f[Taken(A)] + Adding(f)[A \ {Taken(A)}]
    BY <1>1, <1>3, Zenon DEF Adds, Taken
  <1> QED BY <1>2, <1>3, Zenon

(* The member taken is one of the set, which is one smaller without it.    *)
LEMMA TakenStep ==
  ASSUME NEW D, IsFiniteSet(D), NEW A \in SUBSET D, A # {}
  PROVE  /\ Taken(A) \in A /\ A \ {Taken(A)} \in SUBSET D
         /\ Cardinality(A \ {Taken(A)}) = Cardinality(A) - 1
  <1>1. Taken(A) \in A
    BY DEF Taken
  <1> QED BY <1>1, FS_Subset, FS_RemoveElement

(* A sum of naturals is one, and is 0 when they all are.                   *)
LEMMA SumNat ==
  ASSUME NEW D, IsFiniteSet(D), NEW f \in [D -> Nat]
  PROVE  SumOf(f) \in Nat /\ ((\A x \in D : f[x] = 0) => SumOf(f) = 0)
  <1> DEFINE a == Adding(f)
             Good(A) == a[A] \in Nat /\ ((\A x \in D : f[x] = 0) => a[A] = 0)
             T == {n \in Nat : \A A \in SUBSET D : Cardinality(A) = n => Good(A)}
  <1>0. DOMAIN f = D
    OBVIOUS
  <1>1. a[{}] = 0 /\ \A A \in SUBSET D : A # {} => a[A] = f[Taken(A)] + a[A \ {Taken(A)}]
    BY <1>0, AddingStep, ZenonT(60)
  <1>2. ASSUME NEW A \in SUBSET D, A # {}
        PROVE  Taken(A) \in A /\ A \ {Taken(A)} \in SUBSET D /\ Cardinality(A \ {Taken(A)}) = Cardinality(A) - 1
               /\ a[A] = f[Taken(A)] + a[A \ {Taken(A)}]
    BY <1>1, <1>2, TakenStep
  <1> HIDE DEF a
  <1>3. \A A \in SUBSET D : IsFiniteSet(A) /\ Cardinality(A) \in Nat
    BY FS_Subset, FS_CardinalityType
  <1>4. 0 \in T
    BY <1>1, <1>3, FS_EmptySet
  <1>5. ASSUME NEW n \in Nat, n \in T PROVE n + 1 \in T
    <2> SUFFICES ASSUME NEW A \in SUBSET D, Cardinality(A) = n + 1 PROVE Good(A)
      OBVIOUS
    <2>1. A # {}
      BY FS_EmptySet
    <2>2. Cardinality(A \ {Taken(A)}) = n /\ A \ {Taken(A)} \in SUBSET D /\ Taken(A) \in D
      BY <1>2, <2>1
    <2>3. Good(A \ {Taken(A)})
      BY <1>5, <2>2
    <2> QED BY <1>2, <2>1, <2>2, <2>3
  <1>6. Nat \subseteq T
    <2> HIDE DEF T
    <2> QED BY <1>4, <1>5, AllNumbers
  <1>7. Good(D)
    BY <1>3, <1>6
  <1> QED BY <1>0, <1>7, SumIs DEF a

(* More of one is more of the sum.                                         *)
LEMMA SumMore ==
  ASSUME NEW D, IsFiniteSet(D), NEW f \in [D -> Nat], NEW g \in [D -> Nat], NEW p \in D,
         NEW n \in Nat, g[p] = f[p] + n, \A x \in D \ {p} : g[x] = f[x]
  PROVE  SumOf(g) = SumOf(f) + n
  <1> DEFINE a == Adding(f)
             b == Adding(g)
             Good(A) == a[A] \in Nat /\ b[A] \in Nat /\ b[A] = a[A] + IF p \in A THEN n ELSE 0
             T == {k \in Nat : \A A \in SUBSET D : Cardinality(A) = k => Good(A)}
  <1>0. DOMAIN f = D /\ DOMAIN g = D
    OBVIOUS
  <1>1. a[{}] = 0 /\ \A A \in SUBSET D : A # {} => a[A] = f[Taken(A)] + a[A \ {Taken(A)}]
    BY <1>0, AddingStep, ZenonT(60)
  <1>8. b[{}] = 0 /\ \A A \in SUBSET D : A # {} => b[A] = g[Taken(A)] + b[A \ {Taken(A)}]
    BY <1>0, AddingStep, ZenonT(60)
  <1>2. ASSUME NEW A \in SUBSET D, A # {}
        PROVE  Taken(A) \in A /\ A \ {Taken(A)} \in SUBSET D /\ Cardinality(A \ {Taken(A)}) = Cardinality(A) - 1
               /\ a[A] = f[Taken(A)] + a[A \ {Taken(A)}] /\ b[A] = g[Taken(A)] + b[A \ {Taken(A)}]
    <2>1. a[A] = f[Taken(A)] + a[A \ {Taken(A)}]
      BY <1>1, <1>2, Zenon
    <2>2. b[A] = g[Taken(A)] + b[A \ {Taken(A)}]
      BY <1>8, <1>2, Zenon
    <2> QED BY <1>2, <2>1, <2>2, TakenStep
  <1> HIDE DEF a, b
  <1>3. \A A \in SUBSET D : IsFiniteSet(A) /\ Cardinality(A) \in Nat
    BY FS_Subset, FS_CardinalityType
  <1>4. 0 \in T
    <2>1. Good({})
      BY <1>1, <1>8
    <2>2. \A A \in SUBSET D : Cardinality(A) = 0 => A = {}
      BY <1>3, FS_EmptySet
    <2> QED BY <2>1, <2>2
  <1>5. ASSUME NEW k \in Nat, k \in T PROVE k + 1 \in T
    <2> SUFFICES ASSUME NEW A \in SUBSET D, Cardinality(A) = k + 1 PROVE Good(A)
      OBVIOUS
    <2>1. A # {}
      <3>1. k + 1 # 0
        OBVIOUS
      <3> QED BY <3>1, FS_EmptySet
    <2>2. Cardinality(A \ {Taken(A)}) = k /\ A \ {Taken(A)} \in SUBSET D /\ Taken(A) \in D
      BY <1>2, <2>1
    <2>3. Good(A \ {Taken(A)})
      BY <1>5, <2>2
    <2>4. a[A] = f[Taken(A)] + a[A \ {Taken(A)}] /\ b[A] = g[Taken(A)] + b[A \ {Taken(A)}] /\ Taken(A) \in A
      BY <1>2, <2>1
    <2>5. f[Taken(A)] \in Nat /\ g[Taken(A)] \in Nat
      BY <2>2
    <2>6. CASE Taken(A) = p
      BY <2>3, <2>4, <2>5, <2>6
    <2>7. CASE Taken(A) # p
      <3>1. g[Taken(A)] = f[Taken(A)]
        BY <2>2, <2>7
      <3>2. p \in A \ {Taken(A)} <=> p \in A
        BY <2>7
      <3> QED BY <2>3, <2>4, <2>5, <3>1, <3>2
    <2> QED BY <2>6, <2>7
  <1>6. Nat \subseteq T
    <2> HIDE DEF T
    <2> QED BY <1>4, <1>5, AllNumbers
  <1>7. Good(D)
    BY <1>3, <1>6
  <1> QED BY <1>0, <1>7, SumIs DEF a, b

-----------------------------------------------------------------------------
(* The recovery, a segment and a session at a time.                        *)

(* The open segments of a session are closed one after the other.          *)
LEMMA SegmentsInTurn ==
  ASSUME NEW d, NEW s, Len(d.segs) \in Nat
  PROVE  \E h : /\ h[0] = d
                /\ \A i \in 1 .. Len(d.segs) :
                     h[i] = IF i \in OpenSegments(d, s) THEN CloseAtWatermark(h[i - 1], i) ELSE h[i - 1]
                /\ CloseSegments(d, s) = h[Len(d.segs)]
  <1> DEFINE Upto(k, h) == h = [i \in 0 .. k |->
                                 IF i = 0 THEN d
                                 ELSE IF i \in OpenSegments(d, s) THEN CloseAtWatermark(h[i - 1], i) ELSE h[i - 1]]
             T == {k \in Nat : \E h : Upto(k, h)}
             u == CHOOSE h : Upto(Len(d.segs), h)
  <1>1. 0 \in T
    <2> DEFINE h == [i \in 0 .. 0 |-> d]
    <2>1. \A i \in 0 .. 0 : i = 0
      OBVIOUS
    <2>2. Upto(0, h)
      BY <2>1
    <2> HIDE DEF h, Upto
    <2> QED BY <2>2
  <1>2. ASSUME NEW k \in Nat, k \in T PROVE k + 1 \in T
    <2>1. PICK h : Upto(k, h)
      BY <1>2
    <2> DEFINE j == [i \in 0 .. (k + 1) |->
                      IF i = 0 THEN d ELSE IF i \in OpenSegments(d, s) THEN CloseAtWatermark(h[i - 1], i) ELSE h[i - 1]]
    <2>2. \A i \in 0 .. k : i \in 0 .. (k + 1) /\ j[i] = h[i]
      BY <2>1
    <2>3. \A i \in 0 .. (k + 1) : i # 0 => h[i - 1] = j[i - 1]
      <3>1. \A i \in 0 .. (k + 1) : i # 0 => i - 1 \in 0 .. k
        OBVIOUS
      <3> HIDE DEF j
      <3> QED BY <2>2, <3>1
    <2>4. \A i \in 0 .. (k + 1) :
            j[i] = IF i = 0 THEN d ELSE IF i \in OpenSegments(d, s) THEN CloseAtWatermark(j[i - 1], i) ELSE j[i - 1]
      BY <2>3
    <2>5. j = [i \in 0 .. (k + 1) |-> j[i]]
      OBVIOUS
    <2> HIDE DEF j
    <2>6. Upto(k + 1, j)
      BY <2>4, <2>5
    <2> HIDE DEF Upto
    <2> QED BY <2>6
  <1>3. Nat \subseteq T
    <2> HIDE DEF T
    <2> QED BY <1>1, <1>2, AllNumbers
  <1>4. Upto(Len(d.segs), u)
    <2> HIDE DEF Upto
    <2> QED BY <1>3
  <1>5. CloseSegments(d, s) = u[Len(d.segs)]
    BY DEF CloseSegments
  <1> HIDE DEF u
  <1>6. u[0] = d
    BY <1>4
  <1>7. ASSUME NEW i \in 1 .. Len(d.segs)
        PROVE  u[i] = IF i \in OpenSegments(d, s) THEN CloseAtWatermark(u[i - 1], i) ELSE u[i - 1]
    <2>1. i \in 0 .. Len(d.segs) /\ i # 0
      OBVIOUS
    <2> QED BY <1>4, <2>1
  <1> QED BY <1>5, <1>6, <1>7

(* And so are the open sessions.                                           *)
LEMMA OrphansInTurn ==
  ASSUME NEW d, MaxSessions \in Nat
  PROVE  \E h : /\ h[0] = d
                /\ \A i \in 1 .. MaxSessions :
                     h[i] = IF i \in OpenSessions(d) THEN CloseOrphan(h[i - 1], i) ELSE h[i - 1]
                /\ CloseOrphans(d) = h[MaxSessions]
  <1> DEFINE Upto(k, h) == h = [i \in 0 .. k |->
                                 IF i = 0 THEN d
                                 ELSE IF i \in OpenSessions(d) THEN CloseOrphan(h[i - 1], i) ELSE h[i - 1]]
             T == {k \in Nat : \E h : Upto(k, h)}
             u == CHOOSE h : Upto(MaxSessions, h)
  <1>1. 0 \in T
    <2> DEFINE h == [i \in 0 .. 0 |-> d]
    <2>1. \A i \in 0 .. 0 : i = 0
      OBVIOUS
    <2>2. Upto(0, h)
      BY <2>1
    <2> HIDE DEF h, Upto
    <2> QED BY <2>2
  <1>2. ASSUME NEW k \in Nat, k \in T PROVE k + 1 \in T
    <2>1. PICK h : Upto(k, h)
      BY <1>2
    <2> DEFINE j == [i \in 0 .. (k + 1) |->
                      IF i = 0 THEN d ELSE IF i \in OpenSessions(d) THEN CloseOrphan(h[i - 1], i) ELSE h[i - 1]]
    <2>2. \A i \in 0 .. k : i \in 0 .. (k + 1) /\ j[i] = h[i]
      BY <2>1
    <2>3. \A i \in 0 .. (k + 1) : i # 0 => h[i - 1] = j[i - 1]
      <3>1. \A i \in 0 .. (k + 1) : i # 0 => i - 1 \in 0 .. k
        OBVIOUS
      <3> HIDE DEF j
      <3> QED BY <2>2, <3>1
    <2>4. \A i \in 0 .. (k + 1) :
            j[i] = IF i = 0 THEN d ELSE IF i \in OpenSessions(d) THEN CloseOrphan(j[i - 1], i) ELSE j[i - 1]
      BY <2>3
    <2>5. j = [i \in 0 .. (k + 1) |-> j[i]]
      OBVIOUS
    <2> HIDE DEF j
    <2>6. Upto(k + 1, j)
      BY <2>4, <2>5
    <2> HIDE DEF Upto
    <2> QED BY <2>6
  <1>3. Nat \subseteq T
    <2> HIDE DEF T
    <2> QED BY <1>1, <1>2, AllNumbers
  <1>4. Upto(MaxSessions, u)
    <2> HIDE DEF Upto
    <2> QED BY <1>3
  <1>5. CloseOrphans(d) = u[MaxSessions]
    BY DEF CloseOrphans
  <1> HIDE DEF u
  <1>6. u[0] = d
    BY <1>4
  <1>7. ASSUME NEW i \in 1 .. MaxSessions
        PROVE  u[i] = IF i \in OpenSessions(d) THEN CloseOrphan(u[i - 1], i) ELSE u[i - 1]
    <2>1. i \in 0 .. MaxSessions /\ i # 0
      OBVIOUS
    <2> QED BY <1>4, <2>1
  <1> QED BY <1>5, <1>6, <1>7

-----------------------------------------------------------------------------
(* The rows, one write at a time.                                          *)

(* The assumption on the constants, conjunct by conjunct.                  *)
LEMMA Consts ==
  /\ IsFiniteSet(Projects)
  /\ MaxSessions \in Nat /\ SegmentIdle \in Nat /\ SessionIdle \in Nat /\ FocusStale \in Nat
  /\ MaxTime \in Nat /\ Epoch \in Nat
  /\ TickPeriod \in Nat /\ TickPeriod > 0 /\ DayLength \in Nat /\ DayLength > 0
  /\ 2 * FocusStale < SegmentIdle /\ TickPeriod < FocusStale /\ TickPeriod <= SessionIdle
  /\ Jumps \subseteq Int \X Nat
  BY ConstantsAssumption

(* What rows hold.                                                         *)
LEMMA BooksHold ==
  ASSUME NEW d \in Books
  PROVE  /\ d.segs \in Seq(Segment) /\ Len(d.segs) \in Nat /\ DOMAIN d.segs = 1 .. Len(d.segs)
         /\ \A g \in DOMAIN d.segs : d.segs[g] \in Segment
         /\ d.sess \in [Sessions -> Rows] /\ d.paid \in [Projects -> [Days -> Nat]]
         /\ \A s \in Sessions :
              /\ d.sess[s] \in Rows /\ d.sess[s].state \in {"none", "open", "closed"}
              /\ d.sess[s].state # "none" => d.sess[s].project \in Projects /\ d.sess[s].started \in Nat
              /\ d.sess[s].state = "open" => d.sess[s] \in Opened
              /\ d.sess[s].state = "closed" => d.sess[s] \in Closed
  <1>1. d.segs \in Seq(Segment) /\ d.sess \in [Sessions -> Rows] /\ d.paid \in [Projects -> [Days -> Nat]]
    BY DEF Books
  <1>2. Len(d.segs) \in Nat /\ DOMAIN d.segs = 1 .. Len(d.segs)
    BY <1>1, LenProperties
  <1>3. \A g \in DOMAIN d.segs : d.segs[g] \in Segment
    BY <1>1, <1>2, ElementOfSeq
  <1>4. ASSUME NEW s \in Sessions
        PROVE /\ d.sess[s] \in Rows /\ d.sess[s].state \in {"none", "open", "closed"}
              /\ d.sess[s].state # "none" => d.sess[s].project \in Projects /\ d.sess[s].started \in Nat
              /\ d.sess[s].state = "open" => d.sess[s] \in Opened
              /\ d.sess[s].state = "closed" => d.sess[s] \in Closed
    <2>1. d.sess[s] \in Rows
      BY <1>1
    <2> QED BY <2>1 DEF Rows, NoSession, Opened, Closed
  <1> QED BY <1>1, <1>2, <1>3, <1>4

(* The fields of a segment row.                                            *)
LEMMA SegmentHas ==
  ASSUME NEW r \in Segment
  PROVE  /\ r.session \in Sessions /\ r.started \in Nat /\ r.ended \in Nat /\ r.credit \in Nat
         /\ r.by \in Bys /\ r.signalled \in BOOLEAN
  BY DEF Segment

(* A segment's row written over.                                           *)
Replaced(d, g, r) == [d EXCEPT !.segs = [@ EXCEPT ![g] = r]]

(* What writing one segment row leaves of the index.                       *)
LEMMA ReplacedIs ==
  ASSUME NEW d \in Books, NEW g \in DOMAIN d.segs, NEW r \in Segment, NEW e, e = Replaced(d, g, r)
  PROVE  /\ e \in Books /\ e.sess = d.sess /\ e.paid = d.paid
         /\ Len(e.segs) = Len(d.segs) /\ DOMAIN e.segs = DOMAIN d.segs
         /\ e.segs[g] = r /\ \A h \in DOMAIN d.segs : h # g => e.segs[h] = d.segs[h]
  <1> DEFINE q == [d.segs EXCEPT ![g] = r]
  <1>1. q \in Seq(Segment) /\ Len(q) = Len(d.segs)
        /\ \A h \in 1 .. Len(d.segs) : q[h] = IF h = g THEN r ELSE d.segs[h]
    BY BooksHold, ExceptSeq
  <1>2. DOMAIN q = DOMAIN d.segs
    OBVIOUS
  <1> HIDE DEF q
  <1>3. e.segs = q /\ e.sess = d.sess /\ e.paid = d.paid /\ e \in Books
    BY <1>1 DEF Replaced, Books, q
  <1> QED BY <1>1, <1>2, <1>3, BooksHold

(* A segment's row appended.                                               *)
LEMMA AppendedIs ==
  ASSUME NEW d \in Books, NEW r \in Segment, NEW e, e = [d EXCEPT !.segs = Append(@, r)]
  PROVE  /\ e \in Books /\ e.sess = d.sess /\ e.paid = d.paid
         /\ Len(e.segs) = Len(d.segs) + 1 /\ DOMAIN e.segs = DOMAIN d.segs \cup {Len(d.segs) + 1}
         /\ e.segs[Len(d.segs) + 1] = r /\ \A h \in DOMAIN d.segs : e.segs[h] = d.segs[h]
  <1> DEFINE q == Append(d.segs, r)
  <1>1. q \in Seq(Segment) /\ Len(q) = Len(d.segs) + 1
        /\ q[Len(d.segs) + 1] = r /\ \A h \in 1 .. Len(d.segs) : q[h] = d.segs[h]
    BY BooksHold
  <1>2. DOMAIN q = 1 .. (Len(d.segs) + 1) /\ DOMAIN q = DOMAIN d.segs \cup {Len(d.segs) + 1}
    <2>1. DOMAIN q = 1 .. Len(q)
      BY <1>1, LenProperties
    <2> HIDE DEF q
    <2> QED BY <1>1, <2>1, BooksHold
  <1> HIDE DEF q
  <1>3. e.segs = q /\ e.sess = d.sess /\ e.paid = d.paid /\ e \in Books
    BY <1>1 DEF Books, q
  <1> QED BY <1>1, <1>2, <1>3, BooksHold

(* Two numbers make one. *)
LEMMA SumOfNats ==
  ASSUME NEW a \in Nat, NEW b \in Nat
  PROVE  a + b \in Nat
  OBVIOUS


(* The seconds of some segments are finitely many.                         *)
LEMMA FiniteSeconds ==
  ASSUME NEW d \in Books, NEW gs, gs \subseteq DOMAIN d.segs
  PROVE  IsFiniteSet(Union(d, gs)) /\ \A g \in gs : IsFiniteSet(Seconds(d.segs[g]))
  <1>1. \A g \in DOMAIN d.segs : IsFiniteSet(Seconds(d.segs[g]))
    <2> SUFFICES ASSUME NEW g \in DOMAIN d.segs PROVE IsFiniteSet(Seconds(d.segs[g]))
      OBVIOUS
    <2>1. d.segs[g].started \in Int /\ d.segs[g].started + d.segs[g].credit - 1 \in Int
      BY BooksHold, SegmentHas
    <2> QED BY <2>1, FS_Interval DEF Seconds
  <1>2. IsFiniteSet(gs)
    <2>1. IsFiniteSet(1 .. Len(d.segs))
      BY BooksHold, FS_Interval
    <2> QED BY <2>1, BooksHold, FS_Subset
  <1> DEFINE S == {Seconds(d.segs[g]) : g \in gs}
  <1>3. IsFiniteSet(S)
    <2> DEFINE f == [g \in gs |-> Seconds(d.segs[g])]
    <2>1. f \in Surjection(gs, S)
      BY DEF Surjection
    <2> HIDE DEF f, S
    <2> QED BY <1>2, <2>1, FS_Surjection
  <1>4. \A T \in S : IsFiniteSet(T)
    BY <1>1
  <1>5. Union(d, gs) = UNION S
    BY DEF Union
  <1> HIDE DEF S
  <1> QED BY <1>1, <1>3, <1>4, <1>5, FS_UNION

(* A session's sum depends on its own segments alone.                      *)
LEMMA SameSum ==
  ASSUME NEW d, NEW e, NEW s, SegmentsOf(e, s) = SegmentsOf(d, s),
         \A g \in SegmentsOf(d, s) : e.segs[g].credit = d.segs[g].credit
  PROVE  CreditedSeconds(e, s) = CreditedSeconds(d, s)
  <1>1. [g \in SegmentsOf(e, s) |-> e.segs[g].credit] = [g \in SegmentsOf(d, s) |-> d.segs[g].credit]
    OBVIOUS
  <1> QED BY <1>1 DEF CreditedSeconds

(* A session's credited seconds are a natural number.                      *)
LEMMA CreditNat ==
  ASSUME NEW d \in Books, NEW s
  PROVE  CreditedSeconds(d, s) \in Nat
  <1> DEFINE f == [g \in SegmentsOf(d, s) |-> d.segs[g].credit]
  <1>1. SegmentsOf(d, s) \subseteq 1 .. Len(d.segs)
    BY BooksHold DEF SegmentsOf
  <1>2. IsFiniteSet(SegmentsOf(d, s))
    <2>1. IsFiniteSet(1 .. Len(d.segs))
      BY BooksHold, FS_Interval
    <2> QED BY <1>1, <2>1, FS_Subset
  <1>3. \A g \in SegmentsOf(d, s) : d.segs[g].credit \in Nat
    BY <1>1, BooksHold, SegmentHas
  <1>4. f \in [SegmentsOf(d, s) -> Nat]
    BY <1>3
  <1> HIDE DEF f
  <1>5. SumOf(f) \in Nat
    BY <1>2, <1>4, SumNat
  <1> QED BY <1>5 DEF CreditedSeconds, f

(* What a write for the session s may do to the rows: it leaves the other  *)
(* sessions and their segments, and no segment goes away.                  *)
WritesFor(s, d, e) ==
  /\ \A t \in Sessions : t # s => e.sess[t] = d.sess[t]
  /\ DOMAIN d.segs \subseteq DOMAIN e.segs
  /\ \A g \in DOMAIN d.segs :
       /\ e.segs[g].session = d.segs[g].session /\ e.segs[g].started = d.segs[g].started
       /\ d.segs[g].session # s => e.segs[g] = d.segs[g]
  /\ \A g \in DOMAIN e.segs : g \notin DOMAIN d.segs => e.segs[g].session = s

(* Two writes for one session are a write for it.                          *)
LEMMA WritesCompose ==
  ASSUME NEW s, NEW d, NEW e, NEW f, WritesFor(s, d, e), WritesFor(s, e, f)
  PROVE  WritesFor(s, d, f)
  BY DEF WritesFor

(* So is none.                                                             *)
LEMMA WritesNothing ==
  ASSUME NEW s, NEW d
  PROVE  WritesFor(s, d, d)
  BY DEF WritesFor

(* The other sums stay.                                                    *)
LEMMA OthersSums ==
  ASSUME NEW s \in Sessions, NEW d \in Books, NEW e \in Books, WritesFor(s, d, e),
         NEW t \in Sessions, t # s
  PROVE  CreditedSeconds(e, t) = CreditedSeconds(d, t)
  <1>1. SegmentsOf(e, t) = SegmentsOf(d, t)
    BY DEF WritesFor, SegmentsOf
  <1>2. \A g \in SegmentsOf(d, t) : e.segs[g].credit = d.segs[g].credit
    BY DEF WritesFor, SegmentsOf
  <1> QED BY <1>1, <1>2, SameSum

(* A write for a session that is not closed leaves every closed one's sum right. *)
LEMMA OthersHold ==
  ASSUME NEW s \in Sessions, NEW d \in Books, NEW e \in Books, WritesFor(s, d, e), SumsHold(d),
         e.sess[s].state # "closed"
  PROVE  SumsHold(e)
  <1> SUFFICES ASSUME NEW t \in Sessions, e.sess[t].state = "closed"
               PROVE  /\ e.sess[t].credit = CreditedSeconds(e, t)
                      /\ e.sess[t].ended >= e.sess[t].started
    BY DEF SumsHold
  <1>1. t # s
    OBVIOUS
  <1>2. /\ e.sess[t] = d.sess[t] /\ d.sess[t].credit = CreditedSeconds(d, t)
        /\ d.sess[t].ended >= d.sess[t].started
    BY <1>1 DEF WritesFor, SumsHold
  <1> QED BY <1>1, <1>2, OthersSums

(* A write for an opened session keeps segments where sessions are.        *)
LEMMA SegmentsStay ==
  ASSUME NEW s \in Sessions, NEW d \in Books, NEW e \in Books, WritesFor(s, d, e), HasSegments(d),
         e.sess[s].state # "none", d.sess[s].state # "none"
  PROVE  HasSegments(e)
  <1>1. ASSUME NEW t \in Sessions, e.sess[t].state # "none" PROVE SegmentsOf(e, t) # {}
    <2>1. d.sess[t].state # "none"
      BY <1>1 DEF WritesFor
    <2>2. PICK g : g \in SegmentsOf(d, t)
      BY <2>1 DEF HasSegments
    <2>3. g \in SegmentsOf(e, t)
      BY <2>2 DEF WritesFor, SegmentsOf
    <2> QED BY <2>3
  <1>2. ASSUME NEW g \in DOMAIN e.segs PROVE e.sess[e.segs[g].session].state # "none"
    <2>1. e.segs[g].session \in Sessions
      BY BooksHold, SegmentHas
    <2>2. CASE g \in DOMAIN d.segs
      <3>1. d.sess[d.segs[g].session].state # "none" /\ e.segs[g].session = d.segs[g].session
        BY <2>2 DEF HasSegments, WritesFor
      <3> QED BY <2>1, <3>1 DEF WritesFor
    <2>3. CASE g \notin DOMAIN d.segs
      BY <2>3 DEF WritesFor
    <2> QED BY <2>2, <2>3
  <1> QED BY <1>1, <1>2 DEF HasSegments

(* What is paid and covered depends on the closed segments that count.     *)
LEMMA SameUnion ==
  ASSUME NEW d \in Books, NEW e \in Books, PaidIsTheUnion(d), e.paid = d.paid,
         CountedClosed(e) = CountedClosed(d), \A g \in CountedClosed(d) : e.segs[g] = d.segs[g]
  PROVE  PaidIsTheUnion(e)
  <1>1. Union(e, CountedClosed(e)) = Union(d, CountedClosed(d))
    BY DEF Union
  <1>2. ASSUME NEW day \in Days PROVE PaidOn(e, day) = Cardinality(CoveredOn(e, day))
    <2>1. PaidOn(e, day) = PaidOn(d, day) /\ CoveredOn(e, day) = CoveredOn(d, day)
      BY <1>1 DEF PaidOn, CoveredOn
    <2> QED BY <2>1 DEF PaidIsTheUnion
  <1> QED BY <1>2 DEF PaidIsTheUnion

(* A closed segment's share, paid at its close, is what it adds to the union. *)
LEMMA ClosePays ==
  ASSUME NEW d \in Books, PaidIsTheUnion(d), NEW g \in DOMAIN d.segs, d.segs[g].by = "open",
         NEW r \in Segment, r.by # "open", r.session = d.segs[g].session,
         d.sess[r.session].state # "none",
         NEW e, e = Replaced(d, g, r), NEW f, f = CreditSegmentClose(e, g)
  PROVE  /\ f \in Books /\ f.sess = d.sess /\ f.segs = e.segs /\ PaidIsTheUnion(f)
  <1> DEFINE C == CountedClosed(d)
             U == Union(d, C)
             N == MarginalSeconds(e, g)
             p == d.sess[r.session].project
             On(day) == {t \in N : DayOf(t) = day}
  <1>1. /\ e \in Books /\ e.sess = d.sess /\ e.paid = d.paid /\ DOMAIN e.segs = DOMAIN d.segs
        /\ e.segs[g] = r /\ \A h \in DOMAIN d.segs : h # g => e.segs[h] = d.segs[h]
    BY ReplacedIs
  <1>2. C \subseteq DOMAIN d.segs /\ g \notin C
    BY DEF CountedClosed
  <1>3. CountedClosed(e) = IF r.signalled THEN C \cup {g} ELSE C
    BY <1>1 DEF CountedClosed
  <1>4. Union(e, C) = U
    BY <1>1, <1>2 DEF Union
  <1>5. N = IF r.signalled THEN Seconds(r) \ U ELSE {}
    <2>1. CASE r.signalled
      <3>1. CountedClosed(e) \ {g} = C
        BY <1>2, <1>3, <2>1
      <3> QED BY <1>1, <1>4, <2>1, <3>1 DEF MarginalSeconds
    <2>2. CASE ~r.signalled
      BY <1>1, <2>2 DEF MarginalSeconds
    <2> QED BY <2>1, <2>2
  <1>6. Union(e, CountedClosed(e)) = U \cup N
    <2>1. CASE r.signalled
      <3>1. Union(e, C \cup {g}) = Union(e, C) \cup Seconds(e.segs[g])
        BY DEF Union
      <3> QED BY <1>1, <1>3, <1>4, <1>5, <2>1, <3>1
    <2>2. CASE ~r.signalled
      BY <1>3, <1>4, <1>5, <2>2
    <2> QED BY <2>1, <2>2
  <1>7. U \cap N = {}
    BY <1>5
  <1>8. IsFiniteSet(U) /\ IsFiniteSet(N)
    <2>1. IsFiniteSet(U)
      BY <1>2, FiniteSeconds
    <2>2. IsFiniteSet(Seconds(r))
      <3>1. Union(e, {g}) = Seconds(r)
        BY <1>1 DEF Union
      <3> QED BY <1>1, <3>1, FiniteSeconds
    <2>3. IsFiniteSet(Seconds(r) \ U) /\ IsFiniteSet({})
      <3> HIDE DEF U
      <3> QED BY <2>2, FS_Difference, FS_EmptySet
    <2>4. IsFiniteSet(N)
      <3> HIDE DEF N
      <3> QED BY <1>5, <2>3
    <2> QED BY <2>1, <2>4
  <1>9. \A day : IsFiniteSet(On(day)) /\ Cardinality(On(day)) \in Nat
    <2> SUFFICES ASSUME NEW day PROVE IsFiniteSet(On(day)) /\ Cardinality(On(day)) \in Nat
      OBVIOUS
    <2>1. On(day) \in SUBSET N
      OBVIOUS
    <2> HIDE DEF On, N
    <2> QED BY <1>8, <2>1, FS_Subset, FS_CardinalityType
  <1>10. p \in Projects
    BY BooksHold, SegmentHas
  <1>12. d.paid \in [Projects -> [Days -> Nat]]
    BY BooksHold
  <1> DEFINE row == [day \in Days |-> d.paid[p][day] + Cardinality(On(day))]
             paid == [d.paid EXCEPT ![p] = row]
  <1>11. f = [e EXCEPT !.paid = paid]
    <2>1. DOMAIN d.paid[p] = Days
      BY <1>10, <1>12
    <2> HIDE DEF N
    <2>2. f = [e EXCEPT !.paid = [d.paid EXCEPT ![p] =
                 [day \in DOMAIN d.paid[p] |-> d.paid[p][day] + Cardinality(On(day))]]]
      BY <1>1 DEF CreditSegmentClose, N
    <2> QED BY <2>1, <2>2
  <1> HIDE DEF N
  <1>13. /\ \A day \in Days : paid[p][day] = d.paid[p][day] + Cardinality(On(day))
         /\ \A q \in Projects : q # p => paid[q] = d.paid[q]
         /\ paid \in [Projects -> [Days -> Nat]]
    <2>0. \A day \in Days : Cardinality(On(day)) \in Nat
      BY <1>9
    <2> HIDE DEF On
    <2>1. \A day \in Days : d.paid[p][day] \in Nat
      BY <1>10, <1>12
    <2>2. row \in [Days -> Nat] /\ \A day \in Days : row[day] = d.paid[p][day] + Cardinality(On(day))
      <3>1. \A day \in Days : d.paid[p][day] + Cardinality(On(day)) \in Nat
        <4> SUFFICES ASSUME NEW day \in Days PROVE d.paid[p][day] + Cardinality(On(day)) \in Nat
          OBVIOUS
        <4>1. d.paid[p][day] \in Nat /\ Cardinality(On(day)) \in Nat
          BY <2>0, <2>1
        <4> QED BY <4>1, SumOfNats, Zenon
      <3> QED BY <3>1, Zenon
    <2> HIDE DEF row
    <2> QED BY <1>10, <1>12, <2>2
  <1>14. f.paid = paid /\ f.segs = e.segs /\ f.sess = e.sess /\ f \in Books
    <2> HIDE DEF paid
    <2> QED BY <1>1, <1>11, <1>13 DEF Books
  <1> HIDE DEF paid
  <1>15. ASSUME NEW day \in Days PROVE PaidOn(f, day) = Cardinality(CoveredOn(f, day))
    <2>1. PaidOn(f, day) = PaidOn(d, day) + Cardinality(On(day))
      <3> DEFINE a == [q \in Projects |-> d.paid[q][day]]
                 b == [q \in Projects |-> paid[q][day]]
      <3>1. a \in [Projects -> Nat] /\ b \in [Projects -> Nat]
        BY <1>12, <1>13
      <3>2. b[p] = a[p] + Cardinality(On(day)) /\ \A q \in Projects \ {p} : b[q] = a[q]
        BY <1>10, <1>13
      <3>3. Cardinality(On(day)) \in Nat
        BY <1>9
      <3> HIDE DEF a, b, On
      <3>4. SumOf(b) = SumOf(a) + Cardinality(On(day))
        <4>1. PICK n : n = Cardinality(On(day))
          OBVIOUS
        <4>2. n \in Nat /\ b[p] = a[p] + n /\ \A q \in Projects \ {p} : b[q] = a[q]
          BY <3>2, <3>3, <4>1
        <4>3. IsFiniteSet(Projects)
          BY Consts
        <4>4. SumOf(b) = SumOf(a) + n
          BY <1>10, <3>1, <4>2, <4>3, SumMore, SMTT(60)
        <4> QED BY <4>1, <4>4
      <3> QED BY <1>14, <3>4 DEF a, b, PaidOn
    <2>2. CoveredOn(f, day) = CoveredOn(d, day) \cup On(day)
      <3>1. Union(f, CountedClosed(f)) = U \cup N
        BY <1>6, <1>14 DEF Union, CountedClosed
      <3> QED BY <3>1 DEF CoveredOn
    <2>3. CoveredOn(d, day) \cap On(day) = {}
      BY <1>7 DEF CoveredOn
    <2>4. IsFiniteSet(CoveredOn(d, day)) /\ Cardinality(CoveredOn(d, day)) \in Nat
      <3>1. CoveredOn(d, day) \in SUBSET U
        BY DEF CoveredOn
      <3> HIDE DEF U
      <3> QED BY <1>8, <3>1, FS_Subset, FS_CardinalityType
    <2>5. Cardinality(CoveredOn(f, day)) = Cardinality(CoveredOn(d, day)) + Cardinality(On(day))
      <3>1. IsFiniteSet(On(day)) /\ Cardinality(On(day)) \in Nat
        BY <1>9
      <3> HIDE DEF On
      <3>2. Cardinality(CoveredOn(d, day) \cup On(day))
              = Cardinality(CoveredOn(d, day)) + Cardinality(On(day)) - Cardinality({})
        BY <2>3, <2>4, <3>1, FS_Union
      <3> QED BY <2>2, <2>4, <3>1, <3>2, FS_EmptySet
    <2>6. PaidOn(d, day) = Cardinality(CoveredOn(d, day))
      BY DEF PaidIsTheUnion
    <2> QED BY <2>1, <2>5, <2>6
  <1> QED BY <1>1, <1>14, <1>15 DEF PaidIsTheUnion

(* The row of a segment after a mark of activity, a close, and a close at its watermark. *)
Marked(r, at) == [r EXCEPT !.credit = Later(Later(at - r.started, 0), r.credit), !.signalled = TRUE]
ClosedAs(r, c) == [r EXCEPT !.ended = c.ended, !.credit = c.credit, !.by = c.by]
AtWatermark(r) == [r EXCEPT !.ended = r.started + r.credit, !.by = "crash"]

(* mark_activity keeps the books, and is what it says of its segment.      *)
LEMMA MarkActivityKeeps ==
  ASSUME NEW d, Balanced(d), NEW g \in DOMAIN d.segs, d.segs[g].by = "open",
         d.sess[d.segs[g].session].state = "open", NEW at \in Nat,
         NEW e, e = MarkActivity(d, g, at)
  PROVE  /\ Balanced(e) /\ WritesFor(d.segs[g].session, d, e) /\ e.sess = d.sess
         /\ DOMAIN e.segs = DOMAIN d.segs /\ Len(e.segs) = Len(d.segs)
         /\ e.segs[g] = Marked(d.segs[g], at)
         /\ \A h \in DOMAIN d.segs : h # g => e.segs[h] = d.segs[h]
  <1> DEFINE s == d.segs[g].session
             credit == Later(Later(at - d.segs[g].started, 0), d.segs[g].credit)
  <1>8. PICK r : r = [d.segs[g] EXCEPT !.credit = credit, !.signalled = TRUE]
    OBVIOUS
  <1>0. d \in Books /\ d.segs[g] \in Segment /\ s \in Sessions
    BY BooksHold, SegmentHas DEF Balanced
  <1>1. r \in Segment /\ r.session = s /\ r.started = d.segs[g].started /\ r.by = "open"
        /\ r.ended = d.segs[g].ended
    <2>1. credit \in Nat
      BY <1>0, SegmentHas DEF Later
    <2> HIDE DEF credit
    <2>2. PICK q : q = d.segs[g]
      OBVIOUS
    <2> QED BY <1>0, <1>8, <2>1, <2>2 DEF Segment
  <1>2. e = Replaced(d, g, r)
    BY <1>0, <1>8 DEF MarkActivity, Replaced, Books, Segment
  <1>3. /\ e \in Books /\ e.sess = d.sess /\ e.paid = d.paid
        /\ Len(e.segs) = Len(d.segs) /\ DOMAIN e.segs = DOMAIN d.segs
        /\ e.segs[g] = r /\ \A h \in DOMAIN d.segs : h # g => e.segs[h] = d.segs[h]
    BY <1>0, <1>1, <1>2, ReplacedIs
  <1>4. WritesFor(s, d, e)
    BY <1>1, <1>3 DEF WritesFor
  <1>5. HasSegments(e) /\ SumsHold(e)
    BY <1>0, <1>3, <1>4, SegmentsStay, OthersHold DEF Balanced
  <1>7. PaidIsTheUnion(e)
    <2>1. CountedClosed(e) = CountedClosed(d) /\ \A h \in CountedClosed(d) : e.segs[h] = d.segs[h]
      BY <1>1, <1>3 DEF CountedClosed
    <2> QED BY <1>0, <1>3, <2>1, SameUnion DEF Balanced
  <1>9. r = Marked(d.segs[g], at)
    BY <1>8 DEF Marked
  <1> QED BY <1>3, <1>4, <1>5, <1>7, <1>9 DEF Balanced

(* A close, by its outcome or at its watermark.                            *)
LEMMA CloseKeeps ==
  ASSUME NEW d, Balanced(d), NEW g \in DOMAIN d.segs, d.segs[g].by = "open",
         d.sess[d.segs[g].session].state = "open", NEW r \in Segment,
         r.session = d.segs[g].session, r.started = d.segs[g].started, r.by # "open",
         NEW e, e = CreditSegmentClose(Replaced(d, g, r), g)
  PROVE  /\ Balanced(e) /\ WritesFor(d.segs[g].session, d, e) /\ e.sess = d.sess
         /\ DOMAIN e.segs = DOMAIN d.segs /\ Len(e.segs) = Len(d.segs)
         /\ e.segs[g] = r /\ \A h \in DOMAIN d.segs : h # g => e.segs[h] = d.segs[h]
  <1> DEFINE s == d.segs[g].session
             b == Replaced(d, g, r)
  <1>0. d \in Books /\ d.segs[g] \in Segment /\ s \in Sessions
    BY BooksHold, SegmentHas DEF Balanced
  <1>1. /\ b \in Books
        /\ Len(b.segs) = Len(d.segs) /\ DOMAIN b.segs = DOMAIN d.segs
        /\ b.segs[g] = r /\ \A h \in DOMAIN d.segs : h # g => b.segs[h] = d.segs[h]
    BY <1>0, ReplacedIs
  <1>2. e \in Books /\ e.sess = d.sess /\ e.segs = b.segs /\ PaidIsTheUnion(e)
    BY <1>0, ClosePays DEF Balanced
  <1> HIDE DEF b
  <1>4. WritesFor(s, d, e)
    BY <1>1, <1>2 DEF WritesFor
  <1>5. HasSegments(e) /\ SumsHold(e)
    BY <1>0, <1>2, <1>4, SegmentsStay, OthersHold DEF Balanced
  <1> QED BY <1>1, <1>2, <1>4, <1>5 DEF Balanced

(* close_segment with its payment keeps the books, whatever the close says. *)
LEMMA CloseSegmentKeeps ==
  ASSUME NEW d, Balanced(d), NEW g \in DOMAIN d.segs, d.segs[g].by = "open",
         d.sess[d.segs[g].session].state = "open",
         NEW c, c.ended \in Nat, c.credit \in Nat, c.by \in Bys, c.by # "open",
         NEW e, e = CreditSegmentClose(CloseSegment(d, g, c), g)
  PROVE  /\ Balanced(e) /\ WritesFor(d.segs[g].session, d, e) /\ e.sess = d.sess
         /\ DOMAIN e.segs = DOMAIN d.segs /\ Len(e.segs) = Len(d.segs)
         /\ e.segs[g] = ClosedAs(d.segs[g], c)
         /\ \A h \in DOMAIN d.segs : h # g => e.segs[h] = d.segs[h]
  <1>4. PICK r : r = [d.segs[g] EXCEPT !.ended = c.ended, !.credit = c.credit, !.by = c.by]
    OBVIOUS
  <1>0. d \in Books /\ d.segs[g] \in Segment
    BY BooksHold, SegmentHas DEF Balanced
  <1>1. r \in Segment /\ r.session = d.segs[g].session /\ r.started = d.segs[g].started
        /\ r.by # "open"
    <2>1. c.ended \in Nat
      OBVIOUS
    <2>2. r \in Segment /\ r.session = d.segs[g].session /\ r.started = d.segs[g].started
          /\ r.by = c.by /\ r.ended = c.ended /\ r.credit = c.credit
      <3>1. PICK q : q = d.segs[g]
        OBVIOUS
      <3> QED BY <1>0, <1>4, <2>1, <3>1 DEF Segment
    <2> QED BY <2>2
  <1>2. CloseSegment(d, g, c) = Replaced(d, g, r)
    BY <1>0, <1>4 DEF CloseSegment, Replaced, Books, Segment
  <1>3. /\ Balanced(e) /\ WritesFor(d.segs[g].session, d, e) /\ e.sess = d.sess
         /\ DOMAIN e.segs = DOMAIN d.segs /\ Len(e.segs) = Len(d.segs)
         /\ e.segs[g] = r /\ \A h \in DOMAIN d.segs : h # g => e.segs[h] = d.segs[h]
    BY <1>1, <1>2, CloseKeeps
  <1>5. r = ClosedAs(d.segs[g], c)
    BY <1>4 DEF ClosedAs
  <1> QED BY <1>3, <1>5

(* A segment closed at its watermark, with its payment, keeps the books.   *)
LEMMA CloseAtWatermarkKeeps ==
  ASSUME NEW d, Balanced(d), NEW g \in DOMAIN d.segs, d.segs[g].by = "open",
         d.sess[d.segs[g].session].state = "open", NEW e, e = CloseAtWatermark(d, g)
  PROVE  /\ Balanced(e) /\ WritesFor(d.segs[g].session, d, e) /\ e.sess = d.sess
         /\ DOMAIN e.segs = DOMAIN d.segs /\ Len(e.segs) = Len(d.segs)
         /\ e.segs[g] = AtWatermark(d.segs[g])
         /\ \A h \in DOMAIN d.segs : h # g => e.segs[h] = d.segs[h]
  <1>4. PICK r : r = [d.segs[g] EXCEPT !.ended = d.segs[g].started + d.segs[g].credit, !.by = "crash"]
    OBVIOUS
  <1>0. d \in Books /\ d.segs[g] \in Segment
    BY BooksHold, SegmentHas DEF Balanced
  <1>1. r \in Segment /\ r.session = d.segs[g].session /\ r.started = d.segs[g].started
        /\ r.by # "open"
    <2>1. d.segs[g].started + d.segs[g].credit \in Nat /\ "crash" \in Bys
      BY <1>0, SegmentHas DEF Bys
    <2>2. r \in Segment /\ r.session = d.segs[g].session /\ r.started = d.segs[g].started
          /\ r.by = "crash" /\ r.ended = d.segs[g].started + d.segs[g].credit
          /\ r.credit = d.segs[g].credit
      <3>1. PICK q : q = d.segs[g]
        OBVIOUS
      <3> QED BY <1>0, <1>4, <2>1, <3>1 DEF Segment
    <2> QED BY <2>2
  <1>2. e = CreditSegmentClose(Replaced(d, g, r), g)
    <2>1. [d EXCEPT !.segs[g].ended = d.segs[g].started + d.segs[g].credit, !.segs[g].by = "crash"]
            = Replaced(d, g, r)
      BY <1>0, <1>4 DEF Replaced, Books, Segment
    <2> QED BY <2>1 DEF CloseAtWatermark
  <1>3. /\ Balanced(e) /\ WritesFor(d.segs[g].session, d, e) /\ e.sess = d.sess
         /\ DOMAIN e.segs = DOMAIN d.segs /\ Len(e.segs) = Len(d.segs)
         /\ e.segs[g] = r /\ \A h \in DOMAIN d.segs : h # g => e.segs[h] = d.segs[h]
    BY <1>1, <1>2, CloseKeeps
  <1>5. r = AtWatermark(d.segs[g])
    BY <1>4 DEF AtWatermark
  <1> QED BY <1>3, <1>5

Fresh(s, at, signalled) ==
  [session |-> s, started |-> at, ended |-> at, credit |-> 0, by |-> "open", signalled |-> signalled]

(* A new segment keeps the books: it is open, so it counts for no day.     *)
LEMMA OpenSegmentKeeps ==
  ASSUME NEW d, Balanced(d), NEW s \in Sessions, d.sess[s].state = "open", NEW at \in Nat,
         NEW signalled \in BOOLEAN, NEW e, e = OpenSegment(d, s, at, signalled)
  PROVE  /\ Balanced(e) /\ WritesFor(s, d, e) /\ e.sess = d.sess
         /\ Len(e.segs) = Len(d.segs) + 1 /\ DOMAIN e.segs = DOMAIN d.segs \cup {Len(e.segs)}
         /\ e.segs[Len(e.segs)] = Fresh(s, at, signalled)
         /\ Len(e.segs) \notin DOMAIN d.segs /\ \A h \in DOMAIN d.segs : e.segs[h] = d.segs[h]
  <1> DEFINE r == Fresh(s, at, signalled)
             n == Len(d.segs) + 1
  <1>0. d \in Books
    BY DEF Balanced
  <1>1. r \in Segment /\ r.session = s /\ r.by = "open"
    BY DEF Segment, Bys, Fresh
  <1>2. e = [d EXCEPT !.segs = Append(@, r)]
    BY DEF OpenSegment, Fresh
  <1> HIDE DEF r
  <1>3. /\ e \in Books /\ e.sess = d.sess /\ e.paid = d.paid
         /\ Len(e.segs) = n /\ DOMAIN e.segs = DOMAIN d.segs \cup {n}
         /\ e.segs[n] = r /\ \A h \in DOMAIN d.segs : e.segs[h] = d.segs[h]
    BY <1>0, <1>1, <1>2, AppendedIs
  <1>4. n \notin DOMAIN d.segs
    BY <1>0, BooksHold
  <1> HIDE DEF n
  <1>5. WritesFor(s, d, e)
    BY <1>1, <1>3 DEF WritesFor
  <1>6. HasSegments(e) /\ SumsHold(e)
    BY <1>0, <1>3, <1>5, SegmentsStay, OthersHold DEF Balanced
  <1>8. PaidIsTheUnion(e)
    <2>1. CountedClosed(e) = CountedClosed(d) /\ \A h \in CountedClosed(d) : e.segs[h] = d.segs[h]
      BY <1>1, <1>3, <1>4 DEF CountedClosed
    <2> QED BY <1>0, <1>3, <2>1, SameUnion DEF Balanced
  <1> QED BY <1>3, <1>4, <1>5, <1>6, <1>8 DEF Balanced, r, n

Ending(d, s, at, reason) ==
  [state |-> "closed", project |-> d.sess[s].project, started |-> d.sess[s].started,
   ended |-> Later(at, d.sess[s].started), reason |-> reason, credit |-> CreditedSeconds(d, s)]

(* close_session stores the sum of the segments there are.                 *)
LEMMA CloseSessionKeeps ==
  ASSUME NEW d, Balanced(d), NEW s \in Sessions, d.sess[s].state = "open", NEW at \in Nat,
         NEW reason \in Reasons, NEW e, e = CloseSession(d, s, at, reason)
  PROVE  /\ Balanced(e) /\ WritesFor(s, d, e) /\ e.segs = d.segs
         /\ e.sess[s] = Ending(d, s, at, reason)
  <1> DEFINE r == Ending(d, s, at, reason)
  <1>0. d \in Books
    BY DEF Balanced
  <1>1. r \in Closed /\ r.state = "closed" /\ r.credit = CreditedSeconds(d, s)
        /\ r.ended >= r.started
    BY <1>0, BooksHold, CreditNat DEF Ending, Closed, Later
  <1>2. e = [d EXCEPT !.sess = [d.sess EXCEPT ![s] = r]]
    BY DEF CloseSession, Ending
  <1> HIDE DEF r
  <1>3. e \in Books /\ e.segs = d.segs /\ e.paid = d.paid /\ e.sess[s] = r
        /\ \A t \in Sessions : t # s => e.sess[t] = d.sess[t]
    <2>1. PICK x : x = [d.sess EXCEPT ![s] = r]
      OBVIOUS
    <2>2. d.sess \in [Sessions -> Rows] /\ r \in Rows
      BY <1>0, <1>1, BooksHold DEF Rows
    <2>3. /\ x \in [Sessions -> Rows] /\ x[s] = r
          /\ \A t \in Sessions : t # s => x[t] = d.sess[t]
      BY <2>1, <2>2
    <2>4. e = [d EXCEPT !.sess = x]
      BY <1>2, <2>1
    <2>5. e \in Books /\ e.sess = x /\ e.segs = d.segs /\ e.paid = d.paid
      BY <1>0, <2>3, <2>4 DEF Books
    <2> QED BY <2>3, <2>5
  <1>4. WritesFor(s, d, e)
    BY <1>3 DEF WritesFor
  <1>5. HasSegments(e)
    BY <1>0, <1>1, <1>3, <1>4, SegmentsStay DEF Balanced
  <1>6. SumsHold(e)
    <2> SUFFICES ASSUME NEW t \in Sessions, e.sess[t].state = "closed"
                 PROVE  /\ e.sess[t].credit = CreditedSeconds(e, t)
                        /\ e.sess[t].ended >= e.sess[t].started
      BY DEF SumsHold
    <2>1. CreditedSeconds(e, t) = CreditedSeconds(d, t)
      BY <1>3, SameSum DEF SegmentsOf
    <2> QED BY <1>1, <1>3, <2>1 DEF Balanced, SumsHold
  <1>8. PaidIsTheUnion(e)
    <2>1. CountedClosed(e) = CountedClosed(d)
      BY <1>3 DEF CountedClosed
    <2> QED BY <1>0, <1>3, <2>1, SameUnion DEF Balanced
  <1> QED BY <1>3, <1>4, <1>5, <1>6, <1>8 DEF Balanced, r

(* A launch's rows.                                                        *)
LaunchRows(d, s, p, at) == OpenSegment(OpenSession(d, s, p, at), s, at, FALSE)
Unsignalled(s, at) ==
  [session |-> s, started |-> at, ended |-> at, credit |-> 0, by |-> "open", signalled |-> FALSE]

(* A launch's two rows keep the books.                                     *)
LEMMA LaunchKeeps ==
  ASSUME NEW d, Balanced(d), NEW s \in Sessions, d.sess[s].state = "none", NEW at \in Nat,
         NEW p \in Projects, NEW e, e = LaunchRows(d, s, p, at)
  PROVE  /\ Balanced(e) /\ WritesFor(s, d, e)
         /\ e.sess[s] = [state |-> "open", project |-> p, started |-> at]
         /\ Len(e.segs) = Len(d.segs) + 1 /\ DOMAIN e.segs = DOMAIN d.segs \cup {Len(e.segs)}
         /\ e.segs[Len(e.segs)] = Unsignalled(s, at)
         /\ Len(e.segs) \notin DOMAIN d.segs /\ \A h \in DOMAIN d.segs : e.segs[h] = d.segs[h]
  <1>12. PICK r : r = Unsignalled(s, at)
    OBVIOUS
  <1> DEFINE n == Len(d.segs) + 1
             o == [state |-> "open", project |-> p, started |-> at]
             b == OpenSession(d, s, p, at)
  <1>0. d \in Books
    BY DEF Balanced
  <1>1. r \in Segment /\ r.session = s /\ r.by = "open"
    BY <1>12 DEF Segment, Bys, Unsignalled
  <1>2. b \in Books /\ b.segs = d.segs /\ b.paid = d.paid /\ b.sess[s] = o
        /\ \A t \in Sessions : t # s => b.sess[t] = d.sess[t]
    BY <1>0, BooksHold DEF Books, Rows, Opened, OpenSession
  <1>11. o.state = "open"
    OBVIOUS
  <1>3. e = [b EXCEPT !.segs = Append(@, r)]
    BY <1>12 DEF LaunchRows, OpenSegment, Unsignalled
  <1> HIDE DEF b, o
  <1>4. /\ e \in Books /\ e.sess = b.sess /\ e.paid = d.paid
         /\ Len(e.segs) = n /\ DOMAIN e.segs = DOMAIN d.segs \cup {n}
         /\ e.segs[n] = r /\ \A h \in DOMAIN d.segs : e.segs[h] = d.segs[h]
    <2>1. /\ e \in Books /\ e.sess = b.sess /\ e.paid = b.paid
          /\ Len(e.segs) = Len(b.segs) + 1 /\ DOMAIN e.segs = DOMAIN b.segs \cup {Len(b.segs) + 1}
          /\ e.segs[Len(b.segs) + 1] = r /\ \A h \in DOMAIN b.segs : e.segs[h] = b.segs[h]
      BY <1>1, <1>2, <1>3, AppendedIs
    <2> QED BY <1>2, <2>1
  <1>5. n \notin DOMAIN d.segs
    BY <1>0, BooksHold
  <1> HIDE DEF n
  <1>6. WritesFor(s, d, e)
    BY <1>1, <1>2, <1>4 DEF WritesFor
  <1>7. HasSegments(e)
    <2>1. ASSUME NEW t \in Sessions, e.sess[t].state # "none" PROVE SegmentsOf(e, t) # {}
      <3>1. CASE t = s
        <4>1. n \in SegmentsOf(e, s)
          BY <1>1, <1>4 DEF SegmentsOf
        <4> QED BY <3>1, <4>1
      <3>2. CASE t # s
        <4>1. PICK g : g \in SegmentsOf(d, t)
          BY <1>2, <1>4, <2>1, <3>2 DEF HasSegments, Balanced
        <4>2. g \in SegmentsOf(e, t)
          BY <1>4, <4>1 DEF SegmentsOf
        <4> QED BY <4>2
      <3> QED BY <3>1, <3>2
    <2>2. ASSUME NEW g \in DOMAIN e.segs PROVE e.sess[e.segs[g].session].state # "none"
      <3>1. CASE g \in DOMAIN d.segs
        <4>1. d.segs[g].session \in Sessions /\ d.sess[d.segs[g].session].state # "none"
          BY <1>0, <3>1, BooksHold, SegmentHas DEF Balanced, HasSegments
        <4> QED BY <1>2, <1>11, <1>4, <3>1, <4>1
      <3>2. CASE g = n
        BY <1>1, <1>2, <1>11, <1>4, <3>2
      <3> QED BY <1>4, <3>1, <3>2
    <2> QED BY <2>1, <2>2 DEF HasSegments
  <1>8. SumsHold(e)
    BY <1>0, <1>2, <1>11, <1>4, <1>6, OthersHold DEF Balanced
  <1>10. PaidIsTheUnion(e)
    <2>1. CountedClosed(e) = CountedClosed(d) /\ \A h \in CountedClosed(d) : e.segs[h] = d.segs[h]
      BY <1>1, <1>4, <1>5 DEF CountedClosed
    <2> QED BY <1>0, <1>4, <2>1, SameUnion DEF Balanced
  <1> QED BY <1>2, <1>4, <1>5, <1>6, <1>7, <1>8, <1>10, <1>12 DEF Balanced, n, o

-----------------------------------------------------------------------------
(* What a machine's step gives, and what its transaction makes of the rows. *)

ClosedOut == [ended : Nat, credit : Nat, by : Bys \ {"open"}]
EndedOut  == [at : Nat, reason : Reasons]
Outcomes  == [activity : Perhaps(Nat), closed : Perhaps(ClosedOut), opened : Perhaps(Nat),
              ended : Perhaps(EndedOut)]
Steps     == [machine : Machines, out : Outcomes]

(* The larger and the smaller of two numbers.                              *)
LEMMA LaterEarlier ==
  ASSUME NEW a \in Int, NEW b \in Int
  PROVE  /\ Later(a, b) \in Int /\ Later(a, b) >= a /\ Later(a, b) >= b /\ Later(a, b) \in {a, b}
         /\ Earlier(a, b) \in Int /\ Earlier(a, b) <= a /\ Earlier(a, b) <= b /\ Earlier(a, b) \in {a, b}
  BY DEF Later, Earlier

(* Both are naturals when the two are.                                     *)
LEMMA LaterNat ==
  ASSUME NEW a \in Nat, NEW b \in Nat
  PROVE  Later(a, b) \in Nat /\ Earlier(a, b) \in Nat
  BY DEF Later, Earlier

(* The outcome of nothing.                                                 *)
LEMMA QuietIs ==
  /\ Quiet \in Outcomes
  /\ Quiet.activity = None /\ Quiet.closed = None /\ Quiet.opened = None /\ Quiet.ended = None
  BY SomeIn DEF Quiet, Outcomes

(* The close of a segment is one, with no negative credit.                 *)
LEMMA ClosingIn ==
  ASSUME NEW a \in Nat, NEW b \in Nat, NEW by \in Bys, by # "open"
  PROVE  Closing(a, b, by) \in Perhaps(ClosedOut)
  <1>1. Later(b - a, 0) \in Nat
    BY DEF Later
  <1>2. [ended |-> b, credit |-> Later(b - a, 0), by |-> by] \in ClosedOut
    BY <1>1 DEF ClosedOut
  <1> QED BY <1>2, SomeIn DEF Closing

(* The fields of a machine.                                                *)
LEMMA MachineIs ==
  ASSUME NEW m \in Machines
  PROVE  m.phase \in {"in", "between", "ended"} /\ m.started \in Nat /\ m.at \in Nat /\ m.mono \in Nat
  BY DEF Machines

(* The fields of the clocks.                                               *)
LEMMA MomentIs ==
  ASSUME NEW now \in Moments
  PROVE  now.mono \in Nat /\ now.wall \in Nat /\ now.ticked \in Perhaps(Nat)
  BY DEF Moments

(* The three constructors give machines.                                   *)
LEMMA MachinesIn ==
  /\ \A a, b, c \in Nat : InSegment(a, b, c) \in Machines
  /\ \A a, b \in Nat : Between(a, b) \in Machines
  /\ Ended \in Machines
  BY DEF InSegment, Between, Ended, Machines

(* The outcome of one kind alone.                                          *)
Active(at) == [Quiet EXCEPT !.activity = Some(at)]
Opening(at) == [Quiet EXCEPT !.opened = Some(at)]
ClosingOf(c) == [Quiet EXCEPT !.closed = c]
EndingOf(c, x) == [activity |-> None, closed |-> c, opened |-> None, ended |-> Some(x)]

(* The four shapes of an outcome that says something are outcomes.         *)
LEMMA OutcomeKinds ==
  /\ \A at \in Nat : Active(at) \in Outcomes
  /\ \A at \in Nat : Opening(at) \in Outcomes
  /\ \A c \in Perhaps(ClosedOut) : ClosingOf(c) \in Outcomes
  /\ \A c \in Perhaps(ClosedOut), x \in EndedOut : EndingOf(c, x) \in Outcomes
  <1>1. \A at \in Nat : Active(at) \in Outcomes
    BY QuietIs, SomeIn DEF Active, Outcomes
  <1>2. \A at \in Nat : Opening(at) \in Outcomes
    BY QuietIs, SomeIn DEF Opening, Outcomes
  <1>3. \A c \in Perhaps(ClosedOut) : ClosingOf(c) \in Outcomes
    BY QuietIs, SomeIn DEF ClosingOf, Outcomes
  <1>4. \A c \in Perhaps(ClosedOut), x \in EndedOut : EndingOf(c, x) \in Outcomes
    BY QuietIs, SomeIn DEF EndingOf, Outcomes
  <1> QED BY <1>1, <1>2, <1>3, <1>4

(* What each of them says, and what it leaves empty.                       *)
LEMMA OutcomeParts ==
  /\ \A at : /\ Active(at).activity = Some(at) /\ Active(at).closed = None
             /\ Active(at).opened = None /\ Active(at).ended = None
  /\ \A at : /\ Opening(at).activity = None /\ Opening(at).closed = None
             /\ Opening(at).opened = Some(at) /\ Opening(at).ended = None
  /\ \A c : /\ ClosingOf(c).activity = None /\ ClosingOf(c).closed = c
            /\ ClosingOf(c).opened = None /\ ClosingOf(c).ended = None
  /\ \A c, x : /\ EndingOf(c, x).activity = None /\ EndingOf(c, x).closed = c
               /\ EndingOf(c, x).opened = None /\ EndingOf(c, x).ended = Some(x)
  BY DEF Active, Opening, ClosingOf, EndingOf, Quiet

(* An ending as the machine writes it.                                     *)
LEMMA EndingIs ==
  /\ \A x : [Quiet EXCEPT !.ended = Some(x)] = EndingOf(None, x)
  /\ \A c, x : [Quiet EXCEPT !.closed = c, !.ended = Some(x)] = EndingOf(c, x)
  <1> SUFFICES ASSUME NEW c, NEW x
               PROVE  /\ [Quiet EXCEPT !.ended = Some(x)] = EndingOf(None, x)
                      /\ [Quiet EXCEPT !.closed = c, !.ended = Some(x)] = EndingOf(c, x)
    OBVIOUS
  <1>1. PICK y : y = Some(x)
    OBVIOUS
  <1>2. [Quiet EXCEPT !.ended = y] = [activity |-> None, closed |-> None, opened |-> None, ended |-> y]
    BY DEF Quiet
  <1>3. [Quiet EXCEPT !.closed = c, !.ended = y]
          = [activity |-> None, closed |-> c, opened |-> None, ended |-> y]
    <2>1. [Quiet EXCEPT !.closed = c] = [activity |-> None, closed |-> c, opened |-> None, ended |-> None]
      BY DEF Quiet
    <2>2. [Quiet EXCEPT !.closed = c, !.ended = y] = [[Quiet EXCEPT !.closed = c] EXCEPT !.ended = y]
      OBVIOUS
    <2>3. PICK q : q = [activity |-> None, closed |-> c, opened |-> None, ended |-> None]
      OBVIOUS
    <2>4. [q EXCEPT !.ended = y] = [activity |-> None, closed |-> c, opened |-> None, ended |-> y]
      BY <2>3
    <2> QED BY <2>1, <2>2, <2>3, <2>4
  <1> QED BY <1>1, <1>2, <1>3 DEF EndingOf

(* A step, case by case.                                                   *)
LEMMA ObserveCases ==
  ASSUME NEW m \in Machines, NEW wait \in BOOLEAN, NEW now \in Moments, NEW signal \in BOOLEAN,
         NEW step, step = Observe(m, wait, now, signal)
  PROVE  \/ /\ m.phase = "ended" \/ ~signal
            /\ m.phase = "in" => now.mono - m.mono < SegmentIdle
            /\ m.phase = "between" => wait \/ now.mono - m.mono < SessionIdle
            /\ step.machine = m /\ step.out = Quiet
         \/ /\ m.phase = "in" /\ signal
            /\ step.machine = InSegment(m.started, Later(now.wall, m.at), Later(now.mono, m.mono))
            /\ step.out = Active(Later(now.wall, m.at))
         \/ /\ m.phase = "between" /\ signal
            /\ step.machine = InSegment(now.wall, now.wall, now.mono)
            /\ step.out = Opening(now.wall)
         \/ /\ m.phase = "in" /\ ~signal /\ now.mono - m.mono >= SegmentIdle
            /\ step.machine = Between(IdleEnd(m, now), m.mono + SegmentIdle)
            /\ step.out = ClosingOf(Closing(m.started, IdleEnd(m, now), "idle"))
         \/ /\ m.phase = "between" /\ ~signal /\ ~wait /\ now.mono - m.mono >= SessionIdle
            /\ step.machine = Ended
            /\ step.out = EndingOf(None, [at |-> m.at, reason |-> "idle"])
  <1>0. m.phase \in {"in", "between", "ended"} /\ m.mono \in Nat /\ now.mono \in Nat
        /\ SegmentIdle \in Nat /\ SessionIdle \in Nat
    BY MachineIs, MomentIs, Consts
  <1>1. CASE m.phase = "ended"
    <2>1. step = [machine |-> m, out |-> Quiet]
      BY <1>1 DEF Observe
    <2> QED BY <1>1, <2>1
  <1>2. CASE m.phase = "in" /\ signal
    <2>1. step = [machine |-> InSegment(m.started, Later(now.wall, m.at), Later(now.mono, m.mono)),
                  out |-> Active(Later(now.wall, m.at))]
      BY <1>2 DEF Observe, ObserveSignal, Active
    <2>2. /\ step.machine = InSegment(m.started, Later(now.wall, m.at), Later(now.mono, m.mono))
          /\ step.out = Active(Later(now.wall, m.at))
      BY <2>1
    <2> QED BY <1>2, <2>2, Zenon
  <1>3. CASE m.phase = "between" /\ signal
    <2>1. step = [machine |-> InSegment(now.wall, now.wall, now.mono), out |-> Opening(now.wall)]
      BY <1>3 DEF Observe, ObserveSignal, Opening
    <2>2. /\ step.machine = InSegment(now.wall, now.wall, now.mono)
          /\ step.out = Opening(now.wall)
      BY <2>1
    <2> QED BY <1>3, <2>2, Zenon
  <1>4. CASE m.phase = "in" /\ ~signal
    <2>1. CASE now.mono - m.mono >= SegmentIdle
      <3>1. step = [machine |-> Between(IdleEnd(m, now), m.mono + SegmentIdle),
                    out |-> ClosingOf(Closing(m.started, IdleEnd(m, now), "idle"))]
        BY <1>4, <2>1 DEF Observe, ObserveNothing, ClosingOf
      <3> QED BY <1>4, <2>1, <3>1
    <2>2. CASE ~(now.mono - m.mono >= SegmentIdle)
      <3>1. step = [machine |-> m, out |-> Quiet]
        BY <1>4, <2>2 DEF Observe, ObserveNothing
      <3> QED BY <1>0, <1>4, <2>2, <3>1
    <2> QED BY <2>1, <2>2
  <1>5. CASE m.phase = "between" /\ ~signal
    <2>1. CASE ~wait /\ now.mono - m.mono >= SessionIdle
      <3>1. step = [machine |-> Ended, out |-> EndingOf(None, [at |-> m.at, reason |-> "idle"])]
        <4>1. step = [machine |-> Ended, out |-> [Quiet EXCEPT !.ended = Some([at |-> m.at, reason |-> "idle"])]]
          BY <1>5, <2>1 DEF Observe, ObserveNothing
        <4> QED BY <4>1, EndingIs
      <3> QED BY <1>5, <2>1, <3>1
    <2>2. CASE ~(~wait /\ now.mono - m.mono >= SessionIdle)
      <3>1. step = [machine |-> m, out |-> Quiet]
        BY <1>5, <2>2 DEF Observe, ObserveNothing
      <3> QED BY <1>0, <1>5, <2>2, <3>1
    <2> QED BY <2>1, <2>2
  <1> QED BY <1>0, <1>1, <1>2, <1>3, <1>4, <1>5

(* End either finds the machine ended or ends it.                          *)
LEMMA EndCases ==
  ASSUME NEW m \in Machines, NEW now, NEW reason, NEW step, step = End(m, now, reason)
  PROVE  \/ m.phase = "ended" /\ step.machine = m /\ step.out = Quiet
         \/ /\ m.phase # "ended" /\ step.machine = Ended
            /\ step.out = EndingOf(ClosedByEnd(m, now, reason), [at |-> now.wall, reason |-> reason])
  <1>1. CASE m.phase = "ended"
    BY <1>1 DEF End
  <1>2. CASE m.phase # "ended"
    <2>1. step = [machine |-> Ended,
                  out |-> EndingOf(ClosedByEnd(m, now, reason), [at |-> now.wall, reason |-> reason])]
      BY <1>2, EndingIs DEF End, EndWith
    <2> QED BY <1>2, <2>1
  <1> QED BY <1>1, <1>2

(* The end an idle segment gets is a wall time.                            *)
LEMMA IdleEndNat ==
  ASSUME NEW m \in Machines, NEW now \in Moments
  PROVE  IdleEnd(m, now) \in Nat
  <1>0. m.at + SegmentIdle \in Nat /\ now.wall \in Nat
    BY MachineIs, MomentIs, Consts
  <1>1. Earlier(m.at + SegmentIdle, now.wall) \in Nat
    BY <1>0, LaterNat
  <1> QED BY <1>1, MachineIs, LaterNat DEF IdleEnd

(* observe gives a machine and an outcome.                                 *)
LEMMA ObserveTyped ==
  ASSUME NEW m \in Machines, NEW wait \in BOOLEAN, NEW now \in Moments, NEW signal \in BOOLEAN,
         NEW step, step = Observe(m, wait, now, signal)
  PROVE  step.machine \in Machines /\ step.out \in Outcomes
  <1>1. /\ m.phase \in {"in", "between", "ended"} /\ m.started \in Nat /\ m.at \in Nat /\ m.mono \in Nat
        /\ now.mono \in Nat /\ now.wall \in Nat /\ SegmentIdle \in Nat
    BY MachineIs, MomentIs, Consts
  <1>2. Later(now.wall, m.at) \in Nat /\ Later(now.mono, m.mono) \in Nat /\ IdleEnd(m, now) \in Nat
    BY <1>1, LaterNat, IdleEndNat
  <1>3. CASE step.machine = m /\ step.out = Quiet
    BY <1>3, QuietIs
  <1>4. CASE /\ step.machine = InSegment(m.started, Later(now.wall, m.at), Later(now.mono, m.mono))
             /\ step.out = Active(Later(now.wall, m.at))
    BY <1>1, <1>2, <1>4, MachinesIn, OutcomeKinds
  <1>5. CASE step.machine = InSegment(now.wall, now.wall, now.mono) /\ step.out = Opening(now.wall)
    BY <1>1, <1>5, MachinesIn, OutcomeKinds
  <1>6. CASE /\ step.machine = Between(IdleEnd(m, now), m.mono + SegmentIdle)
             /\ step.out = ClosingOf(Closing(m.started, IdleEnd(m, now), "idle"))
    <2>1. Closing(m.started, IdleEnd(m, now), "idle") \in Perhaps(ClosedOut)
      BY <1>1, <1>2, ClosingIn DEF Bys
    <2>2. m.mono + SegmentIdle \in Nat
      BY <1>1
    <2> QED BY <1>2, <1>6, <2>1, <2>2, MachinesIn, OutcomeKinds
  <1>7. CASE step.machine = Ended /\ step.out = EndingOf(None, [at |-> m.at, reason |-> "idle"])
    <2>1. [at |-> m.at, reason |-> "idle"] \in EndedOut
      BY <1>1 DEF EndedOut, Reasons
    <2> QED BY <1>7, <2>1, MachinesIn, OutcomeKinds, SomeIn
  <1> QED BY <1>3, <1>4, <1>5, <1>6, <1>7, ObserveCases

(* The segment an end closes, if any, is closed as rows are.               *)
LEMMA ClosedByEndIn ==
  ASSUME NEW m \in Machines, NEW now \in Moments, NEW reason
  PROVE  ClosedByEnd(m, now, reason) \in Perhaps(ClosedOut)
  <1>1. m.started \in Nat /\ SeenEnd(m, now) \in Nat
    BY MachineIs, MomentIs, LaterNat DEF SeenEnd
  <1>2. CASE m.phase = "in"
    <2> DEFINE by == IF reason = "app_exit" THEN "app_exit" ELSE "session_end"
    <2>1. by \in Bys /\ by # "open"
      BY DEF Bys
    <2>2. ClosedByEnd(m, now, reason) = Closing(m.started, SeenEnd(m, now), by)
      BY <1>2 DEF ClosedByEnd
    <2> HIDE DEF by
    <2> QED BY <1>1, <2>1, <2>2, ClosingIn
  <1>3. CASE m.phase # "in"
    BY <1>3, SomeIn DEF ClosedByEnd
  <1> QED BY <1>2, <1>3

(* end gives a machine and an outcome.                                     *)
LEMMA EndTyped ==
  ASSUME NEW m \in Machines, NEW now \in Moments, NEW reason \in Reasons,
         NEW step, step = End(m, now, reason)
  PROVE  step.machine \in Machines /\ step.out \in Outcomes
  <1>1. [at |-> now.wall, reason |-> reason] \in EndedOut
    BY MomentIs DEF EndedOut
  <1>2. EndingOf(ClosedByEnd(m, now, reason), [at |-> now.wall, reason |-> reason]) \in Outcomes
    BY <1>1, ClosedByEndIn, OutcomeKinds
  <1> QED BY <1>2, EndCases, MachinesIn, QuietIs

(* The segment g is one that the session s may write: none, or an open one of its own. *)
Writable(d, s, g) == g # 0 => g \in DOMAIN d.segs /\ d.segs[g].session = s /\ d.segs[g].by = "open"

(* The first quarter of a transaction: the activity.                       *)
LEMMA WithActivityKeeps ==
  ASSUME NEW d, Balanced(d), NEW s \in Sessions, d.sess[s].state = "open", NEW g, Writable(d, s, g),
         NEW out \in Outcomes, NEW e, e = WithActivity(d, g, out)
  PROVE  /\ Balanced(e) /\ WritesFor(s, d, e) /\ e.sess = d.sess /\ Writable(e, s, g)
         /\ DOMAIN e.segs = DOMAIN d.segs /\ Len(e.segs) = Len(d.segs)
  <1>1. CASE out.activity # None /\ g # 0
    <2>1. out.activity[1] \in Nat
      BY <1>1, PerhapsIs DEF Outcomes
    <2>2. e = MarkActivity(d, g, out.activity[1])
      BY <1>1 DEF WithActivity
    <2>3. g \in DOMAIN d.segs /\ d.segs[g].session = s /\ d.segs[g].by = "open"
      BY <1>1 DEF Writable
    <2>7. d.sess[d.segs[g].session].state = "open"
      BY <2>3
    <2>8. /\ Balanced(e) /\ WritesFor(d.segs[g].session, d, e) /\ e.sess = d.sess
          /\ DOMAIN e.segs = DOMAIN d.segs /\ Len(e.segs) = Len(d.segs)
          /\ e.segs[g] = Marked(d.segs[g], out.activity[1])
      BY <2>1, <2>2, <2>3, <2>7, MarkActivityKeeps
    <2>4. /\ Balanced(e) /\ WritesFor(s, d, e) /\ e.sess = d.sess
          /\ DOMAIN e.segs = DOMAIN d.segs /\ Len(e.segs) = Len(d.segs)
          /\ e.segs[g] = Marked(d.segs[g], out.activity[1])
      BY <2>3, <2>8
    <2>5. d.segs[g] \in Segment
      BY <2>3, BooksHold DEF Balanced
    <2>6. e.segs[g].session = s /\ e.segs[g].by = "open"
      BY <2>3, <2>4, <2>5 DEF Segment, Marked
    <2> QED BY <2>3, <2>4, <2>6 DEF Writable
  <1>2. CASE ~(out.activity # None /\ g # 0)
    BY <1>2, WritesNothing DEF WithActivity
  <1> QED BY <1>1, <1>2

(* The second: the close of the segment.                                   *)
LEMMA WithCloseKeeps ==
  ASSUME NEW d, Balanced(d), NEW s \in Sessions, d.sess[s].state = "open", NEW g, Writable(d, s, g),
         NEW out \in Outcomes, NEW e, e = WithClose(d, g, out)
  PROVE  /\ Balanced(e) /\ WritesFor(s, d, e) /\ e.sess = d.sess
         /\ out.closed = None => Writable(e, s, g)
         /\ DOMAIN e.segs = DOMAIN d.segs /\ Len(e.segs) = Len(d.segs)
  <1>1. CASE out.closed # None /\ g # 0
    <2>1. out.closed[1] \in ClosedOut
      BY <1>1, PerhapsIs DEF Outcomes
    <2>2. PICK c : c = out.closed[1]
      OBVIOUS
    <2>3. c.ended \in Nat /\ c.credit \in Nat /\ c.by \in Bys /\ c.by # "open"
      BY <2>1, <2>2 DEF ClosedOut
    <2>4. e = CreditSegmentClose(CloseSegment(d, g, c), g)
      BY <1>1, <2>2 DEF WithClose
    <2>5. g \in DOMAIN d.segs /\ d.segs[g].session = s /\ d.segs[g].by = "open"
      BY <1>1 DEF Writable
    <2>7. d.sess[d.segs[g].session].state = "open"
      BY <2>5
    <2>8. /\ Balanced(e) /\ WritesFor(d.segs[g].session, d, e) /\ e.sess = d.sess
          /\ DOMAIN e.segs = DOMAIN d.segs /\ Len(e.segs) = Len(d.segs)
      BY <2>3, <2>4, <2>5, <2>7, CloseSegmentKeeps
    <2>6. /\ Balanced(e) /\ WritesFor(s, d, e) /\ e.sess = d.sess
          /\ DOMAIN e.segs = DOMAIN d.segs /\ Len(e.segs) = Len(d.segs)
      BY <2>5, <2>8
    <2> QED BY <1>1, <2>6
  <1>2. CASE ~(out.closed # None /\ g # 0)
    BY <1>2, WritesNothing DEF WithClose
  <1> QED BY <1>1, <1>2

Signalled(s, at) ==
  [session |-> s, started |-> at, ended |-> at, credit |-> 0, by |-> "open", signalled |-> TRUE]

(* The third: a new segment.                                               *)
LEMMA WithOpenKeeps ==
  ASSUME NEW d, Balanced(d), NEW s \in Sessions, d.sess[s].state = "open",
         NEW out \in Outcomes, NEW e, e = WithOpen(d, s, out)
  PROVE  /\ Balanced(e) /\ WritesFor(s, d, e) /\ e.sess = d.sess
         /\ \A g : Writable(d, s, g) => Writable(e, s, g)
         /\ out.opened # None => /\ Writable(e, s, Len(e.segs)) /\ Len(e.segs) = Len(d.segs) + 1
                                 /\ e.segs[Len(e.segs)] = Signalled(s, out.opened[1])
         /\ out.opened = None => e = d
  <1>1. CASE out.opened # None
    <2>1. out.opened[1] \in Nat
      BY <1>1, PerhapsIs DEF Outcomes
    <2>2. PICK yes : yes = TRUE
      OBVIOUS
    <2>3. e = OpenSegment(d, s, out.opened[1], yes)
      BY <1>1, <2>2 DEF WithOpen, OpenSegment
    <2>4. yes \in BOOLEAN
      BY <2>2
    <2>5. /\ Balanced(e) /\ WritesFor(s, d, e) /\ e.sess = d.sess
          /\ Len(e.segs) = Len(d.segs) + 1 /\ DOMAIN e.segs = DOMAIN d.segs \cup {Len(e.segs)}
          /\ e.segs[Len(e.segs)] = Fresh(s, out.opened[1], yes)
          /\ \A h \in DOMAIN d.segs : e.segs[h] = d.segs[h]
      BY <2>1, <2>3, <2>4, OpenSegmentKeeps
    <2>6. \A g : Writable(d, s, g) => Writable(e, s, g)
      BY <2>5 DEF Writable
    <2>7. e.segs[Len(e.segs)].session = s /\ e.segs[Len(e.segs)].by = "open"
      BY <2>5 DEF Fresh
    <2>8. Writable(e, s, Len(e.segs))
      BY <2>5, <2>7 DEF Writable
    <2>9. Fresh(s, out.opened[1], yes) = Signalled(s, out.opened[1])
      BY <2>2 DEF Fresh, Signalled
    <2>10. e.segs[Len(e.segs)] = Signalled(s, out.opened[1])
      BY <2>5, <2>9, Zenon
    <2> QED BY <1>1, <2>5, <2>6, <2>8, <2>10, Zenon
  <1>2. CASE out.opened = None
    BY <1>2, WritesNothing DEF WithOpen
  <1> QED BY <1>1, <1>2

(* The last: the end of the session.                                       *)
LEMMA WithEndKeeps ==
  ASSUME NEW d, Balanced(d), NEW s \in Sessions, d.sess[s].state = "open",
         NEW out \in Outcomes, NEW e, e = WithEnd(d, s, out)
  PROVE  /\ Balanced(e) /\ WritesFor(s, d, e) /\ e.segs = d.segs
         /\ out.ended = None => e = d
         /\ out.ended # None => e.sess[s] = Ending(d, s, out.ended[1].at, out.ended[1].reason)
  <1>1. CASE out.ended # None
    <2>1. out.ended[1] \in EndedOut
      BY <1>1, PerhapsIs DEF Outcomes
    <2>2. out.ended[1].at \in Nat /\ out.ended[1].reason \in Reasons
      BY <2>1 DEF EndedOut
    <2>3. e = CloseSession(d, s, out.ended[1].at, out.ended[1].reason)
      BY <1>1 DEF WithEnd
    <2> QED BY <1>1, <2>2, <2>3, CloseSessionKeeps
  <1>2. CASE out.ended = None
    BY <1>2, WritesNothing DEF WithEnd
  <1> QED BY <1>1, <1>2

(* One transaction of the session s keeps the books, and leaves it a segment it may write. *)
LEMMA WrittenKeeps ==
  ASSUME NEW d, Balanced(d), NEW s \in Sessions, d.sess[s].state = "open", NEW g, Writable(d, s, g),
         NEW out \in Outcomes, NEW e, e = Written(d, s, g, out)
  PROVE  /\ Balanced(e) /\ WritesFor(s, d, e) /\ Writable(e, s, NextSegment(e, g, out))
         /\ out.ended = None => e.sess = d.sess
         /\ out.ended # None => e.sess[s].state = "closed"
  <1> DEFINE a == WithActivity(d, g, out)
             b == WithClose(a, g, out)
             c == WithOpen(b, s, out)
  <1>1. /\ Balanced(a) /\ WritesFor(s, d, a) /\ a.sess = d.sess /\ Writable(a, s, g)
    BY WithActivityKeeps
  <1>2. /\ Balanced(b) /\ WritesFor(s, a, b) /\ b.sess = d.sess
        /\ out.closed = None => Writable(b, s, g)
    <2> HIDE DEF a
    <2> QED BY <1>1, WithCloseKeeps
  <1>3. /\ Balanced(c) /\ WritesFor(s, b, c) /\ c.sess = d.sess
        /\ \A h : Writable(b, s, h) => Writable(c, s, h)
        /\ out.opened # None => Writable(c, s, Len(c.segs))
    <2> HIDE DEF b
    <2>1. b.sess[s].state = "open"
      BY <1>2
    <2>2. /\ Balanced(c) /\ WritesFor(s, b, c) /\ c.sess = b.sess
          /\ \A h : Writable(b, s, h) => Writable(c, s, h)
          /\ out.opened # None => Writable(c, s, Len(c.segs))
      BY <1>2, <2>1, WithOpenKeeps
    <2> QED BY <1>2, <2>2
  <1>4. e = WithEnd(c, s, out)
    BY DEF Written
  <1> HIDE DEF a, b, c
  <1>5. /\ Balanced(e) /\ WritesFor(s, c, e) /\ e.segs = c.segs
        /\ out.ended = None => e = c
        /\ out.ended # None => e.sess[s] = Ending(c, s, out.ended[1].at, out.ended[1].reason)
    BY <1>3, <1>4, WithEndKeeps
  <1>6. WritesFor(s, d, e)
    BY <1>1, <1>2, <1>3, <1>5, WritesCompose
  <1>7. Writable(e, s, NextSegment(e, g, out))
    <2>1. \A h : Writable(c, s, h) => Writable(e, s, h)
      BY <1>5 DEF Writable
    <2>2. CASE out.opened # None
      <3>1. Writable(e, s, Len(e.segs))
        BY <1>3, <1>5, <2>1, <2>2
      <3> QED BY <2>2, <3>1 DEF NextSegment
    <2>3. CASE out.opened = None /\ out.closed # None
      BY <2>3 DEF NextSegment, Writable
    <2>4. CASE out.opened = None /\ out.closed = None
      BY <1>2, <1>3, <2>1, <2>4 DEF NextSegment
    <2> QED BY <2>2, <2>3, <2>4
  <1>8. out.ended # None => e.sess[s].state = "closed"
    BY <1>5 DEF Ending
  <1> QED BY <1>3, <1>5, <1>6, <1>7, <1>8

-----------------------------------------------------------------------------
(* The recovery keeps the books, and the segments up to their ends.        *)

Kept(d, e) ==
  /\ DOMAIN e.segs = DOMAIN d.segs /\ Len(e.segs) = Len(d.segs)
  /\ \A g \in DOMAIN d.segs : /\ e.segs[g].session = d.segs[g].session
                              /\ e.segs[g].started = d.segs[g].started
                              /\ e.segs[g].credit = d.segs[g].credit
  /\ EndsWithCredit(d) => EndsWithCredit(e)

(* Rows kept over two recoveries are kept over both.                       *)
LEMMA KeptCompose ==
  ASSUME NEW d, NEW e, NEW f, Kept(d, e), Kept(e, f)
  PROVE  Kept(d, f)
  BY DEF Kept

(* And over none.                                                          *)
LEMMA KeptItself ==
  ASSUME NEW d
  PROVE  Kept(d, d)
  BY DEF Kept

(* A segment closed at its watermark is kept.                              *)
LEMMA WatermarkKept ==
  ASSUME NEW d, Balanced(d), NEW g \in DOMAIN d.segs, d.segs[g].by = "open", NEW e,
         DOMAIN e.segs = DOMAIN d.segs, Len(e.segs) = Len(d.segs), e.segs[g] = AtWatermark(d.segs[g]),
         \A h \in DOMAIN d.segs : h # g => e.segs[h] = d.segs[h]
  PROVE  Kept(d, e)
  <1>0. d.segs[g] \in Segment
    BY BooksHold DEF Balanced
  <1>1. PICK q : q = d.segs[g]
    OBVIOUS
  <1>2. PICK r : r = e.segs[g]
    OBVIOUS
  <1>3. r.session = q.session /\ r.started = q.started /\ r.credit = q.credit
        /\ r.ended = q.started + q.credit /\ r.by = "crash"
    BY <1>0, <1>1, <1>2 DEF AtWatermark, Segment
  <1>4. ASSUME EndsWithCredit(d) PROVE EndsWithCredit(e)
    <2> SUFFICES ASSUME NEW h \in DOMAIN d.segs
                 PROVE  e.segs[h].ended = e.segs[h].started
                          + IF e.segs[h].by = "open" THEN 0 ELSE e.segs[h].credit
      BY DEF EndsWithCredit
    <2>1. CASE h = g
      BY <1>1, <1>2, <1>3, <2>1
    <2>2. CASE h # g
      BY <1>4, <2>2 DEF EndsWithCredit
    <2> QED BY <2>1, <2>2
  <1> QED BY <1>1, <1>2, <1>3, <1>4 DEF Kept

(* The segments of an orphan, one after another: the books balance after each. *)
LEMMA CloseSegmentsKeeps ==
  ASSUME NEW d, Balanced(d), NEW s \in Sessions, d.sess[s].state = "open",
         NEW e, e = CloseSegments(d, s)
  PROVE  Balanced(e) /\ WritesFor(s, d, e) /\ e.sess = d.sess /\ Kept(d, e)
  <1>0. d \in Books /\ Len(d.segs) \in Nat /\ DOMAIN d.segs = 1 .. Len(d.segs)
    BY BooksHold DEF Balanced
  <1>1. PICK h : /\ h[0] = d
                 /\ \A i \in 1 .. Len(d.segs) :
                      h[i] = IF i \in OpenSegments(d, s) THEN CloseAtWatermark(h[i - 1], i) ELSE h[i - 1]
                 /\ e = h[Len(d.segs)]
    BY <1>0, SegmentsInTurn
  <1> DEFINE Good(i) == /\ Balanced(h[i]) /\ WritesFor(s, d, h[i]) /\ h[i].sess = d.sess /\ Kept(d, h[i])
                        /\ \A g \in DOMAIN d.segs : g > i => h[i].segs[g] = d.segs[g]
             T == {i \in Nat : i <= Len(d.segs) => Good(i)}
  <1>2. 0 \in T
    BY <1>1, WritesNothing, KeptItself
  <1>3. ASSUME NEW i \in Nat, i \in T PROVE i + 1 \in T
    <2> SUFFICES ASSUME i + 1 <= Len(d.segs) PROVE Good(i + 1)
      OBVIOUS
    <2> DEFINE a == h[i]
               b == h[i + 1]
               g == i + 1
    <2>1. Good(i)
      BY <1>0, <1>3
    <2>2. g \in 1 .. Len(d.segs) /\ g \in DOMAIN d.segs /\ g > i /\ g \in Nat
      BY <1>0
    <2>3. b = IF g \in OpenSegments(d, s) THEN CloseAtWatermark(a, g) ELSE a
      BY <1>1, <2>2
    <2>4. CASE g \in OpenSegments(d, s)
      <3>1. d.segs[g].session = s /\ d.segs[g].by = "open"
        BY <2>4 DEF OpenSegments, SegmentsOf
      <3>2. g \in DOMAIN a.segs /\ a.segs[g] = d.segs[g]
        BY <2>1, <2>2 DEF Kept
      <3>3. a.segs[g].by = "open" /\ a.segs[g].session = s /\ a.sess[a.segs[g].session].state = "open"
        BY <2>1, <3>1, <3>2
      <3>4. Balanced(a) /\ b = CloseAtWatermark(a, g)
        BY <2>1, <2>3, <2>4
      <3> HIDE DEF a, b, g
      <3>5. /\ Balanced(b) /\ WritesFor(a.segs[g].session, a, b) /\ b.sess = a.sess
            /\ DOMAIN b.segs = DOMAIN a.segs /\ Len(b.segs) = Len(a.segs)
            /\ b.segs[g] = AtWatermark(a.segs[g])
            /\ \A k \in DOMAIN a.segs : k # g => b.segs[k] = a.segs[k]
        BY <3>2, <3>3, <3>4, CloseAtWatermarkKeeps
      <3>6. Kept(a, b)
        BY <3>2, <3>3, <3>4, <3>5, WatermarkKept
      <3>7. WritesFor(s, a, b)
        BY <3>3, <3>5
      <3>8. WritesFor(s, d, b) /\ Kept(d, b) /\ b.sess = d.sess
        BY <2>1, <3>5, <3>6, <3>7, WritesCompose, KeptCompose DEF a
      <3>9. ASSUME NEW k \in DOMAIN d.segs, k > g PROVE b.segs[k] = d.segs[k]
        <4>1. k \in DOMAIN a.segs /\ k # g /\ k > i /\ a.segs[k] = d.segs[k]
          BY <1>0, <2>1, <2>2, <3>9 DEF Kept, a, g
        <4> QED BY <3>5, <4>1
      <3> QED BY <3>5, <3>8, <3>9 DEF b, g
    <2>5. CASE g \notin OpenSegments(d, s)
      BY <1>0, <2>1, <2>3, <2>5
    <2> QED BY <2>4, <2>5
  <1>4. Nat \subseteq T
    <2> HIDE DEF T
    <2> QED BY <1>2, <1>3, AllNumbers
  <1> QED BY <1>0, <1>1, <1>4

(* There is a latest end.                                                  *)
LEMMA LatestEndIs ==
  ASSUME NEW d \in Books, NEW s, SegmentsOf(d, s) # {}
  PROVE  LatestEnd(d, s) \in Nat /\ \E g \in SegmentsOf(d, s) : LatestEnd(d, s) = d.segs[g].ended
  <1>0. Len(d.segs) \in Nat /\ SegmentsOf(d, s) \subseteq 1 .. Len(d.segs)
        /\ \A g \in SegmentsOf(d, s) : d.segs[g].ended \in Nat
    BY BooksHold, SegmentHas DEF SegmentsOf
  <1> DEFINE G == SegmentsOf(d, s)
             Above(b, k) == \A g \in G : g <= k => d.segs[g].ended <= b
             T == {k \in Nat : \E b \in Nat : Above(b, k)}
             B == {b \in Nat : \A g \in G : d.segs[g].ended <= b}
  <1> HIDE DEF G
  <1>1. 0 \in T
    BY <1>0 DEF G
  <1>2. ASSUME NEW k \in Nat, k \in T PROVE k + 1 \in T
    <2>1. PICK b \in Nat : Above(b, k)
      BY <1>2
    <2>2. CASE k + 1 \in G
      <3> DEFINE c == Later(b, d.segs[k + 1].ended)
      <3>1. c \in Nat /\ c >= b /\ c >= d.segs[k + 1].ended
        BY <1>0, <2>2 DEF Later, G
      <3> HIDE DEF c
      <3>2. Above(c, k + 1)
        <4> SUFFICES ASSUME NEW g \in G, g <= k + 1 PROVE d.segs[g].ended <= c
          OBVIOUS
        <4>1. g = k + 1 \/ g <= k
          BY <1>0 DEF G
        <4> QED BY <1>0, <2>1, <3>1, <4>1 DEF G
      <3> QED BY <3>1, <3>2
    <2>3. CASE k + 1 \notin G
      <3>1. Above(b, k + 1)
        <4> SUFFICES ASSUME NEW g \in G, g <= k + 1 PROVE d.segs[g].ended <= b
          OBVIOUS
        <4>1. g <= k
          BY <1>0, <2>3 DEF G
        <4> QED BY <2>1, <4>1
      <3> QED BY <3>1
    <2> QED BY <2>2, <2>3
  <1>3. Nat \subseteq T
    <2> HIDE DEF T
    <2> QED BY <1>1, <1>2, AllNumbers
  <1>4. B # {}
    <2>1. PICK b \in Nat : Above(b, Len(d.segs))
      BY <1>0, <1>3
    <2>2. b \in B
      BY <1>0, <2>1 DEF G
    <2> QED BY <2>2
  <1>5. PICK m \in B : \A b \in B : m <= b
    <2> HIDE DEF B
    <2>1. B \subseteq Nat
      BY DEF B
    <2> QED BY <1>4, <2>1, NatMin
  <1>6. \E g \in G : d.segs[g].ended = m
    <2> SUFFICES ASSUME \A g \in G : d.segs[g].ended # m PROVE FALSE
      OBVIOUS
    <2>1. \A g \in G : d.segs[g].ended < m
      BY <1>0, <1>5 DEF G
    <2>2. m > 0
      BY <1>0, <2>1 DEF G
    <2>3. m - 1 \in B
      BY <1>0, <2>1, <2>2 DEF G
    <2> QED BY <1>5, <2>3
  <1>7. PICK g \in G : d.segs[g].ended = m
    BY <1>6
  <1>8. m \in {d.segs[h].ended : h \in G} /\ \A h \in G : d.segs[h].ended <= m
    BY <1>5, <1>7
  <1>9. LatestEnd(d, s) \in {d.segs[h].ended : h \in G}
    BY <1>8 DEF LatestEnd, G
  <1> QED BY <1>0, <1>9 DEF G

Orphaned(d, e, s) ==
  /\ e.sess[s].state = "closed" /\ e.sess[s].reason = "orphaned" /\ e.sess[s].started = d.sess[s].started
  /\ \E g \in DOMAIN e.segs :
       e.segs[g].session = s /\ e.sess[s].ended = Later(e.segs[g].ended, e.sess[s].started)

(* One orphan: its segments, then the session at the latest of their ends. *)
LEMMA CloseOrphanKeeps ==
  ASSUME NEW d, Balanced(d), NEW s \in Sessions, d.sess[s].state = "open",
         NEW e, e = CloseOrphan(d, s)
  PROVE  Balanced(e) /\ WritesFor(s, d, e) /\ Kept(d, e) /\ Orphaned(d, e, s)
  <1> DEFINE c == CloseSegments(d, s)
             at == LatestEnd(c, s)
  <1>1. Balanced(c) /\ WritesFor(s, d, c) /\ c.sess = d.sess /\ Kept(d, c)
    BY CloseSegmentsKeeps
  <1>2. e = CloseSession(c, s, at, "orphaned")
    BY DEF CloseOrphan
  <1> HIDE DEF c
  <1>3. c \in Books /\ SegmentsOf(c, s) # {} /\ c.sess[s].state = "open"
    BY <1>1 DEF Balanced, HasSegments
  <1>4. at \in Nat /\ \E g \in SegmentsOf(c, s) : at = c.segs[g].ended
    BY <1>3, LatestEndIs
  <1> HIDE DEF at
  <1>5. "orphaned" \in Reasons
    BY DEF Reasons
  <1>6. /\ Balanced(e) /\ WritesFor(s, c, e) /\ e.segs = c.segs
        /\ e.sess[s] = Ending(c, s, at, "orphaned")
    BY <1>1, <1>2, <1>3, <1>4, <1>5, CloseSessionKeeps
  <1>7. WritesFor(s, d, e)
    BY <1>1, <1>6, WritesCompose
  <1>8. Kept(d, e)
    BY <1>1, <1>6 DEF Kept, EndsWithCredit
  <1>9. Orphaned(d, e, s)
    <2>1. e.sess[s].state = "closed" /\ e.sess[s].reason = "orphaned"
          /\ e.sess[s].started = d.sess[s].started /\ e.sess[s].ended = Later(at, e.sess[s].started)
      BY <1>1, <1>6 DEF Ending
    <2>2. PICK g \in SegmentsOf(c, s) : at = c.segs[g].ended
      BY <1>4
    <2> QED BY <1>6, <2>1, <2>2 DEF Orphaned, SegmentsOf
  <1> QED BY <1>6, <1>7, <1>8, <1>9

(* close_orphans: no open session remains, and no closed one is touched.   *)
LEMMA CloseOrphansKeeps ==
  ASSUME NEW d, Balanced(d), NEW e, e = CloseOrphans(d)
  PROVE  /\ Balanced(e) /\ Kept(d, e)
         /\ \A s \in Sessions : d.sess[s].state # "open" => e.sess[s] = d.sess[s]
         /\ \A s \in Sessions : d.sess[s].state = "open" => Orphaned(d, e, s)
  <1>1. PICK h : /\ h[0] = d
                 /\ \A i \in 1 .. MaxSessions :
                      h[i] = IF i \in OpenSessions(d) THEN CloseOrphan(h[i - 1], i) ELSE h[i - 1]
                 /\ e = h[MaxSessions]
    BY Consts, OrphansInTurn
  <1> DEFINE Good(i) ==
               /\ Balanced(h[i]) /\ Kept(d, h[i])
               /\ \A s \in Sessions : s > i \/ s \notin OpenSessions(d) => h[i].sess[s] = d.sess[s]
               /\ \A s \in Sessions : s <= i /\ s \in OpenSessions(d) => Orphaned(d, h[i], s)
             T == {i \in Nat : i <= MaxSessions => Good(i)}
  <1>2. 0 \in T
    BY <1>1, KeptItself DEF Sessions
  <1>3. ASSUME NEW i \in Nat, i \in T PROVE i + 1 \in T
    <2> SUFFICES ASSUME i + 1 <= MaxSessions PROVE Good(i + 1)
      OBVIOUS
    <2> DEFINE a == h[i]
               b == h[i + 1]
               k == i + 1
    <2>1. Good(i)
      BY <1>3, Consts
    <2>2. k \in 1 .. MaxSessions /\ k \in Sessions /\ k > i /\ k \in Nat
      BY Consts DEF Sessions
    <2>3. b = IF k \in OpenSessions(d) THEN CloseOrphan(a, k) ELSE a
      BY <1>1, <2>2
    <2>4. \A s \in Sessions : s \in Nat /\ (s > k => s > i) /\ (s <= k => s <= i \/ s = k)
      BY Consts DEF Sessions
    <2>5. CASE k \in OpenSessions(d)
      <3>1. a.sess[k] = d.sess[k] /\ a.sess[k].state = "open" /\ Balanced(a)
        BY <2>1, <2>2, <2>5 DEF OpenSessions
      <3>2. b = CloseOrphan(a, k)
        BY <2>3, <2>5
      <3> HIDE DEF a, b, k
      <3>3. Balanced(b) /\ WritesFor(k, a, b) /\ Kept(a, b) /\ Orphaned(a, b, k)
        BY <2>2, <3>1, <3>2, CloseOrphanKeeps
      <3>4. Kept(d, b)
        BY <2>1, <3>3, KeptCompose DEF a
      <3>5. ASSUME NEW s \in Sessions, s > k \/ s \notin OpenSessions(d)
            PROVE  b.sess[s] = d.sess[s]
        <4>1. s # k /\ (s > i \/ s \notin OpenSessions(d))
          BY <2>2, <2>4, <2>5, <3>5
        <4> QED BY <2>1, <3>3, <4>1 DEF WritesFor, a
      <3>6. ASSUME NEW s \in Sessions, s <= k, s \in OpenSessions(d)
            PROVE  Orphaned(d, b, s)
        <4>1. CASE s = k
          BY <3>1, <3>3, <4>1 DEF Orphaned
        <4>2. CASE s # k
          <5>1. Orphaned(d, a, s) /\ b.sess[s] = a.sess[s]
            BY <2>1, <2>4, <3>3, <3>6, <4>2 DEF WritesFor, a
          <5>2. PICK g \in DOMAIN a.segs :
                  a.segs[g].session = s /\ a.sess[s].ended = Later(a.segs[g].ended, a.sess[s].started)
            BY <5>1 DEF Orphaned
          <5>3. g \in DOMAIN b.segs /\ b.segs[g] = a.segs[g]
            BY <3>3, <4>2, <5>2 DEF WritesFor
          <5> QED BY <5>1, <5>2, <5>3 DEF Orphaned
        <4> QED BY <4>1, <4>2
      <3> QED BY <3>3, <3>4, <3>5, <3>6 DEF b, k
    <2>6. CASE k \notin OpenSessions(d)
      <3>1. b = a
        BY <2>3, <2>6
      <3>2. ASSUME NEW s \in Sessions, s > k \/ s \notin OpenSessions(d) PROVE b.sess[s] = d.sess[s]
        BY <2>1, <2>4, <3>1, <3>2
      <3>3. ASSUME NEW s \in Sessions, s <= k, s \in OpenSessions(d) PROVE Orphaned(d, b, s)
        BY <2>1, <2>4, <2>6, <3>1, <3>3
      <3> HIDE DEF Good
      <3>4. Balanced(b) /\ Kept(d, b)
        BY <2>1, <3>1 DEF Good
      <3> QED BY <3>2, <3>3, <3>4 DEF Good
    <2> QED BY <2>5, <2>6
  <1>4. Nat \subseteq T
    <2> HIDE DEF T
    <2> QED BY <1>2, <1>3, AllNumbers
  <1>5. Good(MaxSessions)
    BY <1>4, Consts
  <1> HIDE DEF Good
  <1>6. /\ Balanced(e) /\ Kept(d, e)
        /\ \A s \in Sessions : s > MaxSessions \/ s \notin OpenSessions(d) => e.sess[s] = d.sess[s]
        /\ \A s \in Sessions : s <= MaxSessions /\ s \in OpenSessions(d) => Orphaned(d, e, s)
    BY <1>1, <1>5 DEF Good
  <1>7. \A s \in Sessions : s <= MaxSessions /\ (s \in OpenSessions(d) <=> d.sess[s].state = "open")
    BY Consts DEF Sessions, OpenSessions
  <1> QED BY <1>6, <1>7

-----------------------------------------------------------------------------
(* The ledger's invariant.                                                 *)

(* The fields of an entry of the live table.                               *)
LEMMA LiveIs ==
  ASSUME NEW x \in Lives
  PROVE  /\ x.on \in BOOLEAN /\ (x.on <=> x \in Running)
         /\ x.on => /\ x.project \in Projects /\ x.segment \in Nat /\ x.machine \in Machines
                    /\ x.launched \in Nat /\ x.wait \in BOOLEAN
                    /\ x.waiter \in {"none", "running", "finished"}
  <1>1. CASE x = NotLive
    <2>1. x.on = FALSE
      BY <1>1 DEF NotLive
    <2>2. x \notin Running
      BY <2>1 DEF Running
    <2> QED BY <2>1, <2>2
  <1>2. CASE x \in Running
    <2>1. x.on = TRUE /\ x.project \in Projects /\ x.segment \in Nat /\ x.machine \in Machines
          /\ x.launched \in Nat /\ x.wait \in BOOLEAN /\ x.waiter \in {"none", "running", "finished"}
      BY <1>2 DEF Running
    <2> QED BY <1>2, <2>1
  <1> QED BY <1>1, <1>2 DEF Lives

(* The absent entry is one.                                                *)
LEMMA NotLiveIs == NotLive \in Lives /\ ~NotLive.on
  BY DEF Lives, NotLive

(* A live session's machine, segment and waiter written over.              *)
Moved(x, m) == [x EXCEPT !.machine = m]
Followed(x, m, n) == [[x EXCEPT !.machine = m] EXCEPT !.segment = n]
Waited(x, w) == [x EXCEPT !.waiter = w]

(* An entry that follows what its transaction wrote.                       *)
LEMMA Follower ==
  ASSUME NEW x \in Running, NEW m \in Machines, NEW n \in Nat, NEW y, y = Followed(x, m, n)
  PROVE  /\ y \in Running /\ y.on /\ y.project = x.project /\ y.machine = m /\ y.segment = n
         /\ y.launched = x.launched /\ y.wait = x.wait /\ y.waiter = x.waiter
  BY DEF Running, Followed

(* An entry whose machine moved and whose rows did not.                    *)
LEMMA Mover ==
  ASSUME NEW x \in Running, NEW m \in Machines, NEW y, y = Moved(x, m)
  PROVE  /\ y \in Running /\ y.on /\ y.project = x.project /\ y.machine = m /\ y.segment = x.segment
         /\ y.launched = x.launched /\ y.wait = x.wait /\ y.waiter = x.waiter
  BY DEF Running, Moved

(* An entry whose process was heard of.                                    *)
LEMMA Waiter ==
  ASSUME NEW x \in Running, NEW w \in {"none", "running", "finished"}, NEW y, y = Waited(x, w)
  PROVE  /\ y \in Running /\ y.on /\ y.project = x.project /\ y.machine = x.machine
         /\ y.segment = x.segment /\ y.launched = x.launched /\ y.wait = x.wait /\ y.waiter = w
  BY DEF Running, Waited

(* The table l a handler leaves to its transaction: but for s's waiter, it is live. *)
Handed(l, s) ==
  /\ l \in [Sessions -> Lives] /\ l[s].on
  /\ l[s].project = live[s].project /\ l[s].machine = live[s].machine
  /\ l[s].segment = live[s].segment /\ l[s].launched = live[s].launched /\ l[s].wait = live[s].wait
  /\ \A t \in Sessions : t # s => l[t] = live[t]

(* Both live tables a handler hands on are the old one but for a waiter.   *)
LEMMA HandedIs ==
  ASSUME LedgerInv, NEW s \in Sessions, live[s].on
  PROVE  Handed(live, s) /\ Handed([live EXCEPT ![s].waiter = "none"], s)
  <1>1. live \in [Sessions -> Lives]
    BY DEF LedgerInv, Typed
  <1>2. live[s] \in Running
    BY <1>1, LiveIs
  <1>3. PICK y : y = Waited(live[s], "none")
    OBVIOUS
  <1>4. [live EXCEPT ![s].waiter = "none"] = [live EXCEPT ![s] = y]
    BY <1>3 DEF Waited
  <1>5. /\ y \in Running /\ y.on /\ y.project = live[s].project /\ y.machine = live[s].machine
        /\ y.segment = live[s].segment /\ y.launched = live[s].launched /\ y.wait = live[s].wait
    BY <1>2, <1>3, Waiter
  <1>6. y \in Lives
    BY <1>5 DEF Lives
  <1> QED BY <1>1, <1>4, <1>5, <1>6 DEF Handed

(* What a transaction of s, committed or refused, leaves.                  *)
LEMMA CommitLeaves ==
  ASSUME LedgerInv, NEW s \in Sessions, live[s].on, NEW l, Handed(l, s), NEW step \in Steps,
         Commit(l, s, step)
  PROVE  /\ db' = Written(db, s, live[s].segment, step.out) /\ Balanced(db') /\ WritesFor(s, db, db')
         /\ live' \in [Sessions -> Lives] /\ \A t \in Sessions : t # s => live'[t] = live[t]
         /\ step.out.ended # None =>
              live'[s] = NotLive /\ ~live'[s].on /\ watch' = Unwatch(s) /\ db'.sess[s].state = "closed"
         /\ step.out.ended = None =>
              /\ watch' = watch /\ live'[s].on /\ db'.sess[s] = db.sess[s]
              /\ live'[s].project = live[s].project /\ live'[s].machine = step.machine
              /\ live'[s].segment = NextSegment(db', live[s].segment, step.out)
              /\ live'[s].launched = live[s].launched /\ live'[s].wait = live[s].wait
         /\ faults' = faults
         /\ \A t \in Sessions : Follows(t)'
  <1>0. db \in Books /\ Balanced(db) /\ live \in [Sessions -> Lives]
    BY DEF LedgerInv, Typed
  <1>1. /\ db.sess[s].state = "open" /\ db.sess[s].project = live[s].project
        /\ Writable(db, s, live[s].segment)
    BY DEF LedgerInv, Follows, Writable
  <1>2. step.out \in Outcomes /\ step.machine \in Machines
    BY DEF Steps
  <1>3. db' = Written(db, s, live[s].segment, step.out) /\ faults' = faults
    BY DEF Commit, Handed
  <1>4. /\ Balanced(db') /\ WritesFor(s, db, db')
        /\ Writable(db', s, NextSegment(db', live[s].segment, step.out))
        /\ step.out.ended = None => db'.sess = db.sess
        /\ step.out.ended # None => db'.sess[s].state = "closed"
    BY <1>0, <1>1, <1>2, <1>3, WrittenKeeps
  <1>5. l[s] \in Running /\ live[s].segment \in Nat
    BY <1>0, LiveIs DEF Handed
  <1>6. NextSegment(db', live[s].segment, step.out) \in Nat
    BY <1>4, <1>5, BooksHold DEF NextSegment, Balanced
  <1>7. CASE step.out.ended # None
    <2>1. live' = [l EXCEPT ![s] = NotLive] /\ watch' = Unwatch(s)
      BY <1>7 DEF Commit
    <2>2. /\ live' \in [Sessions -> Lives] /\ live'[s] = NotLive
          /\ \A t \in Sessions : t # s => live'[t] = live[t]
      BY <2>1, NotLiveIs DEF Handed
    <2>3. ASSUME NEW t \in Sessions PROVE Follows(t)'
      <3>1. CASE t = s
        BY <2>2, <3>1, NotLiveIs DEF Follows
      <3>2. CASE t # s
        <4>1. Follows(t) /\ live'[t] = live[t] /\ db'.sess[t] = db.sess[t]
          BY <1>4, <2>2, <3>2 DEF LedgerInv, WritesFor
        <4>2. \A g \in DOMAIN db.segs : db.segs[g].session = t =>
                g \in DOMAIN db'.segs /\ db'.segs[g] = db.segs[g]
          BY <1>4, <3>2 DEF WritesFor
        <4> QED BY <4>1, <4>2 DEF Follows
      <3> QED BY <3>1, <3>2
    <2> QED BY <1>3, <1>4, <1>7, <2>1, <2>2, <2>3, NotLiveIs
  <1>8. CASE step.out.ended = None
    <2> DEFINE n == NextSegment(db', live[s].segment, step.out)
    <2>1. live' = [l EXCEPT ![s].machine = step.machine, ![s].segment = NextSegment(db', @, step.out)]
          /\ watch' = watch
      BY <1>8 DEF Commit
    <2>2. PICK y : y = Followed(l[s], step.machine, n)
      OBVIOUS
    <2>3. live' = [l EXCEPT ![s] = y]
      <3>1. PICK z : z = Moved(l[s], step.machine)
        OBVIOUS
      <3>2. z.segment = live[s].segment
        BY <1>2, <1>5, <3>1, Mover DEF Handed
      <3>3. live' = [[l EXCEPT ![s] = z] EXCEPT ![s] = [z EXCEPT !.segment = NextSegment(db', z.segment, step.out)]]
        BY <1>5, <2>1, <3>1 DEF Handed, Moved
      <3> QED BY <1>5, <2>2, <3>1, <3>2, <3>3 DEF Handed, Moved, Followed
    <2>4. /\ y \in Running /\ y.on /\ y.project = l[s].project /\ y.machine = step.machine
          /\ y.segment = n /\ y.launched = l[s].launched /\ y.wait = l[s].wait
      <3> HIDE DEF n
      <3> QED BY <1>2, <1>5, <1>6, <2>2, Follower DEF n
    <2> HIDE DEF n
    <2>5. y \in Lives
      BY <2>4 DEF Lives
    <2>6. /\ live' \in [Sessions -> Lives] /\ live'[s] = y
          /\ \A t \in Sessions : t # s => live'[t] = live[t]
      BY <2>3, <2>5 DEF Handed
    <2>7. ASSUME NEW t \in Sessions PROVE Follows(t)'
      <3>1. CASE t = s
        <4>1. db'.sess[s] = db.sess[s] /\ live'[s].project = live[s].project /\ live'[s].segment = n
          BY <1>4, <1>8, <2>4, <2>6 DEF Handed
        <4>2. Writable(db', s, n)
          BY <1>4 DEF n
        <4> QED BY <1>1, <3>1, <4>1, <4>2 DEF Follows, Writable
      <3>2. CASE t # s
        <4>1. Follows(t) /\ live'[t] = live[t] /\ db'.sess[t] = db.sess[t]
          BY <1>4, <2>6, <3>2 DEF LedgerInv, WritesFor
        <4>2. \A g \in DOMAIN db.segs : db.segs[g].session = t =>
                g \in DOMAIN db'.segs /\ db'.segs[g] = db.segs[g]
          BY <1>4, <3>2 DEF WritesFor
        <4> QED BY <4>1, <4>2 DEF Follows
      <3> QED BY <3>1, <3>2
    <2> QED BY <1>3, <1>4, <1>8, <2>1, <2>4, <2>6, <2>7 DEF Handed, n
  <1> QED BY <1>7, <1>8

(* A refused transaction: the machine has moved, and nothing else has.     *)
LEMMA RefuseLeaves ==
  ASSUME LedgerInv, NEW s \in Sessions, live[s].on, NEW l, Handed(l, s), NEW step \in Steps,
         Refuse(l, s, step)
  PROVE  /\ db' = db /\ watch' = watch /\ live' \in [Sessions -> Lives]
         /\ \A t \in Sessions : t # s => live'[t] = live[t]
         /\ live'[s].on /\ live'[s].project = live[s].project /\ live'[s].segment = live[s].segment
         /\ faults' \in Faults /\ faults'.met /\ faults'.inputs = faults.inputs
         /\ \A t \in Sessions : Follows(t)'
  <1>1. db' = db /\ watch' = watch /\ live' = [l EXCEPT ![s].machine = step.machine]
    BY DEF Refuse
  <1>2. l[s] \in Running /\ step.machine \in Machines
    BY LiveIs DEF Handed, Steps
  <1>3. PICK y : y = Moved(l[s], step.machine)
    OBVIOUS
  <1>4. y \in Running /\ y.on /\ y.project = l[s].project /\ y.segment = l[s].segment
    BY <1>2, <1>3, Mover
  <1>5. y \in Lives
    BY <1>4 DEF Lives
  <1>6. live' = [l EXCEPT ![s] = y]
    BY <1>1, <1>3 DEF Moved
  <1>7. /\ live' \in [Sessions -> Lives] /\ live'[s] = y
        /\ \A t \in Sessions : t # s => live'[t] = live[t]
    BY <1>5, <1>6 DEF Handed
  <1>8. faults' \in Faults /\ faults'.met /\ faults'.inputs = faults.inputs
    <2>1. PICK f : f = faults
      OBVIOUS
    <2>2. f \in Faults /\ f.refusals > 0
          /\ faults' = [[f EXCEPT !.refusals = f.refusals - 1] EXCEPT !.met = TRUE]
      BY <2>1 DEF Refuse, LedgerInv, Typed
    <2>3. f.refusals - 1 \in Nat
      BY <2>2 DEF Faults
    <2> QED BY <2>1, <2>2, <2>3 DEF Faults
  <1>9. \A t \in Sessions : Follows(t)'
    BY <1>1, <1>4, <1>7 DEF LedgerInv, Follows, Handed
  <1> QED BY <1>1, <1>4, <1>7, <1>8, <1>9 DEF Handed

(* An unwatch leaves a watch.                                              *)
LEMMA UnwatchTyped ==
  ASSUME Typed, NEW s \in Sessions
  PROVE  Unwatch(s) \in Watches
  <1>1. None \in Perhaps(Projects)
    BY SomeIn
  <1>2. PICK n : n = None
    OBVIOUS
  <1>3. CASE watch.roots[s] = None
    BY <1>3 DEF Unwatch, Typed
  <1>4. CASE watch.roots[s] # None
    <2>1. PICK w : w = watch
      OBVIOUS
    <2>2. w \in Watches
      BY <2>1 DEF Typed
    <2>3. w.roots \in [Sessions -> Perhaps(Projects)] /\ w.os \in SUBSET Projects /\ w.outlived \in SUBSET Sessions
      BY <2>2 DEF Watches
    <2>4. PICK r : r = [w.roots EXCEPT ![s] = n]
      OBVIOUS
    <2>5. PICK o : o = w.os \ {watch.roots[s][1]}
      OBVIOUS
    <2>6. PICK v : v = w.outlived \cup Sharing(s)
      OBVIOUS
    <2>7. r \in [Sessions -> Perhaps(Projects)] /\ o \in SUBSET Projects /\ v \in SUBSET Sessions
      BY <1>1, <1>2, <2>3, <2>4, <2>5, <2>6 DEF Sharing
    <2>8. Unwatch(s) = [[[w EXCEPT !.roots = r] EXCEPT !.os = o] EXCEPT !.outlived = v]
      BY <1>2, <1>4, <2>1, <2>2, <2>4, <2>5, <2>6 DEF Unwatch, Watches
    <2> QED BY <2>2, <2>7, <2>8 DEF Watches
  <1> QED BY <1>3, <1>4

(* The first of a set of sessions is one of them.                          *)
LEMMA FirstIs ==
  ASSUME NEW S, S \subseteq Sessions, S # {}
  PROVE  FirstOf(S) \in S
  <1>1. S \subseteq Nat
    BY Consts DEF Sessions
  <1>2. PICK s \in S : \A t \in S : s <= t
    BY <1>1, NatMin
  <1> QED BY <1>2 DEF FirstOf

(* The fields of a pass.                                                   *)
LEMMA PassIs ==
  ASSUME NEW q \in Passes
  PROVE  q.at \in {"idle", "observe", "reap", "shutdown"} /\ q.todo \subseteq Sessions
         /\ q.signals \subseteq Sessions
  BY DEF Passes

(* A span of seconds is one of integers.                                   *)
LEMMA SpanInt ==
  ASSUME NEW t \in Int, NEW n \in Int
  PROVE  Window(t, n) \subseteq Int /\ Touch(t) \subseteq Int
  BY Consts DEF Window, Touch

(* No watch is a watch.                                                    *)
LEMMA NoWatchIn == NoWatch \in Watches
  <1>1. PICK r : r = [s \in Sessions |-> None]
    OBVIOUS
  <1>2. /\ r \in [Sessions -> Perhaps(Projects)]
        /\ NoWatch = [roots |-> r, os |-> {}, rx |-> Quietly, outlived |-> {}]
    BY <1>1, SomeIn DEF NoWatch
  <1>3. Quietly \in Channel(Projects)
    BY QuietlyIs
  <1> QED BY <1>2, <1>3 DEF Watches

(* The books of a new index balance.                                       *)
LEMMA LedgerInit == Init => LedgerInv
  <1> SUFFICES ASSUME Init PROVE LedgerInv
    OBVIOUS
  <1> USE DEF Init
  <1>1. PICK zero : zero = [p \in Projects |-> [day \in Days |-> 0]]
    OBVIOUS
  <1>2. PICK none : none = [s \in Sessions |-> NoSession]
    OBVIOUS
  <1>3. db = [sess |-> none, segs |-> <<>>, paid |-> zero]
    BY <1>1, <1>2 DEF Days
  <1>4. db.sess = none /\ db.segs = <<>> /\ db.paid = zero
    BY <1>3
  <1>5. none \in [Sessions -> Rows] /\ \A s \in Sessions : none[s].state = "none"
    BY <1>2 DEF Rows, NoSession
  <1>6. zero \in [Projects -> [Days -> Nat]] /\ <<>> \in Seq(Segment) /\ DOMAIN db.segs = {}
    BY <1>1, <1>4
  <1>7. db \in Books
    BY <1>3, <1>5, <1>6 DEF Books
  <1>8. HasSegments(db) /\ SumsHold(db)
    BY <1>4, <1>5, <1>6 DEF HasSegments, SumsHold
  <1>9. PaidIsTheUnion(db)
    <2> SUFFICES ASSUME NEW day \in Days PROVE PaidOn(db, day) = Cardinality(CoveredOn(db, day))
      BY DEF PaidIsTheUnion
    <2>1. CoveredOn(db, day) = {}
      BY <1>6 DEF CoveredOn, Union, CountedClosed
    <2> DEFINE f == [p \in Projects |-> zero[p][day]]
    <2>2. f \in [Projects -> Nat] /\ \A p \in Projects : f[p] = 0
      BY <1>1
    <2> HIDE DEF f
    <2>3. SumOf(f) = 0
      BY <2>2, Consts, SumNat
    <2>4. PaidOn(db, day) = 0
      <3> HIDE DEF Init
      <3>1. f = [p \in Projects |-> db.paid[p][day]]
        BY <1>4 DEF f
      <3> QED BY <2>3, <3>1 DEF PaidOn
    <2> QED BY <2>1, <2>4, FS_EmptySet
  <1>10. live \in [Sessions -> Lives] /\ \A s \in Sessions : ~live[s].on
    BY NotLiveIs
  <1>11. watch \in Watches
    <2> QED BY NoWatchIn
  <1>12. focus \in Perhaps(Claims)
    BY SomeIn
  <1>13. loop \in Passes /\ loop.todo = {} /\ clock \in Moments /\ up \in BOOLEAN /\ up
    BY Consts, SomeIn DEF Idle, Passes, Moments
  <1>14. evidence \in [Sessions -> SUBSET Int] /\ edited \in Channel(Sessions)
    BY QuietlyIs
  <1>15. faults \in Faults
    <2>1. Budgets \subseteq [jumps : Nat, crashes : Nat, refusals : Nat, deaf : Nat, errors : Nat,
                        met : {FALSE}, launches : Nat, waits : SUBSET BOOLEAN, of : SUBSET Projects,
                        inputs : Nat, until : 0 .. MaxTime]
      BY ConstantsAssumption
    <2>2. PICK f : f = faults
      OBVIOUS
    <2>3. f \in [jumps : Nat, crashes : Nat, refusals : Nat, deaf : Nat, errors : Nat,
                        met : {FALSE}, launches : Nat, waits : SUBSET BOOLEAN, of : SUBSET Projects,
                        inputs : Nat, until : 0 .. MaxTime]
      BY <2>1, <2>2
    <2>4. f \in Faults
      BY <2>3 DEF Faults
    <2> QED BY <2>2, <2>4
  <1>16. Typed
    BY <1>7, <1>10, <1>11, <1>12, <1>13, <1>14, <1>15 DEF Typed
  <1>17. Standing
    BY <1>10, <1>13 DEF Standing, LiveSessions
  <1>18. \A s \in Sessions : Follows(s)
    BY <1>10 DEF Follows
  <1> QED BY <1>7, <1>8, <1>9, <1>16, <1>17, <1>18 DEF LedgerInv, Balanced

(* A transaction in a pass, or of a stop, keeps the invariant.             *)
LEMMA TransactionKeeps ==
  ASSUME LedgerInv, NEW s \in Sessions, live[s].on, NEW l, Handed(l, s), NEW step \in Steps,
         Commit(l, s, step) \/ Refuse(l, s, step),
         UNCHANGED <<focus, clock, up, edited, evidence>>,
         loop' \in Passes, loop'.todo \subseteq loop.todo \ {s}, loop'.at = "idle" => loop'.todo = {}
  PROVE  LedgerInv'
  <1>1. up /\ loop.todo \subseteq LiveSessions
    BY DEF LedgerInv, Standing, LiveSessions
  <1>2. Typed /\ db \in Books /\ Balanced(db)
    BY DEF LedgerInv, Typed
  <1>3. /\ Balanced(db') /\ live' \in [Sessions -> Lives] /\ watch' \in Watches /\ faults' \in Faults
        /\ \A t \in Sessions : t # s => live'[t] = live[t]
        /\ \A t \in Sessions : Follows(t)'
    <2>1. CASE Commit(l, s, step)
      BY <1>2, <2>1, CommitLeaves, UnwatchTyped DEF Typed
    <2>2. CASE Refuse(l, s, step)
      BY <1>2, <2>2, RefuseLeaves DEF Typed
    <2> QED BY <2>1, <2>2
  <1>4. Typed'
    BY <1>2, <1>3 DEF Typed, Balanced
  <1>5. loop'.todo \subseteq LiveSessions'
    BY <1>1, <1>3 DEF LiveSessions
  <1>6. Standing'
    BY <1>1, <1>5 DEF Standing
  <1> QED BY <1>3, <1>4, <1>6 DEF LedgerInv

(* What leaves the rows and the live table alone keeps it.                 *)
LEMMA RestKeeps ==
  ASSUME LedgerInv, UNCHANGED <<db, live>>, Typed', Standing'
  PROVE  LedgerInv'
  BY DEF LedgerInv, Follows

(* A launch, with its rows and its entry named.                            *)
LEMMA LaunchIs ==
  ASSUME NEW p \in Projects, NEW wait \in BOOLEAN, Launch(p, wait)
  PROVE  /\ AtRest /\ Inputs
         /\ \E s \in Sessions, watched \in BOOLEAN :
              /\ db.sess[s].state = "none"
              /\ db' = LaunchRows(db, s, p, clock.wall)
              /\ live' = [live EXCEPT ![s] = Launched(p, wait)]
              /\ watch' = IF watched
                          THEN [watch EXCEPT !.roots[s] = Some(p), !.os = @ \cup {p}] ELSE watch
              /\ evidence' = [evidence EXCEPT ![s] =
                   IF ClaimedNow(p) \/ p \in watch.rx[1]
                   THEN Touch(clock.wall) ELSE Window(clock.wall, SegmentIdle + TickPeriod - 1)]
              /\ IF watched THEN UNCHANGED faults
                 ELSE faults.deaf > 0 /\ faults' = [faults EXCEPT !.deaf = @ - 1]
         /\ UNCHANGED <<focus, loop, clock, up, edited>>
  BY Zenon DEF Launch, LaunchRows

(* The entry of a launched session.                                        *)
LEMMA LaunchRunning ==
  ASSUME LedgerInv, NEW p \in Projects, NEW wait \in BOOLEAN, NEW x, x = Launched(p, wait)
  PROVE  /\ x \in Running /\ x.on /\ x.project = p /\ x.segment = Len(db.segs) + 1
         /\ x.machine = InSegment(clock.wall, clock.wall, clock.mono)
         /\ x.launched = clock.mono /\ x.wait = wait
  <1>1. clock.wall \in Nat /\ clock.mono \in Nat
    BY MomentIs DEF LedgerInv, Typed
  <1>2. PICK m : m = InSegment(clock.wall, clock.wall, clock.mono)
    OBVIOUS
  <1>3. m \in Machines
    BY <1>1, <1>2, MachinesIn
  <1>4. Len(db.segs) + 1 \in Nat
    BY BooksHold DEF LedgerInv, Typed
  <1>5. PICK w : w = IF wait THEN "running" ELSE "none"
    OBVIOUS
  <1>6. w \in {"none", "running", "finished"}
    BY <1>5
  <1>7. x = [on |-> TRUE, project |-> p, segment |-> Len(db.segs) + 1, machine |-> m,
             launched |-> clock.mono, wait |-> wait, waiter |-> w]
    BY <1>2, <1>5 DEF Launched
  <1>8. x \in Running
    BY <1>1, <1>3, <1>4, <1>6, <1>7 DEF Running
  <1> QED BY <1>2, <1>7, <1>8

(* The watch with a root for s.                                            *)
WithRoot(s, p) == [watch EXCEPT !.roots[s] = Some(p), !.os = @ \cup {p}]

(* The watch with a root more.                                             *)
LEMMA WatchedTyped ==
  ASSUME watch \in Watches, NEW s \in Sessions, NEW p \in Projects,
         NEW w, w = WithRoot(s, p)
  PROVE  /\ w \in Watches /\ w.roots[s] = Some(p) /\ w.os = watch.os \cup {p} /\ w.rx = watch.rx
         /\ w.outlived = watch.outlived
         /\ \A t \in Sessions : t # s => w.roots[t] = watch.roots[t]
  <1>1. PICK n : n = Some(p)
    OBVIOUS
  <1>2. n \in Perhaps(Projects)
    BY <1>1, SomeIn
  <1>3. PICK v : v = watch
    OBVIOUS
  <1>4. v.roots \in [Sessions -> Perhaps(Projects)] /\ v.os \in SUBSET Projects
    BY <1>3 DEF Watches
  <1>5. PICK r : r = [v.roots EXCEPT ![s] = n]
    OBVIOUS
  <1>6. PICK o : o = v.os \cup {p}
    OBVIOUS
  <1>7. w = [[v EXCEPT !.roots = r] EXCEPT !.os = o]
    BY <1>1, <1>3, <1>5, <1>6 DEF Watches, WithRoot
  <1>8. r \in [Sessions -> Perhaps(Projects)] /\ o \in SUBSET Projects
    BY <1>2, <1>4, <1>5, <1>6
  <1>9. w \in Watches /\ w.roots = r /\ w.os = o /\ w.rx = v.rx /\ w.outlived = v.outlived
    BY <1>3, <1>7, <1>8 DEF Watches
  <1> QED BY <1>1, <1>3, <1>4, <1>5, <1>6, <1>9

(* What is left of the faults after each kind of one.                      *)
LEMMA FaultsStay ==
  ASSUME faults \in Faults
  PROVE  /\ faults.deaf > 0 /\ faults' = [faults EXCEPT !.deaf = @ - 1] =>
              faults' \in Faults /\ faults'.met = faults.met /\ faults'.inputs = faults.inputs
         /\ faults.crashes > 0 /\ faults' = [faults EXCEPT !.crashes = @ - 1] =>
              faults' \in Faults /\ faults'.met = faults.met /\ faults'.inputs = faults.inputs
         /\ faults.refusals > 0 /\ faults' = [faults EXCEPT !.refusals = @ - 1, !.met = TRUE] =>
              faults' \in Faults /\ faults'.met
         /\ faults.jumps > 0 /\ faults' = [faults EXCEPT !.jumps = @ - 1, !.met = TRUE] =>
              faults' \in Faults /\ faults'.met
         /\ faults.errors > 0 /\ faults' = [faults EXCEPT !.errors = @ - 1, !.met = TRUE] =>
              faults' \in Faults /\ faults'.met
  <1>1. PICK f : f = faults
    OBVIOUS
  <1>2. f \in Faults
    BY <1>1
  <1>3. ASSUME f.deaf > 0, faults' = [f EXCEPT !.deaf = f.deaf - 1]
        PROVE  faults' \in Faults /\ faults'.met = f.met /\ faults'.inputs = f.inputs
    <2>1. f.deaf - 1 \in Nat
      BY <1>2, <1>3 DEF Faults
    <2> QED BY <1>2, <1>3, <2>1 DEF Faults
  <1>4. ASSUME f.crashes > 0, faults' = [f EXCEPT !.crashes = f.crashes - 1]
        PROVE  faults' \in Faults /\ faults'.met = f.met /\ faults'.inputs = f.inputs
    <2>1. f.crashes - 1 \in Nat
      BY <1>2, <1>4 DEF Faults
    <2> QED BY <1>2, <1>4, <2>1 DEF Faults
  <1>5. ASSUME f.refusals > 0, faults' = [f EXCEPT !.refusals = f.refusals - 1, !.met = TRUE]
        PROVE  faults' \in Faults /\ faults'.met
    <2>1. f.refusals - 1 \in Nat
      BY <1>2, <1>5 DEF Faults
    <2>2. faults' = [[f EXCEPT !.refusals = f.refusals - 1] EXCEPT !.met = TRUE]
      BY <1>5
    <2> QED BY <1>2, <2>1, <2>2 DEF Faults
  <1>6. ASSUME f.jumps > 0, faults' = [f EXCEPT !.jumps = f.jumps - 1, !.met = TRUE]
        PROVE  faults' \in Faults /\ faults'.met
    <2>1. f.jumps - 1 \in Nat
      BY <1>2, <1>6 DEF Faults
    <2>2. faults' = [[f EXCEPT !.jumps = f.jumps - 1] EXCEPT !.met = TRUE]
      BY <1>6
    <2> QED BY <1>2, <2>1, <2>2 DEF Faults
  <1>7. ASSUME f.errors > 0, faults' = [f EXCEPT !.errors = f.errors - 1, !.met = TRUE]
        PROVE  faults' \in Faults /\ faults'.met
    <2>1. f.errors - 1 \in Nat
      BY <1>2, <1>7 DEF Faults
    <2>2. faults' = [[f EXCEPT !.errors = f.errors - 1] EXCEPT !.met = TRUE]
      BY <1>7
    <2> QED BY <1>2, <2>1, <2>2 DEF Faults
  <1> QED BY <1>1, <1>3, <1>4, <1>5, <1>6, <1>7

(* What a launch leaves, for the session it takes.                         *)
LaunchedAs(s, p, wait) ==
  /\ db.sess[s].state = "none" /\ Balanced(db') /\ WritesFor(s, db, db')
  /\ db'.sess[s] = [state |-> "open", project |-> p, started |-> clock.wall]
  /\ Len(db'.segs) = Len(db.segs) + 1 /\ DOMAIN db'.segs = DOMAIN db.segs \cup {Len(db'.segs)}
  /\ db'.segs[Len(db'.segs)] = Unsignalled(s, clock.wall)
  /\ live' \in [Sessions -> Lives] /\ live'[s] = Launched(p, wait)
  /\ \A t \in Sessions : t # s => live'[t] = live[t]
  /\ watch' \in Watches /\ watch'.rx = watch.rx /\ watch.os \subseteq watch'.os
  /\ watch'.outlived = watch.outlived
  /\ watch'.roots[s] = watch.roots[s] \/ (watch'.roots[s] = Some(p) /\ p \in watch'.os)
  /\ \A t \in Sessions : t # s => watch'.roots[t] = watch.roots[t]
  /\ evidence' \in [Sessions -> SUBSET Int]
  /\ evidence'[s] = IF ClaimedNow(p) \/ p \in watch.rx[1]
                    THEN Touch(clock.wall) ELSE Window(clock.wall, SegmentIdle + TickPeriod - 1)
  /\ \A t \in Sessions : t # s => evidence'[t] = evidence[t]
  /\ faults' \in Faults /\ faults'.met = faults.met /\ faults'.inputs = faults.inputs

(* The state a launch leaves.                                              *)
LEMMA LaunchLeaves ==
  ASSUME LedgerInv, NEW p \in Projects, NEW wait \in BOOLEAN, Launch(p, wait)
  PROVE  /\ AtRest /\ Inputs /\ UNCHANGED <<focus, loop, clock, up, edited>>
         /\ \E s \in Sessions : LaunchedAs(s, p, wait)
  <1>0. Typed /\ db \in Books /\ Balanced(db) /\ clock \in Moments
    BY DEF LedgerInv, Typed
  <1>1. PICK s \in Sessions, watched \in BOOLEAN :
              /\ db.sess[s].state = "none"
              /\ db' = LaunchRows(db, s, p, clock.wall)
              /\ live' = [live EXCEPT ![s] = Launched(p, wait)]
              /\ watch' = IF watched
                          THEN [watch EXCEPT !.roots[s] = Some(p), !.os = @ \cup {p}] ELSE watch
              /\ evidence' = [evidence EXCEPT ![s] =
                   IF ClaimedNow(p) \/ p \in watch.rx[1]
                   THEN Touch(clock.wall) ELSE Window(clock.wall, SegmentIdle + TickPeriod - 1)]
              /\ IF watched THEN UNCHANGED faults
                 ELSE faults.deaf > 0 /\ faults' = [faults EXCEPT !.deaf = @ - 1]
    BY LaunchIs, Zenon
  <1>2. clock.wall \in Nat
    BY <1>0, MomentIs
  <1>3. /\ Balanced(db') /\ WritesFor(s, db, db')
         /\ db'.sess[s] = [state |-> "open", project |-> p, started |-> clock.wall]
         /\ Len(db'.segs) = Len(db.segs) + 1 /\ DOMAIN db'.segs = DOMAIN db.segs \cup {Len(db'.segs)}
         /\ db'.segs[Len(db'.segs)] = Unsignalled(s, clock.wall)
    BY <1>0, <1>1, <1>2, LaunchKeeps
  <1>4. PICK x : x = Launched(p, wait)
    OBVIOUS
  <1>5. x \in Lives
    BY <1>3, <1>4, LaunchRunning DEF Lives
  <1>6. /\ live' \in [Sessions -> Lives] /\ live'[s] = x
        /\ \A t \in Sessions : t # s => live'[t] = live[t]
    BY <1>0, <1>1, <1>4, <1>5 DEF Typed
  <1>8. /\ watch' \in Watches /\ watch'.rx = watch.rx /\ watch.os \subseteq watch'.os
        /\ watch'.outlived = watch.outlived
        /\ watch'.roots[s] = watch.roots[s] \/ (watch'.roots[s] = Some(p) /\ p \in watch'.os)
        /\ \A t \in Sessions : t # s => watch'.roots[t] = watch.roots[t]
    <2>1. CASE watched
      <3>1. watch' = WithRoot(s, p) /\ watch \in Watches
        BY <1>0, <1>1, <2>1 DEF Typed, WithRoot
      <3>2. /\ watch' \in Watches /\ watch'.roots[s] = Some(p) /\ watch'.os = watch.os \cup {p}
            /\ watch'.rx = watch.rx /\ watch'.outlived = watch.outlived
            /\ \A t \in Sessions : t # s => watch'.roots[t] = watch.roots[t]
        BY <3>1, WatchedTyped
      <3> QED BY <3>2
    <2>2. CASE ~watched
      <3>1. watch' = watch /\ watch \in Watches
        BY <1>0, <1>1, <2>2 DEF Typed
      <3> QED BY <3>1
    <2> QED BY <2>1, <2>2
  <1>9. faults' \in Faults /\ faults'.met = faults.met /\ faults'.inputs = faults.inputs
    BY <1>0, <1>1, FaultsStay DEF Typed
  <1>10. PICK w : w = IF ClaimedNow(p) \/ p \in watch.rx[1]
                   THEN Touch(clock.wall) ELSE Window(clock.wall, SegmentIdle + TickPeriod - 1)
    OBVIOUS
  <1>11. w \subseteq Int
    <2>1. Touch(clock.wall) \subseteq Int /\ Window(clock.wall, SegmentIdle + TickPeriod - 1) \subseteq Int
      BY <1>2, Consts, SpanInt
    <2> QED BY <1>10, <2>1
  <1>12. evidence' = [evidence EXCEPT ![s] = w]
    BY <1>1, <1>10
  <1>13. /\ evidence' \in [Sessions -> SUBSET Int] /\ evidence'[s] = w
         /\ \A t \in Sessions : t # s => evidence'[t] = evidence[t]
    BY <1>0, <1>11, <1>12 DEF Typed
  <1>14. LaunchedAs(s, p, wait)
    BY <1>1, <1>3, <1>4, <1>6, <1>8, <1>9, <1>10, <1>13, Zenon DEF LaunchedAs
  <1>15. AtRest /\ Inputs /\ UNCHANGED <<focus, loop, clock, up, edited>>
    BY LaunchIs, Zenon
  <1> QED BY <1>14, <1>15

(* A launch keeps the ledger.                                              *)
LEMMA LaunchKeepsLedger ==
  ASSUME LedgerInv, NEW p \in Projects, NEW wait \in BOOLEAN, Launch(p, wait)
  PROVE  LedgerInv'
  <1>1. /\ AtRest /\ UNCHANGED <<focus, loop, clock, up, edited>>
        /\ \E s \in Sessions : LaunchedAs(s, p, wait)
    BY LaunchLeaves
  <1>2. PICK s \in Sessions : LaunchedAs(s, p, wait)
    BY <1>1
  <1>3. PICK x : x = Launched(p, wait)
    OBVIOUS
  <1>4. x.on /\ x.project = p /\ x.segment = Len(db'.segs) /\ live'[s] = x
    BY <1>2, <1>3, LaunchRunning DEF LaunchedAs
  <1>5. \A t \in Sessions : Follows(t)'
    <2> SUFFICES ASSUME NEW t \in Sessions PROVE Follows(t)'
      OBVIOUS
    <2>1. CASE t = s
      <3>1. db'.sess[s].state = "open" /\ db'.sess[s].project = p
        BY <1>2 DEF LaunchedAs
      <3>2. /\ db'.segs[x.segment].session = s /\ db'.segs[x.segment].by = "open"
            /\ x.segment \in DOMAIN db'.segs
        BY <1>2, <1>4 DEF LaunchedAs, Unsignalled
      <3> QED BY <1>4, <2>1, <3>1, <3>2 DEF Follows
    <2>2. CASE t # s
      <3>1. Follows(t) /\ live'[t] = live[t] /\ db'.sess[t] = db.sess[t]
        BY <1>2, <2>2 DEF LedgerInv, WritesFor, LaunchedAs
      <3>2. \A g \in DOMAIN db.segs : db.segs[g].session = t =>
              g \in DOMAIN db'.segs /\ db'.segs[g] = db.segs[g]
        BY <1>2, <2>2 DEF WritesFor, LaunchedAs
      <3> QED BY <3>1, <3>2 DEF Follows
    <2> QED BY <2>1, <2>2
  <1>6. Typed'
    BY <1>1, <1>2 DEF LedgerInv, Typed, Balanced, LaunchedAs
  <1>7. Standing'
    BY <1>1 DEF Standing, LedgerInv, AtRest
  <1> QED BY <1>2, <1>5, <1>6, <1>7 DEF LedgerInv, LaunchedAs

(* A stop ends the session's machine in a transaction.                     *)
LEMMA StopIs ==
  ASSUME LedgerInv, NEW s \in Sessions, Stop(s)
  PROVE  /\ live[s].on /\ Handed(live, s)
         /\ \E step \in Steps : /\ step = End(live[s].machine, clock, "stop")
                                /\ Commit(live, s, step) \/ Refuse(live, s, step)
         /\ AtRest /\ UNCHANGED <<focus, loop, clock, up, edited, evidence>>
  <1>1. /\ AtRest /\ live[s].on
        /\ LET step == End(live[s].machine, clock, "stop")
           IN  Commit(live, s, step) \/ Refuse(live, s, step)
        /\ UNCHANGED <<focus, loop, clock, up, edited, evidence>>
    BY DEF Stop
  <1>2. PICK step : step = End(live[s].machine, clock, "stop")
    OBVIOUS
  <1>3. Commit(live, s, step) \/ Refuse(live, s, step)
    BY <1>1, <1>2
  <1>4. live[s].machine \in Machines /\ clock \in Moments /\ "stop" \in Reasons
    BY <1>1, LiveIs DEF LedgerInv, Typed, Reasons
  <1>5. step.machine \in Machines /\ step.out \in Outcomes
    BY <1>2, <1>4, EndTyped
  <1>6. step = [machine |-> step.machine, out |-> step.out]
    BY <1>2 DEF End, EndWith
  <1>7. step \in Steps
    BY <1>5, <1>6 DEF Steps
  <1> QED BY <1>1, <1>2, <1>3, <1>7, HandedIs

(* A pass's turn: the first session to do, and its step.                   *)
LEMMA ObserveIs ==
  ASSUME LedgerInv, TickObserve
  PROVE  /\ loop.at = "observe" /\ UNCHANGED <<focus, clock, up, edited, evidence>>
         /\ \E s \in loop.todo : \E step \in Steps, signal \in BOOLEAN :
              /\ live[s].on /\ Handed(live, s) /\ (signal <=> s \in loop.signals)
              /\ step = Observe(live[s].machine, live[s].wait, clock, signal)
              /\ Apply(live, s, step)
  <1>1. PICK s : s = FirstOf(loop.todo)
    OBVIOUS
  <1>12. PICK signal : signal = (s \in loop.signals)
    OBVIOUS
  <1>2. signal \in BOOLEAN /\ signal = (s \in loop.signals)
    BY <1>12
  <1>3. PICK step : step = Observe(live[s].machine, live[s].wait, clock, signal)
    OBVIOUS
  <1>4. /\ loop.at = "observe" /\ UNCHANGED <<focus, clock, up, edited, evidence>>
        /\ loop.todo # {} /\ Apply(live, s, step)
    BY <1>1, <1>2, <1>3 DEF TickObserve
  <1>5. loop.todo \subseteq Sessions /\ loop.todo \subseteq LiveSessions
    BY PassIs DEF LedgerInv, Typed, Standing
  <1>6. s \in loop.todo /\ s \in Sessions /\ live[s].on
    BY <1>1, <1>4, <1>5, FirstIs DEF LiveSessions
  <1>7. live[s].machine \in Machines /\ live[s].wait \in BOOLEAN /\ clock \in Moments
    BY <1>6, LiveIs DEF LedgerInv, Typed
  <1>8. step.machine \in Machines /\ step.out \in Outcomes
    BY <1>2, <1>3, <1>7, ObserveTyped
  <1>9. step = [machine |-> step.machine, out |-> step.out]
    BY <1>3 DEF Observe, ObserveSignal, ObserveNothing
  <1>10. step \in Steps
    BY <1>8, <1>9 DEF Steps
  <1>11. Handed(live, s)
    BY <1>6, HandedIs
  <1> QED BY <1>2, <1>3, <1>4, <1>6, <1>10, <1>11

(* An end of a live session's machine is a step of it.                     *)
LEMMA EndsAs ==
  ASSUME LedgerInv, NEW s \in Sessions, live[s].on, NEW reason \in Reasons,
         NEW step, step = End(live[s].machine, clock, reason)
  PROVE  step \in Steps
  <1>1. live[s].machine \in Machines /\ clock \in Moments
    BY LiveIs DEF LedgerInv, Typed
  <1>2. step.machine \in Machines /\ step.out \in Outcomes
    BY <1>1, EndTyped
  <1>3. step = [machine |-> step.machine, out |-> step.out]
    BY DEF End, EndWith
  <1> QED BY <1>2, <1>3 DEF Steps

(* One turn of the reap: a session that finished ends, another is passed over. *)
LEMMA ReapIs ==
  ASSUME LedgerInv, TickReap
  PROVE  /\ loop.at = "reap" /\ up /\ UNCHANGED <<focus, clock, up, edited, evidence>>
         /\ \E s \in loop.todo : live[s].on /\
              \/ \E step \in Steps : \E l :
                   /\ Handed(l, s) /\ step = End(live[s].machine, clock, "process_exit")
                   /\ Apply(l, s, step)
              \/ loop' = [loop EXCEPT !.todo = @ \ {s}] /\ UNCHANGED <<db, live, watch, faults>>
  <1>1. PICK s : s = FirstOf(loop.todo)
    OBVIOUS
  <1>2. PICK step : step = End(live[s].machine, clock, "process_exit")
    OBVIOUS
  <1>3. PICK l : l = [live EXCEPT ![s].waiter = "none"]
    OBVIOUS
  <1>4. /\ up /\ loop.at = "reap" /\ UNCHANGED <<focus, clock, up, edited, evidence>>
        /\ loop.todo # {}
        /\ \/ Apply(l, s, step)
           \/ loop' = [loop EXCEPT !.todo = @ \ {s}] /\ UNCHANGED <<db, live, watch, faults>>
    BY <1>1, <1>2, <1>3 DEF TickReap
  <1>5. loop.todo \subseteq Sessions /\ loop.todo \subseteq LiveSessions
    BY PassIs DEF LedgerInv, Typed, Standing
  <1>6. s \in loop.todo /\ s \in Sessions /\ live[s].on
    BY <1>1, <1>4, <1>5, FirstIs DEF LiveSessions
  <1>7. "process_exit" \in Reasons
    BY DEF Reasons
  <1>8. step \in Steps
    BY <1>2, <1>6, <1>7, EndsAs
  <1>9. Handed(l, s)
    BY <1>3, <1>6, HandedIs
  <1> QED BY <1>2, <1>4, <1>6, <1>8, <1>9

(* One turn of the shutdown: the session ends.                             *)
LEMMA ShutdownOneIs ==
  ASSUME LedgerInv, ShutdownOne
  PROVE  /\ loop.at = "shutdown" /\ up /\ UNCHANGED <<focus, clock, up, edited, evidence>>
         /\ \E s \in loop.todo : \E step \in Steps :
              /\ live[s].on /\ Handed(live, s)
              /\ step = End(live[s].machine, clock, "app_exit")
              /\ Apply(live, s, step)
  <1>1. PICK s : s = FirstOf(loop.todo)
    OBVIOUS
  <1>2. PICK step : step = End(live[s].machine, clock, "app_exit")
    OBVIOUS
  <1>4. /\ up /\ loop.at = "shutdown" /\ UNCHANGED <<focus, clock, up, edited, evidence>>
        /\ loop.todo # {} /\ Apply(live, s, step)
    BY <1>1, <1>2 DEF ShutdownOne
  <1>5. loop.todo \subseteq Sessions /\ loop.todo \subseteq LiveSessions
    BY PassIs DEF LedgerInv, Typed, Standing
  <1>6. s \in loop.todo /\ s \in Sessions /\ live[s].on
    BY <1>1, <1>4, <1>5, FirstIs DEF LiveSessions
  <1>7. "app_exit" \in Reasons
    BY DEF Reasons
  <1>8. step \in Steps
    BY <1>2, <1>6, <1>7, EndsAs
  <1>9. Handed(live, s)
    BY <1>6, HandedIs
  <1> QED BY <1>2, <1>4, <1>6, <1>8, <1>9

(* How a pass goes on.                                                     *)
LEMMA ApplyIs ==
  ASSUME LedgerInv, NEW s \in loop.todo, NEW l, NEW step, Apply(l, s, step)
  PROVE  /\ s \in Sessions
         /\ loop' \in Passes /\ loop'.todo \subseteq loop.todo \ {s}
         /\ loop'.at = "idle" => loop'.todo = {}
         /\ \/ Commit(l, s, step) /\ loop'.at = loop.at /\ loop'.todo = loop.todo \ {s}
               /\ loop'.signals = loop.signals
            \/ Refuse(l, s, step)
  <1>1. PICK q : q = loop
    OBVIOUS
  <1>2. q \in Passes /\ s \in Sessions
    BY <1>1, PassIs DEF LedgerInv, Typed
  <1>3. q.at # "idle"
    BY <1>1 DEF LedgerInv, Standing
  <1>4. CASE Commit(l, s, step) /\ loop' = [loop EXCEPT !.todo = @ \ {s}]
    <2>1. loop' = [q EXCEPT !.todo = q.todo \ {s}]
      BY <1>1, <1>4
    <2> QED BY <1>1, <1>2, <1>3, <1>4, <2>1 DEF Passes
  <1>5. CASE /\ Refuse(l, s, step)
             /\ loop' = [loop EXCEPT !.at = IF @ = "shutdown" THEN @ ELSE "idle", !.todo = {}, !.signals = {}]
    <2>1. PICK at : at = IF q.at = "shutdown" THEN q.at ELSE "idle"
      OBVIOUS
    <2>2. loop' = [[[q EXCEPT !.at = at] EXCEPT !.todo = {}] EXCEPT !.signals = {}]
      BY <1>1, <1>5, <2>1
    <2>3. at \in {"idle", "shutdown"}
      BY <2>1
    <2> QED BY <1>2, <1>5, <2>2, <2>3 DEF Passes
  <1> QED BY <1>4, <1>5 DEF Apply

(* A transaction of a pass keeps the ledger, committed or refused.         *)
LEMMA ApplyKeeps ==
  ASSUME LedgerInv, NEW s \in loop.todo, live[s].on, NEW l, Handed(l, s), NEW step \in Steps,
         Apply(l, s, step), UNCHANGED <<focus, clock, up, edited, evidence>>
  PROVE  LedgerInv'
  BY ApplyIs, TransactionKeeps

(* So does a stop.                                                         *)
LEMMA StopKeeps ==
  ASSUME LedgerInv, NEW s \in Sessions, Stop(s)
  PROVE  LedgerInv'
  <1>1. PICK step \in Steps : Commit(live, s, step) \/ Refuse(live, s, step)
    BY StopIs
  <1>2. live[s].on /\ Handed(live, s) /\ AtRest /\ UNCHANGED <<focus, loop, clock, up, edited, evidence>>
    BY StopIs
  <1>3. loop' \in Passes /\ loop'.todo \subseteq loop.todo \ {s} /\ (loop'.at = "idle" => loop'.todo = {})
    BY <1>2 DEF LedgerInv, Typed, Standing, AtRest
  <1> QED BY <1>1, <1>2, <1>3, TransactionKeeps

(* And each turn of the three passes.                                      *)
LEMMA PassesKeep ==
  /\ LedgerInv /\ TickObserve => LedgerInv'
  /\ LedgerInv /\ TickReap => LedgerInv'
  /\ LedgerInv /\ ShutdownOne => LedgerInv'
  <1>1. ASSUME LedgerInv, TickObserve PROVE LedgerInv'
    <2>1. PICK s \in loop.todo, step \in Steps : live[s].on /\ Handed(live, s) /\ Apply(live, s, step)
      BY <1>1, ObserveIs
    <2>2. UNCHANGED <<focus, clock, up, edited, evidence>>
      BY <1>1, ObserveIs
    <2> QED BY <1>1, <2>1, <2>2, ApplyKeeps
  <1>2. ASSUME LedgerInv, TickReap PROVE LedgerInv'
    <2>1. PICK s \in loop.todo : live[s].on /\
              \/ \E step \in Steps : \E l : Handed(l, s) /\ Apply(l, s, step)
              \/ loop' = [loop EXCEPT !.todo = @ \ {s}] /\ UNCHANGED <<db, live, watch, faults>>
      BY <1>2, ReapIs
    <2>2. UNCHANGED <<focus, clock, up, edited, evidence>>
      BY <1>2, ReapIs
    <2>3. CASE loop' = [loop EXCEPT !.todo = @ \ {s}] /\ UNCHANGED <<db, live, watch, faults>>
      <3>1. PICK q : q = loop
        OBVIOUS
      <3>2. q \in Passes /\ loop' = [q EXCEPT !.todo = q.todo \ {s}]
        BY <1>2, <2>3, <3>1 DEF LedgerInv, Typed
      <3>3. loop' \in Passes /\ loop'.todo = q.todo \ {s} /\ loop'.at = q.at
        BY <3>2 DEF Passes
      <3>4. Typed'
        BY <1>2, <2>2, <2>3, <3>3 DEF LedgerInv, Typed
      <3>5. Standing'
        BY <1>2, <2>2, <2>1, <2>3, <3>1, <3>3 DEF LedgerInv, Standing, LiveSessions
      <3> QED BY <1>2, <2>3, <3>4, <3>5, RestKeeps
    <2>4. CASE \E step \in Steps : \E l : Handed(l, s) /\ Apply(l, s, step)
      BY <1>2, <2>1, <2>2, <2>4, ApplyKeeps
    <2> QED BY <2>1, <2>3, <2>4
  <1>3. ASSUME LedgerInv, ShutdownOne PROVE LedgerInv'
    <2>1. PICK s \in loop.todo, step \in Steps : live[s].on /\ Handed(live, s) /\ Apply(live, s, step)
      BY <1>3, ShutdownOneIs
    <2>2. UNCHANGED <<focus, clock, up, edited, evidence>>
      BY <1>3, ShutdownOneIs
    <2> QED BY <1>3, <2>1, <2>2, ApplyKeeps
  <1> QED BY <1>1, <1>2, <1>3

(* More evidence is still a set of seconds for each session.               *)
LEMMA SeenTyped ==
  ASSUME LedgerInv, NEW seen,
         evidence' = [s \in Sessions |->
            evidence[s] \cup IF s \in seen THEN Touch(clock.wall) ELSE {}]
  PROVE  evidence' \in [Sessions -> SUBSET Int]
  <1>1. clock.wall \in Int
    BY MomentIs DEF LedgerInv, Typed
  <1>2. Touch(clock.wall) \subseteq Int
    BY <1>1, SpanInt
  <1> QED BY <1>2 DEF LedgerInv, Typed

(* A claim, or its release, keeps the ledger.                              *)
LEMMA SetFocusKeeps ==
  ASSUME LedgerInv, NEW claim \in {None} \cup {Some(p) : p \in faults.of}, SetFocus(claim)
  PROVE  LedgerInv'
  <1>1. clock.wall \in Nat /\ clock.mono \in Nat /\ faults.of \subseteq Projects
    BY MomentIs DEF LedgerInv, Typed, Faults
  <1>2. focus' \in Perhaps(Claims)
    <2>1. CASE claim = None
      BY <2>1, SomeIn DEF SetFocus
    <2>2. CASE claim # None
      <3>1. PICK p \in faults.of : claim = Some(p)
        BY <2>2
      <3>2. claim[1] \in Projects
        BY <1>1, <3>1, Options
      <3>3. [project |-> claim[1], at |-> clock.mono] \in Claims
        BY <1>1, <3>2 DEF Claims
      <3> QED BY <2>2, <3>3, SomeIn DEF SetFocus
    <2> QED BY <2>1, <2>2
  <1>3. evidence' \in [Sessions -> SUBSET Int]
    <2> DEFINE seen == {s \in Sessions : live[s].on /\ claim = Some(live[s].project)}
    <2>1. evidence' = [s \in Sessions |->
            evidence[s] \cup IF s \in seen THEN Touch(clock.wall) ELSE {}]
      BY DEF SetFocus
    <2> HIDE DEF seen
    <2> QED BY <2>1, SeenTyped
  <1>4. UNCHANGED <<db, live, watch, loop, clock, up, edited, faults>>
    BY DEF SetFocus
  <1>5. Typed'
    BY <1>2, <1>3, <1>4 DEF LedgerInv, Typed
  <1>6. Standing'
    BY <1>4 DEF LedgerInv, Standing, LiveSessions
  <1> QED BY <1>4, <1>5, <1>6, RestKeeps

(* An edit does.                                                           *)
LEMMA EditKeeps ==
  ASSUME LedgerInv, NEW p \in Projects, Edit(p)
  PROVE  LedgerInv'
  <1> DEFINE seen == {s \in LiveSessions : live[s].project = p}
  <1>1. /\ edited' = WithLast(edited, seen)
        /\ evidence' = [s \in Sessions |-> evidence[s] \cup IF s \in seen THEN Touch(clock.wall) ELSE {}]
        /\ watch' = IF p \in watch.os THEN [watch EXCEPT !.rx = WithLast(@, {p})] ELSE watch
        /\ UNCHANGED <<db, live, focus, loop, clock, up, faults>>
    BY DEF Edit
  <1>2. seen \in SUBSET Sessions /\ edited \in Channel(Sessions)
    BY DEF LiveSessions, LedgerInv, Typed
  <1> HIDE DEF seen
  <1>3. evidence' \in [Sessions -> SUBSET Int] /\ edited' \in Channel(Sessions)
    BY <1>1, <1>2, SeenTyped, WithLastIs
  <1>4. watch' \in Watches
    <2>1. PICK w : w = watch
      OBVIOUS
    <2>2. w \in Watches /\ (watch' = w \/ watch' = [w EXCEPT !.rx = WithLast(w.rx, {p})])
      BY <1>1, <2>1 DEF LedgerInv, Typed
    <2>3. w.rx \in Channel(Projects) /\ {p} \in SUBSET Projects
      BY <2>2 DEF Watches
    <2>4. WithLast(w.rx, {p}) \in Channel(Projects)
      BY <2>3, WithLastIs
    <2> QED BY <2>2, <2>4 DEF Watches
  <1>5. Typed'
    BY <1>1, <1>3, <1>4 DEF LedgerInv, Typed
  <1>6. Standing'
    BY <1>1 DEF LedgerInv, Standing, LiveSessions
  <1> QED BY <1>1, <1>5, <1>6, RestKeeps

(* So does an error of the watcher.                                        *)
LEMMA WatcherErrsKeeps ==
  ASSUME LedgerInv, WatcherErrs
  PROVE  LedgerInv'
  <1>1. PICK w : w = watch
    OBVIOUS
  <1>2. /\ watch' = [w EXCEPT !.rx = Append(w.rx, {})] /\ edited' = Append(edited, {})
        /\ UNCHANGED <<db, live, focus, loop, clock, up, evidence>>
    BY <1>1 DEF WatcherErrs
  <1>3. w \in Watches /\ w.rx \in Channel(Projects) /\ edited \in Channel(Sessions)
    BY <1>1 DEF LedgerInv, Typed, Watches
  <1>4. Append(w.rx, {}) \in Channel(Projects) /\ edited' \in Channel(Sessions)
    BY <1>2, <1>3, ErrorIs
  <1>5. watch' \in Watches
    BY <1>2, <1>3, <1>4 DEF Watches
  <1>6. faults' \in Faults
    BY FaultsStay DEF WatcherErrs, LedgerInv, Typed
  <1>7. Typed'
    BY <1>2, <1>4, <1>5, <1>6 DEF LedgerInv, Typed
  <1>8. Standing'
    BY <1>2 DEF LedgerInv, Standing, LiveSessions
  <1> QED BY <1>2, <1>7, <1>8, RestKeeps

(* The start of a tick does.                                               *)
LEMMA PumpBeginsKeeps ==
  ASSUME LedgerInv, PumpBegins
  PROVE  LedgerInv'
  <1>1. PICK c : c = clock
    OBVIOUS
  <1>2. PICK w : w = watch
    OBVIOUS
  <1>3. PICK sig : sig = (Heard \cap LiveSessions) \cup OwnView
    OBVIOUS
  <1>4. /\ clock' = [c EXCEPT !.ticked = Some(c.mono)] /\ watch' = [w EXCEPT !.rx = Drained(w.rx)]
        /\ loop' = [at |-> "observe", todo |-> LiveSessions, signals |-> sig]
        /\ edited' = Drained(edited) /\ UNCHANGED <<db, live, focus, up, evidence, faults>> /\ up
    BY <1>1, <1>2, <1>3 DEF PumpBegins, AtRest
  <1>5. c \in Moments /\ w \in Watches
    BY <1>1, <1>2 DEF LedgerInv, Typed
  <1>6. clock' \in Moments
    <2>1. PICK t : t = Some(c.mono)
      OBVIOUS
    <2>2. t \in Perhaps(Nat)
      BY <1>5, <2>1, MomentIs, SomeIn
    <2>3. clock' = [c EXCEPT !.ticked = t]
      BY <1>4, <2>1
    <2> QED BY <1>5, <2>2, <2>3 DEF Moments
  <1>7. watch' \in Watches /\ edited' \in Channel(Sessions)
    <2>1. w.rx \in Channel(Projects) /\ edited \in Channel(Sessions)
      BY <1>5 DEF Watches, LedgerInv, Typed
    <2>2. Drained(w.rx) \in Channel(Projects) /\ Drained(edited) \in Channel(Sessions)
      BY <2>1, DrainedIs
    <2> QED BY <1>4, <1>5, <2>2 DEF Watches
  <1>8. LiveSessions \subseteq Sessions /\ sig \subseteq Sessions
    BY <1>3 DEF LiveSessions, OwnView
  <1>9. loop' \in Passes /\ loop'.todo = LiveSessions /\ loop'.at = "observe"
    BY <1>4, <1>8 DEF Passes
  <1>10. Typed'
    BY <1>4, <1>6, <1>7, <1>9 DEF LedgerInv, Typed
  <1>11. Standing'
    BY <1>4, <1>9 DEF LedgerInv, Standing, LiveSessions
  <1> QED BY <1>4, <1>10, <1>11, RestKeeps

(* No pass is a pass.                                                      *)
LEMMA IdleIs == Idle \in Passes /\ Idle.todo = {} /\ Idle.at = "idle"
  BY DEF Idle, Passes

(* From one pass to the next.                                              *)
LEMMA TurnsKeep ==
  /\ LedgerInv /\ TickReaps => LedgerInv'
  /\ LedgerInv /\ TickEnds => LedgerInv'
  /\ LedgerInv /\ ShutdownBegins => LedgerInv'
  <1>1. ASSUME LedgerInv, TickReaps PROVE LedgerInv'
    <2>1. loop' = [at |-> "reap", todo |-> LiveSessions, signals |-> {}] /\ up
          /\ UNCHANGED <<db, live, watch, focus, clock, up, edited, evidence, faults>>
      BY <1>1 DEF TickReaps, Idle
    <2>2. LiveSessions \subseteq Sessions
      BY DEF LiveSessions
    <2>3. loop' \in Passes /\ loop'.todo = LiveSessions /\ loop'.at = "reap"
      BY <2>1, <2>2 DEF Passes
    <2>4. Typed'
      BY <1>1, <2>1, <2>3 DEF LedgerInv, Typed
    <2>5. Standing'
      BY <1>1, <2>1, <2>3 DEF LedgerInv, Standing, LiveSessions
    <2> QED BY <1>1, <2>1, <2>4, <2>5, RestKeeps
  <1>2. ASSUME LedgerInv, TickEnds PROVE LedgerInv'
    <2>1. loop' = Idle /\ up
          /\ UNCHANGED <<db, live, watch, focus, clock, up, edited, evidence, faults>>
      BY <1>2 DEF TickEnds
    <2>2. Typed'
      BY <1>2, <2>1, IdleIs DEF LedgerInv, Typed
    <2>3. Standing'
      BY <1>2, <2>1, IdleIs DEF LedgerInv, Standing, LiveSessions
    <2> QED BY <1>2, <2>1, <2>2, <2>3, RestKeeps
  <1>3. ASSUME LedgerInv, ShutdownBegins PROVE LedgerInv'
    <2>1. loop' = [at |-> "shutdown", todo |-> LiveSessions, signals |-> {}] /\ up
          /\ UNCHANGED <<db, live, watch, focus, clock, up, edited, evidence>>
      BY <1>3 DEF ShutdownBegins, Idle, AtRest
    <2>2. LiveSessions \subseteq Sessions
      BY DEF LiveSessions
    <2>3. loop' \in Passes /\ loop'.todo = LiveSessions /\ loop'.at = "shutdown"
      BY <2>1, <2>2 DEF Passes
    <2>4. faults' \in Faults
      BY <1>3, FaultsStay DEF ShutdownBegins, LedgerInv, Typed
    <2>5. Typed'
      BY <1>3, <2>1, <2>3, <2>4 DEF LedgerInv, Typed
    <2>6. Standing'
      BY <1>3, <2>1, <2>3 DEF LedgerInv, Standing, LiveSessions
    <2> QED BY <1>3, <2>1, <2>5, <2>6, RestKeeps
  <1> QED BY <1>1, <1>2, <1>3

(* The end of a core, in order or not, keeps the ledger.                   *)
LEMMA GoneDownKeeps ==
  ASSUME LedgerInv, GoneDown, faults' \in Faults
  PROVE  LedgerInv'
  <1>1. PICK c : c = clock
    OBVIOUS
  <1>2. /\ up' = FALSE /\ live' = [s \in Sessions |-> NotLive] /\ watch' = NoWatch /\ focus' = None
        /\ loop' = Idle /\ clock' = [c EXCEPT !.ticked = None] /\ edited' = Quietly
        /\ db' = db /\ evidence' = evidence
    BY <1>1 DEF GoneDown
  <1>3. clock' \in Moments
    <2>1. PICK n : n = None
      OBVIOUS
    <2>2. n \in Perhaps(Nat) /\ clock' = [c EXCEPT !.ticked = n]
      BY <1>2, <2>1, SomeIn
    <2> QED BY <1>1, <2>2 DEF LedgerInv, Typed, Moments
  <1>4. live' \in [Sessions -> Lives] /\ \A s \in Sessions : ~live'[s].on
    BY <1>2, NotLiveIs
  <1>5. focus' \in Perhaps(Claims)
    BY <1>2, SomeIn
  <1>6. Typed'
    BY <1>2, <1>3, <1>4, <1>5, NoWatchIn, IdleIs, QuietlyIs DEF LedgerInv, Typed
  <1>7. LiveSessions' = {}
    BY <1>4 DEF LiveSessions
  <1>8. Standing'
    <2>1. Idle' = Idle
      BY DEF Idle
    <2> QED BY <1>2, <1>7, <2>1, IdleIs DEF Standing
  <1>9. \A s \in Sessions : Follows(s)'
    BY <1>4 DEF Follows
  <1> QED BY <1>2, <1>6, <1>8, <1>9 DEF LedgerInv

(* So does the recovery of the next one, done or refused.                  *)
LEMMA StartKeeps ==
  ASSUME LedgerInv, Start
  PROVE  LedgerInv'
  <1>1. UNCHANGED <<live, watch, focus, loop, clock, edited, evidence>> /\ up' = TRUE /\ ~up
    BY DEF Start
  <1>2. Balanced(db') /\ db' \in Books
    BY CloseOrphansKeeps DEF Start, LedgerInv, Balanced
  <1>3. faults' \in Faults
    BY FaultsStay DEF Start, LedgerInv, Typed
  <1>4. Typed'
    BY <1>1, <1>2, <1>3 DEF LedgerInv, Typed
  <1>5. LiveSessions = {} /\ LiveSessions' = {} /\ loop = Idle
    BY <1>1 DEF LedgerInv, Standing, LiveSessions
  <1>6. Standing'
    BY <1>1, <1>5, IdleIs DEF Standing
  <1>7. \A s \in Sessions : Follows(s)'
    BY <1>1, <1>5 DEF Follows, LiveSessions
  <1> QED BY <1>2, <1>4, <1>6, <1>7 DEF LedgerInv

(* A process that exits keeps the ledger.                                  *)
LEMMA ExitKeeps ==
  ASSUME LedgerInv, NEW s \in Sessions, ProcessExits(s)
  PROVE  LedgerInv'
  <1>1. up /\ live[s].on /\ UNCHANGED <<db, watch, focus, loop, clock, up, edited, evidence, faults>>
        /\ live' = [live EXCEPT ![s].waiter = "finished"]
    BY DEF ProcessExits
  <1>2. live[s] \in Running /\ live \in [Sessions -> Lives]
    BY <1>1, LiveIs DEF LedgerInv, Typed
  <1>3. PICK y : y = Waited(live[s], "finished")
    OBVIOUS
  <1>4. y \in Running /\ y.on /\ y.project = live[s].project /\ y.segment = live[s].segment
    BY <1>2, <1>3, Waiter
  <1>5. y \in Lives
    BY <1>4 DEF Lives
  <1>6. live' = [live EXCEPT ![s] = y]
    BY <1>1, <1>3 DEF Waited
  <1>7. /\ live' \in [Sessions -> Lives] /\ live'[s] = y
        /\ \A t \in Sessions : t # s => live'[t] = live[t]
    BY <1>2, <1>5, <1>6
  <1>8. Typed'
    BY <1>1, <1>7 DEF LedgerInv, Typed
  <1>9. LiveSessions' = LiveSessions
    BY <1>1, <1>4, <1>7 DEF LiveSessions
  <1>10. Standing'
    <2>1. Idle' = Idle
      BY DEF Idle
    <2> QED BY <1>1, <1>9, <2>1 DEF LedgerInv, Standing
  <1>11. \A t \in Sessions : Follows(t)'
    <2> SUFFICES ASSUME NEW t \in Sessions PROVE Follows(t)'
      OBVIOUS
    <2>1. Follows(t) /\ live'[t].on = live[t].on /\ (live[t].on => live'[t].project = live[t].project
          /\ live'[t].segment = live[t].segment)
      <3>1. Follows(t)
        BY DEF LedgerInv
      <3>2. y.on = live[s].on
        BY <1>2, <1>4 DEF Running
      <3> QED BY <1>4, <1>7, <3>1, <3>2
    <2> QED BY <1>1, <2>1 DEF Follows
  <1> QED BY <1>1, <1>8, <1>10, <1>11 DEF LedgerInv

(* So do the clocks, whether they run or leap.                             *)
LEMMA ClocksKeep ==
  ASSUME LedgerInv, TimePasses \/ ClockJumps
  PROVE  LedgerInv'
  <1>1. UNCHANGED <<db, live, watch, focus, loop, up, edited, evidence>>
    BY DEF TimePasses, ClockJumps
  <1>2. PICK c : c = clock
    OBVIOUS
  <1>3. c \in Moments /\ c.mono \in Nat /\ c.wall \in Nat
    BY <1>2, MomentIs DEF LedgerInv, Typed
  <1>4. clock' \in Moments /\ faults' \in Faults
    <2>1. CASE TimePasses
      <3>1. clock' = [[c EXCEPT !.mono = c.mono + 1] EXCEPT !.wall = c.wall + 1] /\ faults' = faults
        BY <1>2, <1>3, <2>1 DEF TimePasses, Moments
      <3>2. c.mono + 1 \in Nat /\ c.wall + 1 \in Nat
        BY <1>3
      <3>3. clock' \in Moments
        BY <1>3, <3>1, <3>2 DEF Moments
      <3> QED BY <3>1, <3>3 DEF LedgerInv, Typed
    <2>2. CASE ClockJumps
      <3>1. PICK j \in Jumps :
              /\ c.wall + j[1] >= 0
              /\ clock' = [c EXCEPT !.wall = c.wall + j[1], !.mono = c.mono + j[2]]
        BY <1>2, <2>2 DEF ClockJumps
      <3>2. j \in Int \X Nat
        BY Consts
      <3>3. c.wall + j[1] \in Nat /\ c.mono + j[2] \in Nat
        BY <1>3, <3>1, <3>2
      <3>4. clock' = [[c EXCEPT !.wall = c.wall + j[1]] EXCEPT !.mono = c.mono + j[2]]
        BY <3>1
      <3>5. clock' \in Moments
        BY <1>3, <3>3, <3>4 DEF Moments
      <3>6. faults' \in Faults
        BY <2>2, FaultsStay DEF ClockJumps, LedgerInv, Typed
      <3> QED BY <3>5, <3>6
    <2> QED BY <2>1, <2>2
  <1>5. Typed'
    BY <1>1, <1>4 DEF LedgerInv, Typed
  <1>6. Standing'
    BY <1>1 DEF LedgerInv, Standing, LiveSessions, Idle
  <1> QED BY <1>1, <1>5, <1>6, RestKeeps

(* Every step keeps the ledger.                                            *)
LEMMA LedgerStep == LedgerInv /\ [Next]_vars => LedgerInv'
  <1> SUFFICES ASSUME LedgerInv, [Next]_vars PROVE LedgerInv'
    OBVIOUS
  <1>1. ASSUME NEW p \in Projects, NEW wait \in BOOLEAN, Launch(p, wait) PROVE LedgerInv'
    BY <1>1, LaunchKeepsLedger
  <1>2. ASSUME NEW claim \in {None} \cup {Some(p) : p \in faults.of}, SetFocus(claim) PROVE LedgerInv'
    BY <1>2, SetFocusKeeps
  <1>3. ASSUME NEW s \in Sessions, Stop(s) \/ ProcessExits(s) PROVE LedgerInv'
    BY <1>3, StopKeeps, ExitKeeps
  <1>4. CASE PumpBegins \/ TickReaps \/ TickEnds \/ ShutdownBegins
    BY <1>4, PumpBeginsKeeps, TurnsKeep
  <1>5. CASE TickObserve \/ TickReap \/ ShutdownOne
    BY <1>5, PassesKeep
  <1>6. CASE ShutdownEnds
    <2>1. GoneDown /\ faults' \in Faults
      BY <1>6 DEF ShutdownEnds, LedgerInv, Typed
    <2> QED BY <2>1, GoneDownKeeps
  <1>7. CASE Crash
    <2>1. GoneDown /\ faults' \in Faults
      BY <1>7, FaultsStay DEF Crash, LedgerInv, Typed
    <2> QED BY <2>1, GoneDownKeeps
  <1>8. CASE Start
    BY <1>8, StartKeeps
  <1>9. ASSUME NEW p \in Projects, Edit(p) PROVE LedgerInv'
    BY <1>9, EditKeeps
  <1>10. CASE TimePasses \/ ClockJumps \/ WatcherErrs
    BY <1>10, ClocksKeep, WatcherErrsKeeps
  <1>11. CASE UNCHANGED vars
    <2>1. UNCHANGED <<db, live>> /\ Typed'
      BY <1>11 DEF vars, LedgerInv, Typed
    <2>2. Standing'
      BY <1>11 DEF vars, LedgerInv, Standing, LiveSessions, Idle
    <2> QED BY <2>1, <2>2, RestKeeps
  <1> QED BY <1>1, <1>2, <1>3, <1>4, <1>5, <1>6, <1>7, <1>8, <1>9, <1>10, <1>11 DEF Next

(* The invariant of the ledger, whatever is refused and however the clocks jump. *)
THEOREM LedgerHolds == Spec => []LedgerInv
  BY LedgerInit, LedgerStep, PTL DEF Spec

(* store.rs:7: the stored credit of a closed session is its segments' sum. *)
THEOREM CreditIsTheSum == Spec => []ClosedCreditIsTheSum
  <1>1. LedgerInv => ClosedCreditIsTheSum
    BY DEF LedgerInv, Balanced, SumsHold, ClosedCreditIsTheSum
  <1> QED BY <1>1, LedgerHolds, PTL

(* measure.rs:77: what is paid for a day is the union of its counted seconds. *)
THEOREM PaidIsTheDaysUnion == Spec => []FocusIsTheUnion
  <1>1. LedgerInv => FocusIsTheUnion
    BY DEF LedgerInv, Balanced, PaidIsTheUnion, PaidOn, CoveredOn, FocusIsTheUnion, Days
  <1> QED BY <1>1, LedgerHolds, PTL

(* Rows, live entries, passes and clocks keep to their types, no segment a *)
(* live session writes is out of range, no closed session ends before it   *)
(* started and no pass meets a session that is gone (manager.rs, store.rs).*)
THEOREM SpecTypeOK == Spec => []TypeOK
  <1>1. ASSUME LedgerInv PROVE TypeOK
    <2>0. db \in Books /\ live \in [Sessions -> Lives] /\ loop \in Passes /\ up \in BOOLEAN
      BY <1>1 DEF LedgerInv, Typed
    <2>1. ASSUME NEW s \in Sessions
          PROVE /\ db.sess[s].state \in {"none", "open", "closed"}
                /\ db.sess[s].state = "closed" =>
                     /\ db.sess[s].reason \in {"stop", "idle", "process_exit", "app_exit", "orphaned"}
                     /\ db.sess[s].ended >= db.sess[s].started
      <3>1. db.sess[s].state = "closed" => db.sess[s] \in Closed
        BY <2>0, BooksHold
      <3>2. db.sess[s].state = "closed" => db.sess[s].ended >= db.sess[s].started
        BY <1>1 DEF LedgerInv, Balanced, SumsHold
      <3> QED BY <2>0, <3>1, <3>2, BooksHold DEF Closed, Reasons
    <2>2. ASSUME NEW s \in Sessions, live[s].on
          PROVE /\ live[s].machine \in Machines
                /\ live[s].segment \in 0 .. Len(db.segs)
                /\ live[s].waiter \in {"none", "running", "finished"}
      <3>1. live[s] \in Lives
        BY <2>0
      <3>2. live[s].segment # 0 => live[s].segment \in DOMAIN db.segs
        BY <1>1, <2>2 DEF LedgerInv, Follows
      <3>3. live[s].segment \in 0 .. Len(db.segs)
        BY <2>0, <2>2, <3>1, <3>2, LiveIs, BooksHold
      <3> QED BY <2>2, <3>1, <3>3, LiveIs
    <2>3. ASSUME NEW g \in DOMAIN db.segs
          PROVE /\ db.segs[g].session \in Sessions
                /\ db.segs[g].by \in {"open", "idle", "session_end", "app_exit", "crash"}
                /\ {db.segs[g].started, db.segs[g].ended, db.segs[g].credit} \subseteq Nat
      BY <2>0, BooksHold, SegmentHas DEF Bys
    <2>4. /\ loop.at \in {"idle", "observe", "reap", "shutdown"} /\ loop.todo \subseteq LiveSessions
          /\ up \in BOOLEAN /\ (~up => LiveSessions = {})
      BY <1>1, <2>0, PassIs DEF LedgerInv, Standing
    <2> QED BY <2>1, <2>2, <2>3, <2>4 DEF TypeOK
  <1> QED BY <1>1, LedgerHolds, PTL

-----------------------------------------------------------------------------
(* The watch: an edit of a live session's worktree waits in the watcher.   *)

(* A watch that lost s's root, and the sessions that lose their OS watch with it. *)
LEMMA UnwatchIs ==
  ASSUME Typed, NEW s \in Sessions
  PROVE  /\ Unwatch(s).roots[s] = None /\ Unwatch(s).rx = watch.rx
         /\ \A t \in Sessions : t # s => Unwatch(s).roots[t] = watch.roots[t]
         /\ watch.outlived \subseteq Unwatch(s).outlived
         /\ \A p \in watch.os : watch.roots[s] # Some(p) => p \in Unwatch(s).os
         /\ \A t \in Sessions : t # s /\ watch.roots[s] # None /\ watch.roots[t] = watch.roots[s] =>
              t \in Unwatch(s).outlived
  <1>1. CASE watch.roots[s] = None
    BY <1>1 DEF Unwatch
  <1>2. CASE watch.roots[s] # None
    <2>1. PICK w : w = watch
      OBVIOUS
    <2>2. PICK n : n = None
      OBVIOUS
    <2>3. PICK r : r = [w.roots EXCEPT ![s] = n]
      OBVIOUS
    <2>4. PICK o : o = w.os \ {w.roots[s][1]}
      OBVIOUS
    <2>5. PICK v : v = w.outlived \cup Sharing(s)
      OBVIOUS
    <2>6. w \in Watches /\ w.roots \in [Sessions -> Perhaps(Projects)]
      BY <2>1 DEF Typed, Watches
    <2>7. Unwatch(s) = [[[w EXCEPT !.roots = r] EXCEPT !.os = o] EXCEPT !.outlived = v]
      BY <1>2, <2>1, <2>2, <2>3, <2>4, <2>5, <2>6 DEF Unwatch, Watches
    <2>8. Unwatch(s).roots = r /\ Unwatch(s).os = o /\ Unwatch(s).rx = w.rx /\ Unwatch(s).outlived = v
      BY <2>6, <2>7 DEF Watches
    <2>9. r[s] = None /\ \A t \in Sessions : t # s => r[t] = w.roots[t]
      BY <2>2, <2>3, <2>6
    <2>10. w.roots[s] = Some(w.roots[s][1])
      BY <1>2, <2>1, <2>6, PerhapsIs
    <2>11. \A t \in Sessions : t # s /\ watch.roots[t] = watch.roots[s] => t \in v
      BY <2>5 DEF Sharing
    <2> QED BY <2>1, <2>4, <2>5, <2>8, <2>9, <2>10, <2>11
  <1> QED BY <1>1, <1>2

(* What leaves the watch and the live projects alone keeps its invariant.  *)
LEMMA SilentWatch ==
  ASSUME WatchInv, LedgerInv, UNCHANGED <<watch, edited>>, faults.met => faults'.met,
         \A s \in Sessions : (live'[s].on <=> live[s].on) /\ (live[s].on => live'[s].project = live[s].project),
         \A s \in Sessions : db'.sess[s].state = "none" => db.sess[s].state = "none"
  PROVE  WatchInv'
  <1>1. \A s \in Sessions : Watched(s)'
    BY DEF WatchInv, Watched
  <1>2. \A i \in 1 .. Len(edited') : edited'[i] \subseteq Sessions
    BY ChannelIs DEF LedgerInv, Typed
  <1>3. \A i \in 1 .. Len(edited') : \A s \in edited'[i] : db'.sess[s].state # "none"
    BY <1>2 DEF WatchInv
  <1> QED BY <1>1, <1>3 DEF WatchInv

(* A transaction does: one that ends the session takes its root away, and  *)
(* the OS watch from those that share it.                                  *)
LEMMA TransactionWatches ==
  ASSUME WatchInv, LedgerInv, NEW s \in Sessions, live[s].on, NEW l, Handed(l, s), NEW step \in Steps,
         Commit(l, s, step) \/ Refuse(l, s, step), edited' = edited
  PROVE  WatchInv'
  <1>1. Typed /\ live \in [Sessions -> Lives]
    BY DEF LedgerInv, Typed
  <1>0. faults.met => faults'.met
    BY FaultsStay DEF Commit, Refuse, LedgerInv, Typed
  <1>2. CASE Refuse(l, s, step)
    <2>1. /\ db' = db /\ watch' = watch /\ live' \in [Sessions -> Lives]
          /\ \A t \in Sessions : t # s => live'[t] = live[t]
          /\ live'[s].on /\ live'[s].project = live[s].project
      BY <1>2, RefuseLeaves
    <2>2. \A t \in Sessions : (live'[t].on <=> live[t].on) /\ (live[t].on => live'[t].project = live[t].project)
      <3> SUFFICES ASSUME NEW t \in Sessions
                   PROVE  (live'[t].on <=> live[t].on) /\ (live[t].on => live'[t].project = live[t].project)
        OBVIOUS
      <3>1. CASE t = s
        BY <2>1, <3>1
      <3>2. CASE t # s
        BY <2>1, <3>2
      <3> QED BY <3>1, <3>2
    <2> QED BY <1>0, <2>1, <2>2, SilentWatch
  <1>3. CASE Commit(l, s, step)
    <2>1. /\ Balanced(db') /\ WritesFor(s, db, db')
          /\ live' \in [Sessions -> Lives] /\ (\A t \in Sessions : t # s => live'[t] = live[t])
          /\ step.out.ended # None =>
              live'[s] = NotLive /\ ~live'[s].on /\ watch' = Unwatch(s) /\ db'.sess[s].state = "closed"
          /\ step.out.ended = None =>
              /\ watch' = watch /\ live'[s].on /\ db'.sess[s] = db.sess[s]
              /\ live'[s].project = live[s].project
      BY <1>3, CommitLeaves
    <2>2. db'.sess[s].state # "none"
      BY <2>1 DEF LedgerInv, Follows
    <2>3. \A t \in Sessions : db'.sess[t].state = "none" => db.sess[t].state = "none"
      BY <2>1, <2>2 DEF WritesFor
    <2>4. CASE step.out.ended = None
      <3>1. \A t \in Sessions : (live'[t].on <=> live[t].on) /\ (live[t].on => live'[t].project = live[t].project)
        <4> SUFFICES ASSUME NEW t \in Sessions
                     PROVE  (live'[t].on <=> live[t].on) /\ (live[t].on => live'[t].project = live[t].project)
          OBVIOUS
        <4> QED BY <2>1, <2>4
      <3> QED BY <1>0, <2>1, <2>3, <2>4, <3>1, SilentWatch
    <2>5. CASE step.out.ended # None
      <3>1. live'[s] = NotLive /\ watch' = Unwatch(s) /\ ~live'[s].on /\ watch'.rx = watch.rx
        BY <1>1, <2>1, <2>5, UnwatchIs
      <3>2. ASSUME NEW t \in Sessions PROVE Watched(t)'
        <4>1. CASE t = s
          BY <1>1, <3>1, <4>1, UnwatchIs DEF Watched
        <4>2. CASE t # s
          <5>1. CASE watch'.roots[t] = None
            BY <5>1 DEF Watched
          <5>2. CASE watch'.roots[t] # None
            <6>1. /\ live[t].on /\ watch.roots[t] = Some(live[t].project) /\ watch'.roots[t] = watch.roots[t]
                  /\ t \notin watch.outlived =>
                       /\ live[t].project \in watch.os
                       /\ \A i \in 1 .. Len(edited) : t \in edited[i] => live[t].project \in watch.rx[i]
              BY <1>1, <3>1, <4>2, <5>2, UnwatchIs DEF WatchInv, Watched
            <6>2. live'[t] = live[t]
              BY <2>1, <4>2
            <6>3. ASSUME t \notin watch'.outlived
                  PROVE  t \notin watch.outlived /\ live[t].project \in watch'.os
              <7>1. t \notin watch.outlived /\ (watch.roots[s] # None => watch.roots[t] # watch.roots[s])
                BY <1>1, <3>1, <4>2, <6>3, UnwatchIs
              <7>2. watch.roots[s] # Some(live[t].project)
                BY <6>1, <7>1, Options
              <7> QED BY <1>1, <3>1, <6>1, <7>1, <7>2, UnwatchIs
            <6> QED BY <3>1, <6>1, <6>2, <6>3 DEF Watched
          <5> QED BY <5>1, <5>2
        <4> QED BY <4>1, <4>2
      <3>3. \A i \in 1 .. Len(edited') : \A t \in edited'[i] : db'.sess[t].state # "none"
        <4>1. \A i \in 1 .. Len(edited) : edited[i] \subseteq Sessions
          BY <1>1, ChannelIs DEF Typed
        <4> QED BY <2>3, <4>1 DEF WatchInv
      <3> QED BY <1>0, <3>1, <3>2, <3>3 DEF WatchInv
    <2> QED BY <2>4, <2>5
  <1> QED BY <1>2, <1>3

(* A launch does: no edit is of the new session yet.                       *)
LEMMA LaunchWatches ==
  ASSUME WatchInv, LedgerInv, NEW p \in Projects, NEW wait \in BOOLEAN, Launch(p, wait)
  PROVE  WatchInv'
  <1>0. /\ edited' = edited /\ \A i \in 1 .. Len(edited) : edited[i] \subseteq Sessions
        /\ \E s \in Sessions : LaunchedAs(s, p, wait)
    BY LaunchLeaves, ChannelIs DEF LedgerInv, Typed
  <1>1. PICK s \in Sessions : LaunchedAs(s, p, wait)
    BY <1>0
  <1>2. ~live[s].on /\ watch.roots[s] = None /\ \A i \in 1 .. Len(edited) : s \notin edited[i]
    BY <1>1 DEF LedgerInv, Follows, WatchInv, Watched, LaunchedAs
  <1>3. PICK x : x = Launched(p, wait)
    OBVIOUS
  <1>4. x.on /\ x.project = p
    BY <1>3, LaunchRunning
  <1>5. live'[s] = x /\ \A t \in Sessions : t # s => live'[t] = live[t]
    BY <1>1, <1>3 DEF LaunchedAs
  <1>6. /\ watch'.rx = watch.rx /\ watch.os \subseteq watch'.os /\ watch'.outlived = watch.outlived
        /\ \A t \in Sessions : t # s => watch'.roots[t] = watch.roots[t]
        /\ watch'.roots[s] # None => watch'.roots[s] = Some(p) /\ p \in watch'.os
        /\ faults'.met = faults.met
    BY <1>1, <1>2 DEF LaunchedAs
  <1>7. ASSUME NEW t \in Sessions PROVE Watched(t)'
    <2>1. CASE t = s
      BY <1>0, <1>2, <1>4, <1>5, <1>6, <2>1 DEF Watched
    <2>2. CASE t # s
      <3>1. live'[t] = live[t] /\ watch'.roots[t] = watch.roots[t] /\ Watched(t)
        BY <1>5, <1>6, <2>2 DEF WatchInv
      <3> QED BY <1>0, <1>6, <3>1 DEF Watched
    <2> QED BY <2>1, <2>2
  <1>8. \A i \in 1 .. Len(edited') : \A t \in edited'[i] : db'.sess[t].state # "none"
    <2> SUFFICES ASSUME NEW i \in 1 .. Len(edited), NEW t \in edited[i] PROVE db'.sess[t].state # "none"
      BY <1>0
    <2>1. t \in Sessions /\ t # s /\ db.sess[t].state # "none"
      BY <1>0, <1>2 DEF WatchInv
    <2> QED BY <1>1, <2>1 DEF WritesFor, LaunchedAs
  <1> QED BY <1>0, <1>6, <1>7, <1>8 DEF WatchInv

(* An edit of a watched root is in the watcher, behind the last error.     *)
LEMMA EditWatches ==
  ASSUME WatchInv, LedgerInv, NEW p \in Projects, Edit(p)
  PROVE  WatchInv'
  <1>1. PICK w : w = watch
    OBVIOUS
  <1>2. PICK n : n = Len(edited)
    OBVIOUS
  <1>3. PICK seen : seen = {s \in LiveSessions : live[s].project = p}
    OBVIOUS
  <1>4. /\ edited' = WithLast(edited, seen)
        /\ watch' = IF p \in w.os THEN [w EXCEPT !.rx = WithLast(w.rx, {p})] ELSE w
        /\ UNCHANGED <<db, live, faults>>
    BY <1>1, <1>3 DEF Edit
  <1>5. /\ w \in Watches /\ w.rx \in Channel(Projects) /\ {p} \in SUBSET Projects
        /\ edited \in Channel(Sessions) /\ seen \in SUBSET Sessions /\ Len(w.rx) = n /\ n \in Nat
    BY <1>1, <1>2, <1>3, ChannelIs DEF LedgerInv, Typed, Watches, LiveSessions, WatchInv
  <1>6. /\ Len(edited') = n /\ edited'[n] = edited[n] \cup seen
        /\ \A i \in 1 .. n : i # n => edited'[i] = edited[i]
    BY <1>2, <1>4, <1>5, WithLastIs
  <1>7. /\ watch'.roots = w.roots /\ watch'.os = w.os /\ watch'.outlived = w.outlived /\ Len(watch'.rx) = n
        /\ \A i \in 1 .. n : w.rx[i] \subseteq watch'.rx[i]
        /\ p \in w.os => p \in watch'.rx[n]
    <2>1. CASE p \in w.os
      <3>1. watch'.roots = w.roots /\ watch'.os = w.os /\ watch'.outlived = w.outlived
            /\ watch'.rx = WithLast(w.rx, {p})
        BY <1>4, <1>5, <2>1 DEF Watches
      <3>2. /\ Len(watch'.rx) = n /\ watch'.rx[n] = w.rx[n] \cup {p}
            /\ \A i \in 1 .. n : i # n => watch'.rx[i] = w.rx[i]
        BY <1>5, <3>1, WithLastIs
      <3> QED BY <1>5, <3>1, <3>2
    <2>2. CASE p \notin w.os
      BY <1>4, <1>5, <2>2
    <2> QED BY <2>1, <2>2
  <1>8. ASSUME NEW s \in Sessions PROVE Watched(s)'
    <2> SUFFICES ASSUME watch'.roots[s] # None
                 PROVE  /\ live[s].on /\ watch.roots[s] = Some(live[s].project)
                        /\ s \notin watch.outlived =>
                             /\ live[s].project \in watch'.os
                             /\ \A i \in 1 .. n : s \in edited'[i] => live[s].project \in watch'.rx[i]
      BY <1>1, <1>4, <1>6, <1>7 DEF Watched
    <2>1. /\ live[s].on /\ watch.roots[s] = Some(live[s].project)
          /\ s \notin watch.outlived =>
               /\ live[s].project \in watch.os
               /\ \A i \in 1 .. n : s \in edited[i] => live[s].project \in watch.rx[i]
      BY <1>1, <1>2, <1>7 DEF WatchInv, Watched
    <2>2. ASSUME s \notin watch.outlived, NEW i \in 1 .. n, s \in edited'[i]
          PROVE  live[s].project \in watch'.rx[i]
      <3>1. CASE s \in edited[i]
        BY <1>1, <1>7, <2>1, <2>2, <3>1
      <3>2. CASE s \notin edited[i]
        <4>1. i = n /\ s \in seen
          BY <1>6, <2>2, <3>2
        <4> QED BY <1>1, <1>3, <1>7, <2>1, <2>2, <4>1
      <3> QED BY <3>1, <3>2
    <2> QED BY <1>1, <1>7, <2>1, <2>2
  <1>9. ASSUME NEW i \in 1 .. n, NEW s \in edited'[i] PROVE db.sess[s].state # "none"
    <2>1. CASE s \in edited[i]
      BY <1>2, <2>1 DEF WatchInv
    <2>2. CASE s \in seen
      BY <1>3, <2>2 DEF LedgerInv, Follows, LiveSessions
    <2> QED BY <1>6, <1>9, <2>1, <2>2
  <1> QED BY <1>2, <1>4, <1>6, <1>7, <1>8, <1>9 DEF WatchInv

(* An error of the watcher begins a batch on both sides.                   *)
LEMMA WatcherErrsWatches ==
  ASSUME WatchInv, LedgerInv, WatcherErrs
  PROVE  WatchInv'
  <1>1. PICK w : w = watch
    OBVIOUS
  <1>2. PICK n : n = Len(edited)
    OBVIOUS
  <1>3. /\ watch' = [w EXCEPT !.rx = Append(w.rx, {})] /\ edited' = Append(edited, {})
        /\ UNCHANGED <<db, live>> /\ faults'.met
    BY <1>1, FaultsStay DEF WatcherErrs, LedgerInv, Typed
  <1>4. /\ w \in Watches /\ w.rx \in Channel(Projects) /\ edited \in Channel(Sessions)
        /\ Len(w.rx) = n /\ n \in Nat
    BY <1>1, <1>2, ChannelIs DEF LedgerInv, Typed, Watches, WatchInv
  <1>5. watch'.roots = w.roots /\ watch'.os = w.os /\ watch'.outlived = w.outlived
        /\ watch'.rx = Append(w.rx, {})
    BY <1>3, <1>4 DEF Watches
  <1>6. /\ Len(edited') = n + 1 /\ Len(watch'.rx) = n + 1 /\ edited'[n + 1] = {}
        /\ \A i \in 1 .. n : edited'[i] = edited[i] /\ watch'.rx[i] = w.rx[i]
    BY <1>2, <1>3, <1>4, <1>5, ErrorIs
  <1>7. \A i \in 1 .. n + 1 : i = n + 1 \/ i \in 1 .. n
    BY <1>4
  <1>8. \A i \in 1 .. n + 1 : \A s \in edited'[i] : i \in 1 .. n /\ s \in edited[i] /\ watch'.rx[i] = watch.rx[i]
    BY <1>1, <1>6, <1>7
  <1>9. ASSUME NEW s \in Sessions PROVE Watched(s)'
    <2>1. Watched(s) /\ live'[s] = live[s]
      BY <1>3 DEF WatchInv
    <2> QED BY <1>1, <1>2, <1>5, <1>6, <1>8, <2>1 DEF Watched
  <1>10. \A i \in 1 .. Len(edited') : \A s \in edited'[i] : db'.sess[s].state # "none"
    BY <1>2, <1>3, <1>6, <1>8 DEF WatchInv
  <1> QED BY <1>3, <1>6, <1>9, <1>10 DEF WatchInv

(* A drain takes the first batch of both.                                  *)
LEMMA PumpWatches ==
  ASSUME WatchInv, LedgerInv, PumpBegins
  PROVE  WatchInv'
  <1>1. PICK w : w = watch
    OBVIOUS
  <1>2. PICK n : n = Len(edited)
    OBVIOUS
  <1>3. /\ watch' = [w EXCEPT !.rx = Drained(w.rx)] /\ edited' = Drained(edited)
        /\ UNCHANGED <<db, live, faults>>
    BY <1>1 DEF PumpBegins
  <1>4. /\ w \in Watches /\ w.rx \in Channel(Projects) /\ edited \in Channel(Sessions)
        /\ Len(w.rx) = n /\ n \in Nat /\ n > 0
    BY <1>1, <1>2, ChannelIs DEF LedgerInv, Typed, Watches, WatchInv
  <1>5. watch'.roots = w.roots /\ watch'.os = w.os /\ watch'.outlived = w.outlived
        /\ watch'.rx = Drained(w.rx)
    BY <1>3, <1>4 DEF Watches
  <1>6. /\ Len(edited') = Len(watch'.rx) /\ (n = 1 => Len(edited') = 1)
        /\ \A i \in 1 .. Len(edited') : \A s \in edited'[i] :
             i + 1 \in 1 .. n /\ s \in edited[i + 1] /\ watch'.rx[i] = watch.rx[i + 1]
    <2>1. CASE n = 1
      <3>1. edited' = Quietly /\ watch'.rx = Quietly
        BY <1>2, <1>3, <1>4, <1>5, <2>1, DrainedIs
      <3>2. Len(edited') = 1 /\ edited'[1] = {}
        BY <3>1, QuietlyIs
      <3> QED BY <3>1, <3>2
    <2>2. CASE n # 1
      <3>e. Len(edited') = n - 1 /\ \A i \in 1 .. n - 1 : edited'[i] = edited[i + 1]
        BY <1>2, <1>3, <1>4, <2>2, DrainedIs
      <3>w. /\ Len(Drained(w.rx)) = n - 1
            /\ \A i \in 1 .. n - 1 : Drained(w.rx)[i] = w.rx[i + 1]
        BY <1>4, <2>2, DrainedIs
      <3>1. /\ Len(edited') = n - 1 /\ Len(watch'.rx) = n - 1
            /\ \A i \in 1 .. n - 1 : edited'[i] = edited[i + 1] /\ watch'.rx[i] = w.rx[i + 1]
        BY <1>5, <3>e, <3>w
      <3>2. \A i \in 1 .. n - 1 : i + 1 \in 1 .. n
        BY <1>4
      <3> QED BY <1>1, <2>2, <3>1, <3>2
    <2> QED BY <2>1, <2>2
  <1>7. ASSUME NEW s \in Sessions PROVE Watched(s)'
    <2>1. Watched(s) /\ live'[s] = live[s]
      BY <1>3 DEF WatchInv
    <2> QED BY <1>1, <1>2, <1>5, <1>6, <2>1 DEF Watched
  <1>8. \A i \in 1 .. Len(edited') : \A s \in edited'[i] : db'.sess[s].state # "none"
    BY <1>2, <1>3, <1>6 DEF WatchInv
  <1> QED BY <1>2, <1>3, <1>6, <1>7, <1>8 DEF WatchInv

(* Every step keeps the watch.                                             *)
LEMMA WatchStep ==
  ASSUME WatchInv, LedgerInv, [Next]_vars
  PROVE  WatchInv'
  <1>1. ASSUME NEW p \in Projects, NEW wait \in BOOLEAN, Launch(p, wait) PROVE WatchInv'
    BY <1>1, LaunchWatches
  <1>2. ASSUME NEW s \in Sessions, Stop(s) PROVE WatchInv'
    <2>1. PICK step \in Steps : Commit(live, s, step) \/ Refuse(live, s, step)
      BY <1>2, StopIs
    <2>2. live[s].on /\ Handed(live, s) /\ edited' = edited
      BY <1>2, StopIs
    <2> QED BY <2>1, <2>2, TransactionWatches
  <1>3. ASSUME NEW s \in loop.todo, live[s].on, NEW step \in Steps, NEW l, Handed(l, s),
               Apply(l, s, step), edited' = edited
        PROVE  WatchInv'
    BY <1>3, ApplyIs, TransactionWatches
  <1>4. CASE TickObserve
    BY <1>3, <1>4, ObserveIs
  <1>5. CASE TickReap
    <2>1. edited' = edited
      BY <1>5, ReapIs
    <2>2. CASE UNCHANGED <<db, live, watch, faults>>
      BY <2>1, <2>2, SilentWatch
    <2>3. CASE ~UNCHANGED <<db, live, watch, faults>>
      <3>1. PICK s \in loop.todo :
              live[s].on /\ \E step \in Steps : \E l : Handed(l, s) /\ Apply(l, s, step)
        BY <1>5, <2>3, ReapIs
      <3> QED BY <1>3, <2>1, <3>1
    <2> QED BY <2>2, <2>3
  <1>6. CASE ShutdownOne
    BY <1>3, <1>6, ShutdownOneIs
  <1>7. ASSUME NEW s \in Sessions, ProcessExits(s) PROVE WatchInv'
    <2>1. /\ UNCHANGED <<db, watch, edited, faults>> /\ live' = [live EXCEPT ![s].waiter = "finished"]
          /\ live[s].on
      BY <1>7 DEF ProcessExits
    <2>2. live[s] \in Running /\ live \in [Sessions -> Lives]
      BY <2>1, LiveIs DEF LedgerInv, Typed
    <2>3. PICK y : y = Waited(live[s], "finished")
      OBVIOUS
    <2>4. y \in Running /\ y.on /\ y.project = live[s].project
      BY <2>2, <2>3, Waiter
    <2>5. live' = [live EXCEPT ![s] = y]
      BY <2>1, <2>3 DEF Waited
    <2>7. \A t \in Sessions : (live'[t].on <=> live[t].on) /\ (live[t].on => live'[t].project = live[t].project)
      BY <2>1, <2>2, <2>4, <2>5
    <2> QED BY <2>1, <2>7, SilentWatch
  <1>8. CASE PumpBegins
    BY <1>8, PumpWatches
  <1>9. CASE GoneDown
    <2>1. PICK r : r = [s \in Sessions |-> None]
      OBVIOUS
    <2>2. /\ watch' = [roots |-> r, os |-> {}, rx |-> Quietly, outlived |-> {}] /\ edited' = Quietly
          /\ live' = [s \in Sessions |-> NotLive]
      BY <1>9, <2>1 DEF GoneDown, NoWatch
    <2>3. \A s \in Sessions : watch'.roots[s] = None /\ ~live'[s].on
      BY <2>1, <2>2, NotLiveIs
    <2>4. Len(Quietly) = 1 /\ \A i \in 1 .. 1 : Quietly[i] = {}
      BY DEF Quietly
    <2> QED BY <2>2, <2>3, <2>4 DEF WatchInv, Watched
  <1>10. CASE Start
    <2>1. UNCHANGED <<live, watch, edited>> /\ (db' = db \/ db' = CloseOrphans(db)) /\ (faults.met => faults'.met)
      BY <1>10, FaultsStay DEF Start, LedgerInv, Typed
    <2>2. \A s \in Sessions : db'.sess[s].state = "none" => db.sess[s].state = "none"
      <3>1. CASE db' = CloseOrphans(db)
        <4>1. Balanced(db)
          BY DEF LedgerInv
        <4>2. /\ \A s \in Sessions : db.sess[s].state # "open" => db'.sess[s] = db.sess[s]
              /\ \A s \in Sessions : db.sess[s].state = "open" => db'.sess[s].state = "closed"
          BY <3>1, <4>1, CloseOrphansKeeps DEF Orphaned
        <4> QED BY <4>2
      <3> QED BY <2>1, <3>1
    <2> QED BY <2>1, <2>2, SilentWatch
  <1>11. ASSUME NEW p \in Projects, Edit(p) PROVE WatchInv'
    BY <1>11, EditWatches
  <1>12. CASE UNCHANGED <<db, live, watch, edited>> /\ (faults.met => faults'.met)
    BY <1>12, SilentWatch
  <1>13. ASSUME NEW claim, SetFocus(claim) PROVE UNCHANGED <<db, live, watch, edited, faults>>
    BY <1>13 DEF SetFocus
  <1>14. CASE TickReaps \/ TickEnds \/ ShutdownBegins \/ TimePasses \/ ClockJumps \/ UNCHANGED vars
    <2>1. faults.met => faults'.met
      BY <1>14, FaultsStay DEF TickReaps, TickEnds, ShutdownBegins, TimePasses, ClockJumps, vars, LedgerInv, Typed
    <2> QED BY <1>12, <1>14, <2>1 DEF TickReaps, TickEnds, ShutdownBegins, TimePasses, ClockJumps, vars
  <1>15. CASE WatcherErrs
    BY <1>15, WatcherErrsWatches
  <1>16. ShutdownEnds \/ Crash => GoneDown
    BY DEF ShutdownEnds, Crash
  <1> QED BY <1>1, <1>2, <1>4, <1>5, <1>6, <1>7, <1>8, <1>9, <1>10, <1>11, <1>12, <1>13, <1>14, <1>15, <1>16
         DEF Next

(* No session, no watch.                                                   *)
LEMMA WatchInit == Init => WatchInv
  <1> SUFFICES ASSUME Init PROVE WatchInv
    OBVIOUS
  <1>1. PICK r : r = [s \in Sessions |-> None]
    OBVIOUS
  <1>2. /\ watch = [roots |-> r, os |-> {}, rx |-> Quietly, outlived |-> {}] /\ edited = Quietly
        /\ live = [s \in Sessions |-> NotLive]
    BY <1>1 DEF Init, NoWatch
  <1>3. \A s \in Sessions : watch.roots[s] = None /\ ~live[s].on
    BY <1>1, <1>2, NotLiveIs
  <1>4. Len(Quietly) = 1 /\ \A i \in 1 .. 1 : Quietly[i] = {}
    BY DEF Quietly
  <1> QED BY <1>2, <1>3, <1>4 DEF WatchInv, Watched

(* The watch holds in every state.                                         *)
THEOREM WatchHolds == Spec => []WatchInv
  <1>1. LedgerInv /\ WatchInv /\ [Next]_vars => WatchInv'
    BY WatchStep
  <1> QED BY <1>1, WatchInit, LedgerHolds, PTL DEF Spec

(* An edited session that is alone on its root is the one the root's event goes to. *)
LEMMA HeardIs ==
  ASSUME WatchInv, LedgerInv, PumpBegins, NEW s \in LiveSessions \cap edited[1],
         watch.roots[s] # None, Alone(s)
  PROVE  s \in loop'.signals
  <1> DEFINE p == live[s].project
  <1>0. 1 \in 1 .. Len(edited)
    <2>1. edited \in Channel(Sessions)
      BY DEF LedgerInv, Typed
    <2>2. Len(edited) \in Nat /\ Len(edited) > 0
      BY <2>1, ChannelIs
    <2> QED BY <2>2
  <1>1. s \in Sessions /\ live[s].on /\ watch.roots[s] = Some(p) /\ p \in watch.rx[1]
    BY <1>0 DEF LiveSessions, WatchInv, Watched, Alone
  <1>2. ASSUME NEW t \in Sessions, watch.roots[t] = Some(p) PROVE ~(t < s)
    <2>1. t \in LiveSessions
      BY <1>2, Options DEF WatchInv, Watched, LiveSessions
    <2> QED BY <1>1, <1>2, <2>1 DEF Alone
  <1>3. s \in Absorbed(p) /\ Absorbed(p) \subseteq Sessions /\ \A t \in Absorbed(p) : ~(t < s)
    BY <1>1, <1>2 DEF Absorbed
  <1>4. Sessions \subseteq Nat
    BY Consts DEF Sessions
  <1>5. FirstOf(Absorbed(p)) = s
    <2>1. \A t \in Absorbed(p) : s <= t
      BY <1>1, <1>3, <1>4
    <2>2. ASSUME NEW x \in Absorbed(p), \A t \in Absorbed(p) : x <= t PROVE x = s
      <3>1. x \in Nat /\ s \in Nat
        BY <1>1, <1>3, <1>4
      <3>2. x <= s /\ s <= x
        BY <1>3, <2>1, <2>2
      <3> QED BY <3>1, <3>2
    <2> QED BY <1>3, <2>1, <2>2 DEF FirstOf
  <1>6. s \in Heard
    BY <1>1, <1>3, <1>5 DEF Heard
  <1> QED BY <1>6 DEF PumpBegins

(* watch.rs:37: a tick signals every live session whose watched worktree was *)
(* edited since the last one, or since the error before, when no older      *)
(* session shares its root and none that did has ended, whatever was        *)
(* launched twice, refused or reported by the watcher.                      *)
THEOREM EditsReachTheTick == Spec => EditsAreHeard
  <1>1. LedgerInv /\ WatchInv /\ [Next]_vars =>
          [PumpBegins => \A s \in LiveSessions \cap edited[1] :
             watch.roots[s] # None /\ Alone(s) => s \in loop'.signals]_vars
    BY HeardIs
  <1> QED BY <1>1, WatchHolds, LedgerHolds, PTL DEF Spec, EditsAreHeard

-----------------------------------------------------------------------------
(* Time: what an outcome does to the machine, the segment and their evidence. *)

(* How long a segment lasts is some time. *)
LEMMA LastingIs ==
  Lasting \in Nat /\ Lasting > 0 /\ Lasting = SegmentIdle + TickPeriod - 1
  BY Consts DEF Lasting

(* A span with another that begins within it or right after. *)
LEMMA SpansMeet ==
  ASSUME NEW a \in Int, NEW b \in Int, NEW c \in Int, NEW d \in Int, NEW E, c <= b + 1,
         a .. b \subseteq E, c .. d \subseteq E
  PROVE  a .. d \subseteq E
  <1> SUFFICES ASSUME NEW t \in a .. d PROVE t \in E
    OBVIOUS
  <1>1. t \in a .. b \/ t \in c .. d
    OBVIOUS
  <1> QED BY <1>1

(* A span within another. *)
LEMMA SpanWithin ==
  ASSUME NEW a \in Int, NEW b \in Int, NEW c \in Int, NEW d \in Int, NEW E,
         a .. b \subseteq E, a <= c, d <= b
  PROVE  c .. d \subseteq E
  <1> SUFFICES ASSUME NEW t \in c .. d PROVE t \in E
    OBVIOUS
  <1>1. t \in a .. b
    OBVIOUS
  <1> QED BY <1>1

(* A segment's seconds and end, by how its row was written. *)
LEMMA RowsWritten ==
  ASSUME NEW r \in Segment
  PROVE  /\ \A at \in Nat : LET q == Marked(r, at) IN
              /\ q.session = r.session /\ q.started = r.started /\ q.ended = r.ended /\ q.by = r.by
              /\ q.credit = Later(Later(at - r.started, 0), r.credit)
         /\ \A c \in ClosedOut : LET q == ClosedAs(r, c) IN
              /\ q.session = r.session /\ q.started = r.started /\ q.ended = c.ended /\ q.by = c.by
              /\ q.credit = c.credit
  <1>1. ASSUME NEW at \in Nat, NEW q, q = Marked(r, at)
        PROVE  /\ q.session = r.session /\ q.started = r.started /\ q.ended = r.ended /\ q.by = r.by
               /\ q.credit = Later(Later(at - r.started, 0), r.credit)
    BY <1>1 DEF Marked, Segment
  <1>2. ASSUME NEW c \in ClosedOut, NEW q, q = ClosedAs(r, c)
        PROVE  /\ q.session = r.session /\ q.started = r.started /\ q.ended = c.ended /\ q.by = c.by
               /\ q.credit = c.credit
    BY <1>2 DEF ClosedAs, Segment
  <1> QED BY <1>1, <1>2

(* A segment marked at now reaches to now, and its evidence is contiguous. *)
LEMMA MarkedInTime ==
  ASSUME NEW m \in Machines, m.phase = "in", NEW now \in Moments, now.wall = At(now.mono),
         NEW r \in Segment, NEW E, NEW last \in Nat, InFits(m, r, E, now.mono, last),
         SignalFits(E, now.mono, last),
         NEW n, n = InSegment(m.started, Later(now.wall, m.at), Later(now.mono, m.mono)),
         NEW q, q = Marked(r, Later(now.wall, m.at))
  PROVE  /\ Later(now.wall, m.at) = now.wall /\ n = InSegment(m.started, now.wall, now.mono)
         /\ InFits(n, q, E, now.mono, last)
         /\ n.phase = "in" /\ n.mono = now.mono
         /\ q.started = r.started /\ q.session = r.session /\ q.by = r.by /\ q.ended = r.ended
         /\ Seconds(q) \subseteq E
  <1>0. /\ m.started \in Nat /\ m.at \in Nat /\ m.mono \in Nat /\ now.mono \in Nat /\ now.wall \in Nat
        /\ r.started \in Nat /\ r.credit \in Nat /\ FocusStale \in Nat /\ SegmentIdle \in Nat
        /\ SegmentIdle > 0
    BY MachineIs, MomentIs, SegmentHas, Consts
  <1>1. /\ m.at = At(m.mono) /\ m.started <= m.at /\ m.mono <= now.mono /\ now.mono <= m.mono + Lasting
        /\ r.started = m.started /\ r.credit = m.at - m.started
        /\ m.started .. m.at + Lasting - 1 \subseteq E
        /\ now.mono <= last + FocusStale - 1 /\ now.wall .. now.wall + Lasting - 1 \subseteq E
    BY DEF InFits, SignalFits
  <1>2. m.at <= now.wall /\ now.wall <= m.at + Lasting /\ Lasting \in Nat /\ Lasting > 0
    BY <1>0, <1>1, LastingIs, Consts DEF At
  <1>3. Later(now.wall, m.at) = now.wall /\ Later(now.mono, m.mono) = now.mono
    BY <1>0, <1>1, <1>2 DEF Later
  <1>4. n = InSegment(m.started, now.wall, now.mono) /\ q = Marked(r, now.wall)
    BY <1>3
  <1>5. /\ n.phase = "in" /\ n.started = m.started /\ n.at = now.wall /\ n.mono = now.mono
    BY <1>4 DEF InSegment
  <1>6. /\ q.started = r.started /\ q.session = r.session /\ q.by = r.by /\ q.ended = r.ended
        /\ q.credit = Later(Later(now.wall - r.started, 0), r.credit)
    BY <1>0, <1>4, RowsWritten
  <1>7. q.credit = now.wall - m.started
    BY <1>0, <1>1, <1>2, <1>6 DEF Later
  <1>8. m.started .. now.wall + Lasting - 1 \subseteq E
    BY <1>0, <1>1, <1>2, SpansMeet
  <1>9. Seconds(q) \subseteq E
    <2>1. m.started .. now.wall - 1 \subseteq E
      BY <1>0, <1>2, <1>8, SpanWithin
    <2> QED BY <1>0, <1>1, <1>6, <1>7, <2>1 DEF Seconds
  <1>10. InFits(n, q, E, now.mono, last)
    BY <1>0, <1>1, <1>2, <1>5, <1>6, <1>7, <1>8 DEF InFits
  <1> QED BY <1>3, <1>4, <1>6, <1>9, <1>10, <1>5

(* A segment opened at now. *)
LEMMA OpenedInTime ==
  ASSUME NEW now \in Moments, now.wall = At(now.mono), NEW E, NEW last \in Nat,
         SignalFits(E, now.mono, last), NEW s,
         NEW n, n = InSegment(now.wall, now.wall, now.mono), NEW q, q = Signalled(s, now.wall)
  PROVE  /\ InFits(n, q, E, now.mono, last) /\ n.phase = "in" /\ n.mono = now.mono
         /\ q.session = s /\ q.by = "open" /\ q.ended = q.started
         /\ q.started \in E /\ Seconds(q) \subseteq E
  <1>0. /\ now.mono \in Nat /\ now.wall \in Nat /\ FocusStale \in Nat /\ SegmentIdle \in Nat
        /\ SegmentIdle > 0 /\ Lasting \in Nat /\ Lasting > 0
    BY MomentIs, Consts, LastingIs
  <1>1. now.mono <= last + FocusStale - 1 /\ now.wall .. now.wall + Lasting - 1 \subseteq E
    BY DEF SignalFits
  <1>2. n.phase = "in" /\ n.started = now.wall /\ n.at = now.wall /\ n.mono = now.mono
    BY DEF InSegment
  <1>3. /\ q.session = s /\ q.by = "open" /\ q.started = now.wall /\ q.ended = now.wall /\ q.credit = 0
    BY DEF Signalled
  <1>4. q.started \in E /\ Seconds(q) \subseteq E
    BY <1>0, <1>1, <1>3 DEF Seconds
  <1>5. InFits(n, q, E, now.mono, last)
    BY <1>0, <1>1, <1>2, <1>3 DEF InFits
  <1> QED BY <1>2, <1>3, <1>4, <1>5

(* The row q that r was closed as ends with its credit, which E accounts for. *)
ClosedFits(r, q, E) ==
  /\ q.session = r.session /\ q.started = r.started /\ q.by # "open"
  /\ q.ended = q.started + q.credit /\ Seconds(q) \subseteq E

(* A segment closed for want of input. *)
LEMMA IdleInTime ==
  ASSUME NEW m \in Machines, m.phase = "in", NEW now \in Moments, now.wall = At(now.mono),
         NEW r \in Segment, NEW E, NEW last \in Nat, InFits(m, r, E, now.mono, last),
         now.mono - m.mono >= SegmentIdle,
         NEW n, n = Between(IdleEnd(m, now), m.mono + SegmentIdle)
  PROVE  \E c \in ClosedOut :
           /\ Closing(m.started, IdleEnd(m, now), "idle") = Some(c)
           /\ ClosedFits(r, ClosedAs(r, c), E)
           /\ n.phase = "between" /\ BetweenFits(n, E, last)
           /\ now.mono < n.mono + SessionIdle
  <1>0. /\ m.started \in Nat /\ m.at \in Nat /\ m.mono \in Nat /\ now.mono \in Nat /\ now.wall \in Nat
        /\ r.started \in Nat /\ r.credit \in Nat /\ FocusStale \in Nat /\ SegmentIdle \in Nat
        /\ SegmentIdle > 0 /\ Lasting \in Nat /\ Lasting > 0 /\ TickPeriod \in Nat /\ TickPeriod > 0
        /\ SessionIdle \in Nat /\ TickPeriod <= SessionIdle
    BY MachineIs, MomentIs, SegmentHas, Consts, LastingIs
  <1>1. /\ m.at = At(m.mono) /\ m.started <= m.at /\ m.mono <= now.mono /\ now.mono <= m.mono + Lasting
        /\ r.started = m.started /\ r.credit = m.at - m.started
        /\ m.started .. m.at + Lasting - 1 \subseteq E /\ m.mono <= last + FocusStale - 1
    BY DEF InFits
  <1>2. m.at + SegmentIdle <= now.wall
    BY <1>0, <1>1, Consts DEF At
  <1>3. IdleEnd(m, now) = m.at + SegmentIdle
    BY <1>0, <1>1, <1>2 DEF IdleEnd, Later, Earlier
  <1>4. PICK c : c = [ended |-> m.at + SegmentIdle, credit |-> m.at + SegmentIdle - m.started, by |-> "idle"]
    OBVIOUS
  <1>5. Closing(m.started, IdleEnd(m, now), "idle") = Some(c)
    BY <1>0, <1>1, <1>3, <1>4 DEF Closing, Later
  <1>6. c \in ClosedOut /\ c.ended = m.at + SegmentIdle /\ c.credit = m.at + SegmentIdle - m.started
        /\ c.by # "open"
    BY <1>0, <1>1, <1>4 DEF ClosedOut, Bys
  <1>7. PICK q : q = ClosedAs(r, c)
    OBVIOUS
  <1>8. /\ q.session = r.session /\ q.started = m.started /\ q.ended = m.at + SegmentIdle
        /\ q.credit = m.at + SegmentIdle - m.started /\ q.by # "open"
    BY <1>1, <1>6, <1>7, RowsWritten
  <1>9. Seconds(q) \subseteq E
    <2>1. m.started .. m.at + SegmentIdle - 1 \subseteq E
      BY <1>0, <1>1, SpanWithin, LastingIs
    <2> QED BY <1>0, <1>1, <1>8, <2>1 DEF Seconds
  <1>10. n.phase = "between" /\ n.at = m.at + SegmentIdle /\ n.mono = m.mono + SegmentIdle
    BY <1>3 DEF Between
  <1>11. BetweenFits(n, E, last)
    <2>1. m.at + SegmentIdle - 1 \in E
      BY <1>0, <1>1, LastingIs
    <2>2. n.at = At(n.mono)
      BY <1>0, <1>1, <1>10, Consts DEF At
    <2> QED BY <1>0, <1>1, <1>10, <2>1, <2>2 DEF BetweenFits
  <1>12. now.mono < n.mono + SessionIdle
    BY <1>0, <1>1, <1>10, LastingIs
  <1>13. q.started = r.started /\ q.ended = q.started + q.credit
    BY <1>0, <1>1, <1>8
  <1> QED BY <1>5, <1>6, <1>7, <1>8, <1>9, <1>10, <1>11, <1>12, <1>13 DEF ClosedFits

(* A segment ended for a reason that was seen. *)
LEMMA EndInTime ==
  ASSUME NEW m \in Machines, m.phase = "in", NEW now \in Moments, now.wall = At(now.mono),
         NEW r \in Segment, NEW E, NEW last \in Nat, InFits(m, r, E, now.mono, last), NEW reason
  PROVE  \E c \in ClosedOut :
           /\ ClosedByEnd(m, now, reason) = Some(c)
           /\ ClosedFits(r, ClosedAs(r, c), E)
  <1>0. /\ m.started \in Nat /\ m.at \in Nat /\ m.mono \in Nat /\ now.mono \in Nat /\ now.wall \in Nat
        /\ r.started \in Nat /\ r.credit \in Nat /\ Lasting \in Nat /\ Lasting > 0
    BY MachineIs, MomentIs, SegmentHas, LastingIs
  <1>1. /\ m.at = At(m.mono) /\ m.started <= m.at /\ m.mono <= now.mono /\ now.mono <= m.mono + Lasting
        /\ r.started = m.started /\ m.started .. m.at + Lasting - 1 \subseteq E
    BY DEF InFits
  <1>2. m.at <= now.wall /\ now.wall <= m.at + Lasting
    BY <1>0, <1>1, Consts DEF At
  <1>3. PICK by : by = IF reason = "app_exit" THEN "app_exit" ELSE "session_end"
    OBVIOUS
  <1>4. PICK c : c = [ended |-> now.wall, credit |-> now.wall - m.started, by |-> by]
    OBVIOUS
  <1>5. ClosedByEnd(m, now, reason) = Some(c)
    BY <1>0, <1>1, <1>2, <1>3, <1>4 DEF ClosedByEnd, SeenEnd, Closing, Later
  <1>6. c \in ClosedOut /\ c.ended = now.wall /\ c.credit = now.wall - m.started /\ c.by # "open"
    BY <1>0, <1>1, <1>2, <1>3, <1>4 DEF ClosedOut, Bys
  <1>7. PICK q : q = ClosedAs(r, c)
    OBVIOUS
  <1>8. /\ q.session = r.session /\ q.started = m.started /\ q.ended = now.wall
        /\ q.credit = now.wall - m.started /\ q.by # "open" /\ q.started = r.started
    BY <1>1, <1>6, <1>7, RowsWritten
  <1>9. Seconds(q) \subseteq E
    <2>1. m.started .. now.wall - 1 \subseteq E
      BY <1>0, <1>1, <1>2, SpanWithin
    <2> QED BY <1>0, <1>1, <1>8, <2>1 DEF Seconds
  <1>10. q.ended = q.started + q.credit
    BY <1>0, <1>8
  <1> QED BY <1>5, <1>6, <1>7, <1>8, <1>9, <1>10 DEF ClosedFits

(* What a transaction of each kind writes. *)
SameSegments(d, e) == DOMAIN e.segs = DOMAIN d.segs /\ \A h \in DOMAIN d.segs : e.segs[h] = d.segs[h]
OneSegment(d, e, g, q) ==
  DOMAIN e.segs = DOMAIN d.segs \cup {g} /\ e.segs[g] = q
    /\ \A h \in DOMAIN d.segs : h # g => e.segs[h] = d.segs[h]

(* An outcome of nothing writes nothing.                                   *)
LEMMA QuietWrites ==
  ASSUME NEW d, NEW s, NEW g
  PROVE  Written(d, s, g, Quiet) = d
  <1>1. WithActivity(d, g, Quiet) = d
    BY QuietIs DEF WithActivity
  <1>2. WithClose(d, g, Quiet) = d
    BY QuietIs DEF WithClose
  <1>3. WithOpen(d, s, Quiet) = d
    BY QuietIs DEF WithOpen
  <1>4. WithEnd(d, s, Quiet) = d
    BY QuietIs DEF WithEnd
  <1> QED BY <1>1, <1>2, <1>3, <1>4 DEF Written

(* Activity marks the segment.                                             *)
LEMMA ActivityWrites ==
  ASSUME NEW d, Balanced(d), NEW s \in Sessions, d.sess[s].state = "open", NEW g, Writable(d, s, g),
         g # 0, NEW at \in Nat, NEW e, e = Written(d, s, g, Active(at))
  PROVE  e.sess = d.sess /\ OneSegment(d, e, g, Marked(d.segs[g], at))
  <1> DEFINE out == Active(at)
  <1>1. /\ out.activity = Some(at) /\ out.closed = None /\ out.opened = None /\ out.ended = None
        /\ Some(at) # None /\ Some(at)[1] = at
    BY OutcomeParts, Options
  <1>2. PICK a : a = MarkActivity(d, g, at)
    OBVIOUS
  <1>3. WithActivity(d, g, out) = a
    BY <1>1, <1>2 DEF WithActivity
  <1>4. WithClose(a, g, out) = a /\ WithOpen(a, s, out) = a /\ WithEnd(a, s, out) = a
    BY <1>1 DEF WithClose, WithOpen, WithEnd
  <1>5. e = a
    BY <1>3, <1>4 DEF Written
  <1>6. g \in DOMAIN d.segs /\ d.segs[g].session = s /\ d.segs[g].by = "open"
    BY DEF Writable
  <1> QED BY <1>2, <1>5, <1>6, MarkActivityKeeps DEF OneSegment

(* A signal between two segments adds one.                                 *)
LEMMA OpeningWrites ==
  ASSUME NEW d, Balanced(d), NEW s \in Sessions, d.sess[s].state = "open", NEW g,
         NEW at \in Nat, NEW e, e = Written(d, s, g, Opening(at))
  PROVE  /\ e.sess = d.sess /\ OneSegment(d, e, Len(e.segs), Signalled(s, at))
         /\ Len(e.segs) \notin DOMAIN d.segs /\ Len(e.segs) # 0
  <1> DEFINE out == Opening(at)
  <1>1. /\ out.activity = None /\ out.closed = None /\ out.opened = Some(at) /\ out.ended = None
        /\ Some(at) # None /\ Some(at)[1] = at
    BY OutcomeParts, Options
  <1>2. PICK a : a = OpenSegment(d, s, at, TRUE)
    OBVIOUS
  <1>3. WithActivity(d, g, out) = d /\ WithClose(d, g, out) = d /\ WithOpen(d, s, out) = a
    BY <1>1, <1>2 DEF WithActivity, WithClose, WithOpen
  <1>4. WithEnd(a, s, out) = a
    BY <1>1 DEF WithEnd
  <1>6. PICK yes : yes = TRUE
    OBVIOUS
  <1>5. e = OpenSegment(d, s, at, yes) /\ yes \in BOOLEAN
    BY <1>2, <1>3, <1>4, <1>6 DEF Written, OpenSegment
  <1>7. /\ e.sess = d.sess
        /\ Len(e.segs) = Len(d.segs) + 1 /\ DOMAIN e.segs = DOMAIN d.segs \cup {Len(e.segs)}
        /\ e.segs[Len(e.segs)] = Fresh(s, at, yes)
        /\ Len(e.segs) \notin DOMAIN d.segs /\ \A h \in DOMAIN d.segs : e.segs[h] = d.segs[h]
    BY <1>5, OpenSegmentKeeps
  <1>8. Fresh(s, at, yes) = Signalled(s, at)
    BY <1>6 DEF Fresh, Signalled
  <1>9. Len(e.segs) # 0
    BY <1>7, BooksHold DEF Balanced
  <1> QED BY <1>7, <1>8, <1>9 DEF OneSegment

(* An idle close writes the segment it closes.                             *)
LEMMA ClosingWrites ==
  ASSUME NEW d, Balanced(d), NEW s \in Sessions, d.sess[s].state = "open", NEW g, Writable(d, s, g),
         g # 0, NEW c \in ClosedOut, NEW e, e = Written(d, s, g, ClosingOf(Some(c)))
  PROVE  e.sess = d.sess /\ OneSegment(d, e, g, ClosedAs(d.segs[g], c))
  <1> DEFINE out == ClosingOf(Some(c))
  <1>1. /\ out.activity = None /\ out.closed = Some(c) /\ out.opened = None /\ out.ended = None
        /\ Some(c) # None /\ Some(c)[1] = c
    BY OutcomeParts, Options
  <1>2. PICK a : a = CreditSegmentClose(CloseSegment(d, g, c), g)
    OBVIOUS
  <1>3. WithActivity(d, g, out) = d /\ WithClose(d, g, out) = a
    BY <1>1, <1>2 DEF WithActivity, WithClose
  <1>4. WithOpen(a, s, out) = a /\ WithEnd(a, s, out) = a
    BY <1>1 DEF WithOpen, WithEnd
  <1>5. e = a
    BY <1>3, <1>4 DEF Written
  <1>6. g \in DOMAIN d.segs /\ d.segs[g].session = s /\ d.segs[g].by = "open"
    BY DEF Writable
  <1>7. c.ended \in Nat /\ c.credit \in Nat /\ c.by \in Bys /\ c.by # "open"
    BY DEF ClosedOut
  <1> QED BY <1>2, <1>5, <1>6, <1>7, CloseSegmentKeeps DEF OneSegment

(* An end closes the session, and its segment if one is open.              *)
LEMMA EndingWrites ==
  ASSUME NEW d, Balanced(d), NEW s \in Sessions, d.sess[s].state = "open", NEW g, Writable(d, s, g),
         NEW c \in Perhaps(ClosedOut), NEW x \in EndedOut,
         NEW e, e = Written(d, s, g, EndingOf(c, x))
  PROVE  /\ \A t \in Sessions : t # s => e.sess[t] = d.sess[t]
         /\ e.sess[s].state = "closed" /\ e.sess[s].started = d.sess[s].started
         /\ e.sess[s].reason = x.reason /\ e.sess[s].ended = Later(x.at, d.sess[s].started)
         /\ c = None \/ g = 0 => SameSegments(d, e)
         /\ c # None /\ g # 0 => OneSegment(d, e, g, ClosedAs(d.segs[g], c[1]))
  <1> DEFINE out == EndingOf(c, x)
  <1>1. /\ out.activity = None /\ out.closed = c /\ out.opened = None /\ out.ended = Some(x)
        /\ Some(x) # None /\ Some(x)[1] = x /\ out \in Outcomes
    BY OutcomeParts, OutcomeKinds, Options
  <1>2. PICK a : a = WithClose(d, g, out)
    OBVIOUS
  <1>3. WithActivity(d, g, out) = d /\ WithOpen(a, s, out) = a
    BY <1>1 DEF WithActivity, WithOpen
  <1>4. e = WithEnd(a, s, out)
    BY <1>2, <1>3 DEF Written
  <1>5. /\ Balanced(a) /\ WritesFor(s, d, a) /\ a.sess = d.sess
        /\ c = None \/ g = 0 => SameSegments(d, a)
        /\ c # None /\ g # 0 => OneSegment(d, a, g, ClosedAs(d.segs[g], c[1]))
    <2>1. CASE c = None \/ g = 0
      <3>1. a = d
        BY <1>1, <1>2, <2>1 DEF WithClose
      <3> QED BY <2>1, <3>1, WritesNothing DEF SameSegments
    <2>2. CASE c # None /\ g # 0
      <3>1. PICK k : k = c[1]
        OBVIOUS
      <3>2. k \in ClosedOut
        BY <2>2, <3>1, PerhapsIs
      <3>3. k.ended \in Nat /\ k.credit \in Nat /\ k.by \in Bys /\ k.by # "open"
        BY <3>2 DEF ClosedOut
      <3>4. a = CreditSegmentClose(CloseSegment(d, g, k), g)
        BY <1>1, <1>2, <2>2, <3>1 DEF WithClose
      <3>5. g \in DOMAIN d.segs /\ d.segs[g].session = s /\ d.segs[g].by = "open"
        BY <2>2 DEF Writable
      <3> QED BY <2>2, <3>1, <3>3, <3>4, <3>5, CloseSegmentKeeps DEF OneSegment
    <2> QED BY <2>1, <2>2
  <1>6. a.sess[s].state = "open"
    BY <1>5
  <1>7. /\ WritesFor(s, a, e) /\ e.segs = a.segs /\ e.sess[s] = Ending(a, s, x.at, x.reason)
    BY <1>1, <1>4, <1>5, <1>6, WithEndKeeps
  <1>8. \A t \in Sessions : t # s => e.sess[t] = d.sess[t]
    BY <1>5, <1>7 DEF WritesFor
  <1>9. /\ e.sess[s].state = "closed" /\ e.sess[s].started = d.sess[s].started
        /\ e.sess[s].reason = x.reason /\ e.sess[s].ended = Later(x.at, d.sess[s].started)
    BY <1>5, <1>7 DEF Ending
  <1> QED BY <1>5, <1>7, <1>8, <1>9 DEF SameSegments, OneSegment

-----------------------------------------------------------------------------
(* Time: one transaction, from its session's machine and its evidence.     *)

(* One segment written leaves the segments accounted for. *)
LEMMA OneSegmentIn ==
  ASSUME NEW d, NEW e, NEW s, NEW g, NEW q, NEW E, OneSegment(d, e, g, q),
         SegmentsIn(d, s, E), EndsWithCredit(d), q.started \in E, Seconds(q) \subseteq E,
         q.ended = q.started + IF q.by = "open" THEN 0 ELSE q.credit
  PROVE  SegmentsIn(e, s, E) /\ EndsWithCredit(e)
  <1>1. \A h \in DOMAIN e.segs : (h = g /\ e.segs[h] = q) \/ (h \in DOMAIN d.segs /\ e.segs[h] = d.segs[h])
    BY DEF OneSegment
  <1>2. ASSUME NEW h \in DOMAIN e.segs, e.segs[h].session = s
        PROVE  e.segs[h].started \in E /\ Seconds(e.segs[h]) \subseteq E
    <2>1. CASE e.segs[h] = q
      BY <2>1
    <2>2. CASE h \in DOMAIN d.segs /\ e.segs[h] = d.segs[h]
      BY <1>2, <2>2 DEF SegmentsIn
    <2> QED BY <1>1, <2>1, <2>2
  <1>3. ASSUME NEW h \in DOMAIN e.segs
        PROVE  e.segs[h].ended = e.segs[h].started
                                   + IF e.segs[h].by = "open" THEN 0 ELSE e.segs[h].credit
    <2>1. CASE e.segs[h] = q
      BY <2>1
    <2>2. CASE h \in DOMAIN d.segs /\ e.segs[h] = d.segs[h]
      BY <2>2 DEF EndsWithCredit
    <2> QED BY <1>1, <2>1, <2>2
  <1> QED BY <1>2, <1>3 DEF SegmentsIn, EndsWithCredit

(* And none written. *)
LEMMA SameSegmentsIn ==
  ASSUME NEW d, NEW e, NEW s, NEW E, SameSegments(d, e), SegmentsIn(d, s, E), EndsWithCredit(d)
  PROVE  SegmentsIn(e, s, E) /\ EndsWithCredit(e)
  <1>1. SegmentsIn(e, s, E)
    BY DEF SameSegments, SegmentsIn
  <1>2. EndsWithCredit(e)
    BY DEF SameSegments, EndsWithCredit
  <1> QED BY <1>1, <1>2

(* A row that has not changed keeps its evidence. *)
LEMMA SameSessionIn ==
  ASSUME NEW d, NEW e, NEW s, NEW E, e.sess[s] = d.sess[s], SessionIn(d, s, E)
  PROVE  SessionIn(e, s, E)
  BY DEF SessionIn

(* An observation of a machine that fits its evidence. *)
LEMMA ObserveAccounts ==
  ASSUME NEW d, Balanced(d), NEW s \in Sessions, d.sess[s].state = "open", NEW g \in Nat, Writable(d, s, g),
         EndsWithCredit(d), NEW E, Accounted(d, s, E), NEW m \in Machines, NEW wait \in BOOLEAN,
         NEW now \in Moments, now.wall = At(now.mono), NEW last \in Nat,
         MachineFits(m, g, d, E, now.mono, last),
         NEW signal \in BOOLEAN, signal => SignalFits(E, now.mono, last),
         NEW step, step = Observe(m, wait, now, signal), NEW e, e = Written(d, s, g, step.out),
         NEW n, n = NextSegment(e, g, step.out)
  PROVE  /\ Accounted(e, s, E) /\ EndsWithCredit(e)
         /\ step.out.ended = None => /\ MachineFits(step.machine, n, e, E, now.mono, last)
                                     /\ InTime(step.machine, wait, now.mono)
  <1> DEFINE k == step.machine
  <1>0. /\ SegmentsIn(d, s, E) /\ SessionIn(d, s, E) /\ now.mono \in Nat /\ now.wall \in Nat
        /\ d.sess[s].started \in Nat
    BY MomentIs, BooksHold DEF Accounted, Balanced
  <1>f. /\ m.phase # "ended"
        /\ m.phase = "in" => g # 0 /\ InFits(m, d.segs[g], E, now.mono, last)
        /\ m.phase = "between" => g = 0 /\ BetweenFits(m, E, last)
    BY DEF MachineFits
  <1>m. m.started \in Nat /\ m.at \in Nat /\ m.mono \in Nat
    BY MachineIs
  <1>g. m.phase = "in" => g \in DOMAIN d.segs /\ d.segs[g].by = "open" /\ d.segs[g].session = s
                            /\ d.segs[g] \in Segment
    BY <1>f, BooksHold DEF Writable, Balanced
  <1>1. CASE /\ m.phase = "ended" \/ ~signal
             /\ m.phase = "in" => now.mono - m.mono < SegmentIdle
             /\ m.phase = "between" => wait \/ now.mono - m.mono < SessionIdle
             /\ k = m /\ step.out = Quiet
    <2>1. e = d /\ n = g
      BY <1>1, QuietWrites, QuietIs DEF NextSegment
    <2>2. InTime(k, wait, now.mono)
      BY <1>0, <1>1, <1>m, Consts DEF InTime
    <2> QED BY <1>1, <2>1, <2>2
  <1>2. CASE /\ m.phase = "in" /\ signal
             /\ k = InSegment(m.started, Later(now.wall, m.at), Later(now.mono, m.mono))
             /\ step.out = Active(Later(now.wall, m.at))
    <2>c. /\ m.phase = "in"
          /\ k = InSegment(m.started, Later(now.wall, m.at), Later(now.mono, m.mono))
          /\ step.out = Active(Later(now.wall, m.at))
      BY <1>2, Zenon
    <2>1. Later(now.wall, m.at) \in Nat
      BY <1>0, <1>m, LaterNat
    <2>2. PICK q : q = Marked(d.segs[g], Later(now.wall, m.at))
      OBVIOUS
    <2>h. SignalFits(E, now.mono, last)
      BY <1>2
    <2>3. /\ k = InSegment(m.started, now.wall, now.mono) /\ InFits(k, q, E, now.mono, last)
          /\ k.phase = "in" /\ k.mono = now.mono
          /\ q.started = d.segs[g].started /\ q.by = d.segs[g].by /\ q.ended = d.segs[g].ended
          /\ Seconds(q) \subseteq E
      BY <2>c, <1>f, <1>g, <2>2, <2>h, MarkedInTime
    <2>4. e.sess = d.sess /\ OneSegment(d, e, g, q)
      BY <2>c, <1>f, <2>1, <2>2, ActivityWrites
    <2>5. n = g
      BY <2>c, OutcomeParts DEF NextSegment
    <2>6. q.started \in E /\ q.ended = q.started + IF q.by = "open" THEN 0 ELSE q.credit
      <3>1. d.segs[g].started \in E
        BY <1>0, <2>c, <1>g DEF SegmentsIn
      <3>2. d.segs[g].ended = d.segs[g].started + 0
        BY <2>c, <1>g DEF EndsWithCredit
      <3> QED BY <2>c, <1>g, <2>3, <3>1, <3>2
    <2>7. SegmentsIn(e, s, E) /\ EndsWithCredit(e)
      BY <1>0, <2>3, <2>4, <2>6, OneSegmentIn
    <2>8. SessionIn(e, s, E)
      BY <1>0, <2>4, SameSessionIn
    <2>9. e.segs[g] = q
      BY <2>4 DEF OneSegment
    <2>10. k.phase = "in"
      BY <2>c DEF InSegment
    <2>11. MachineFits(k, n, e, E, now.mono, last)
      BY <2>c, <1>f, <2>3, <2>5, <2>9, <2>10 DEF MachineFits
    <2>12. InTime(k, wait, now.mono)
      BY <1>0, <2>3, Consts DEF InTime
    <2> QED BY <2>7, <2>8, <2>11, <2>12 DEF Accounted
  <1>3. CASE /\ m.phase = "between" /\ signal
             /\ k = InSegment(now.wall, now.wall, now.mono)
             /\ step.out = Opening(now.wall)
    <2>c. /\ m.phase = "between" /\ k = InSegment(now.wall, now.wall, now.mono)
          /\ step.out = Opening(now.wall)
      BY <1>3, Zenon
    <2>2. PICK q : q = Signalled(s, now.wall)
      OBVIOUS
    <2>h. SignalFits(E, now.mono, last)
      BY <1>3
    <2>3. /\ InFits(k, q, E, now.mono, last) /\ k.phase = "in" /\ k.mono = now.mono
          /\ q.by = "open" /\ q.ended = q.started
          /\ q.started \in E /\ Seconds(q) \subseteq E
      <3>1. PICK a : a = InSegment(now.wall, now.wall, now.mono)
        OBVIOUS
      <3>2. InFits(a, q, E, now.mono, last)
        BY <2>2, <2>h, <3>1, OpenedInTime
      <3>4. /\ a.phase = "in" /\ a.mono = now.mono
            /\ q.session = s /\ q.by = "open" /\ q.ended = q.started
            /\ q.started \in E /\ Seconds(q) \subseteq E
        BY <1>0, <2>2, <2>h, <3>1, LastingIs DEF InSegment, Signalled, SignalFits, Seconds
      <3>3. k = a
        BY <2>c, <3>1
      <3> QED BY <3>2, <3>3, <3>4
    <2>q. q.started \in Nat
      BY <1>0, <2>2 DEF Signalled
    <2>4. e.sess = d.sess /\ OneSegment(d, e, Len(e.segs), q) /\ Len(e.segs) # 0
      BY <1>0, <2>c, <2>2, OpeningWrites
    <2>5. n = Len(e.segs)
      BY <2>c, OutcomeParts, Options DEF NextSegment
    <2>6. q.ended = q.started + IF q.by = "open" THEN 0 ELSE q.credit
      BY <2>3, <2>q
    <2>7. SegmentsIn(e, s, E) /\ EndsWithCredit(e)
      BY <1>0, <2>3, <2>4, <2>6, OneSegmentIn
    <2>8. SessionIn(e, s, E)
      BY <1>0, <2>4, SameSessionIn
    <2>9. e.segs[n] = q
      BY <2>4, <2>5 DEF OneSegment
    <2>10. k.phase = "in"
      BY <2>c DEF InSegment
    <2>11. MachineFits(k, n, e, E, now.mono, last)
      BY <2>3, <2>4, <2>5, <2>9, <2>10 DEF MachineFits
    <2>12. InTime(k, wait, now.mono)
      BY <1>0, <2>3, Consts DEF InTime
    <2> QED BY <2>7, <2>8, <2>11, <2>12 DEF Accounted
  <1>4. CASE /\ m.phase = "in" /\ ~signal /\ now.mono - m.mono >= SegmentIdle
             /\ k = Between(IdleEnd(m, now), m.mono + SegmentIdle)
             /\ step.out = ClosingOf(Closing(m.started, IdleEnd(m, now), "idle"))
    <2>1. PICK c \in ClosedOut :
             /\ Closing(m.started, IdleEnd(m, now), "idle") = Some(c)
             /\ ClosedFits(d.segs[g], ClosedAs(d.segs[g], c), E)
             /\ k.phase = "between" /\ BetweenFits(k, E, last) /\ now.mono < k.mono + SessionIdle
      BY <1>4, <1>f, <1>g, IdleInTime
    <2>2. PICK q : q = ClosedAs(d.segs[g], c)
      OBVIOUS
    <2>3. /\ q.started = d.segs[g].started /\ q.by # "open"
          /\ q.ended = q.started + q.credit /\ Seconds(q) \subseteq E
      BY <2>1, <2>2 DEF ClosedFits
    <2>4. e.sess = d.sess /\ OneSegment(d, e, g, q)
      BY <1>4, <1>f, <2>1, <2>2, ClosingWrites
    <2>5. n = 0
      BY <1>4, <2>1, OutcomeParts, Options DEF NextSegment
    <2>6. q.started \in E
      BY <1>0, <1>4, <1>g, <2>3 DEF SegmentsIn
    <2>7. SegmentsIn(e, s, E) /\ EndsWithCredit(e)
      BY <1>0, <2>3, <2>4, <2>6, OneSegmentIn
    <2>8. SessionIn(e, s, E)
      BY <1>0, <2>4, SameSessionIn
    <2>11. MachineFits(k, n, e, E, now.mono, last)
      BY <2>1, <2>5 DEF MachineFits
    <2>12. InTime(k, wait, now.mono)
      BY <2>1 DEF InTime
    <2> QED BY <2>7, <2>8, <2>11, <2>12 DEF Accounted
  <1>5. CASE /\ m.phase = "between" /\ ~signal /\ ~wait /\ now.mono - m.mono >= SessionIdle
             /\ k = Ended
             /\ step.out = EndingOf(None, [at |-> m.at, reason |-> "idle"])
    <2>1. PICK x : x = [at |-> m.at, reason |-> "idle"]
      OBVIOUS
    <2>2. x \in EndedOut /\ x.at = m.at /\ x.reason = "idle" /\ None \in Perhaps(ClosedOut)
      BY <1>m, <2>1, SomeIn DEF EndedOut, Reasons
    <2>3. /\ e.sess[s].state = "closed" /\ e.sess[s].started = d.sess[s].started
          /\ e.sess[s].ended = Later(m.at, d.sess[s].started) /\ SameSegments(d, e)
      BY <1>5, <2>1, <2>2, EndingWrites
    <2>4. SegmentsIn(e, s, E) /\ EndsWithCredit(e)
      BY <1>0, <2>3, SameSegmentsIn
    <2>5. PICK t \in E : m.at <= t + 1
      BY <1>5, <1>f DEF BetweenFits
    <2>6. d.sess[s].started \in E
      BY <1>0 DEF SessionIn
    <2>7. \E u \in E : e.sess[s].ended <= u + 1
      <3>1. CASE m.at >= d.sess[s].started
        <4>1. e.sess[s].ended = m.at
          BY <2>3, <3>1 DEF Later
        <4> QED BY <2>5, <4>1
      <3>2. CASE ~(m.at >= d.sess[s].started)
        <4>1. e.sess[s].ended = d.sess[s].started
          BY <2>3, <3>2 DEF Later
        <4>2. d.sess[s].started <= d.sess[s].started + 1
          BY <1>0
        <4> QED BY <2>6, <4>1, <4>2
      <3> QED BY <3>1, <3>2
    <2>8. SessionIn(e, s, E)
      BY <2>3, <2>6, <2>7 DEF SessionIn
    <2>9. step.out.ended # None
      BY <1>5, OutcomeParts, Options
    <2> QED BY <2>4, <2>8, <2>9 DEF Accounted
  <1>6. step = Observe(m, wait, now, signal)
    OBVIOUS
  <1> QED BY <1>1, <1>2, <1>3, <1>4, <1>5, <1>6, ObserveCases

(* An end that was seen. *)
LEMMA EndAccounts ==
  ASSUME NEW d, Balanced(d), NEW s \in Sessions, d.sess[s].state = "open", NEW g \in Nat, Writable(d, s, g),
         EndsWithCredit(d), NEW E, Accounted(d, s, E), NEW m \in Machines,
         NEW now \in Moments, now.wall = At(now.mono), NEW last \in Nat,
         MachineFits(m, g, d, E, now.mono, last),
         NEW reason \in {"stop", "process_exit", "app_exit"},
         NEW step, step = End(m, now, reason), NEW e, e = Written(d, s, g, step.out)
  PROVE  Accounted(e, s, E) /\ EndsWithCredit(e) /\ step.out.ended # None
  <1>0. /\ SegmentsIn(d, s, E) /\ SessionIn(d, s, E) /\ now.mono \in Nat /\ now.wall \in Nat
    BY MomentIs DEF Accounted
  <1>f. /\ m.phase # "ended"
        /\ m.phase = "in" => g # 0 /\ InFits(m, d.segs[g], E, now.mono, last)
        /\ m.phase = "between" => g = 0
    BY DEF MachineFits
  <1>1. PICK x : x = [at |-> now.wall, reason |-> reason]
    OBVIOUS
  <1>2. x \in EndedOut /\ x.reason = reason
    BY <1>0, <1>1 DEF EndedOut, Reasons
  <1>3. PICK cs : cs = ClosedByEnd(m, now, reason)
    OBVIOUS
  <1>4. step.out = EndingOf(cs, x) /\ cs \in Perhaps(ClosedOut)
    BY <1>1, <1>3, <1>f, EndCases, ClosedByEndIn
  <1>5. /\ e.sess[s].state = "closed" /\ e.sess[s].started = d.sess[s].started
        /\ e.sess[s].reason = reason
        /\ cs = None \/ g = 0 => SameSegments(d, e)
        /\ cs # None /\ g # 0 => OneSegment(d, e, g, ClosedAs(d.segs[g], cs[1]))
    BY <1>2, <1>4, EndingWrites
  <1>6. SessionIn(e, s, E)
    BY <1>0, <1>5 DEF SessionIn
  <1>7. step.out.ended # None
    BY <1>4, OutcomeParts, Options
  <1>8. SegmentsIn(e, s, E) /\ EndsWithCredit(e)
    <2>1. CASE m.phase = "between"
      <3>1. SameSegments(d, e)
        BY <1>5, <1>f, <2>1
      <3> QED BY <1>0, <3>1, SameSegmentsIn
    <2>2. CASE m.phase = "in"
      <3>1. /\ g # 0 /\ g \in DOMAIN d.segs /\ d.segs[g].by = "open" /\ d.segs[g].session = s
            /\ d.segs[g] \in Segment
        BY <1>f, <2>2, BooksHold DEF Writable, Balanced
      <3>2. PICK c \in ClosedOut :
           /\ ClosedByEnd(m, now, reason) = Some(c)
           /\ ClosedFits(d.segs[g], ClosedAs(d.segs[g], c), E)
        <4>1. InFits(m, d.segs[g], E, now.mono, last)
          BY <1>f, <2>2
        <4> QED BY <2>2, <3>1, <4>1, EndInTime, ZenonT(60)
      <3>3. PICK q : q = ClosedAs(d.segs[g], c)
        OBVIOUS
      <3>4. /\ q.started = d.segs[g].started /\ q.by # "open"
            /\ q.ended = q.started + q.credit /\ Seconds(q) \subseteq E
        BY <3>2, <3>3 DEF ClosedFits
      <3>5. OneSegment(d, e, g, q)
        BY <1>3, <1>5, <3>1, <3>2, <3>3, Options
      <3>6. q.started \in E
        BY <1>0, <3>1, <3>4 DEF SegmentsIn
      <3> QED BY <1>0, <3>4, <3>5, <3>6, OneSegmentIn
    <2> QED BY <1>f, <2>1, <2>2, MachineIs
  <1> QED BY <1>6, <1>7, <1>8 DEF Accounted

-----------------------------------------------------------------------------
(* Time: a transaction that commits.                                       *)

(* A machine whose segment was not written still fits. *)
LEMMA SameFits ==
  ASSUME NEW m, NEW g, NEW d, NEW e, NEW E, NEW now, NEW last, MachineFits(m, g, d, E, now, last),
         m.phase = "in" => e.segs[g] = d.segs[g]
  PROVE  MachineFits(m, g, e, E, now, last)
  BY DEF MachineFits

(* A write for one session leaves what accounts for another's rows. *)
LEMMA OthersAccounted ==
  ASSUME NEW s, NEW d, NEW e, WritesFor(s, d, e), NEW t \in Sessions, t # s, NEW E, Accounted(d, t, E)
  PROVE  Accounted(e, t, E)
  <1>1. SessionIn(e, t, E)
    <2>1. e.sess[t] = d.sess[t]
      BY DEF WritesFor
    <2> QED BY <2>1, SameSessionIn DEF Accounted
  <1>2. ASSUME NEW g \in DOMAIN e.segs, e.segs[g].session = t
        PROVE  e.segs[g].started \in E /\ Seconds(e.segs[g]) \subseteq E
    <2>1. g \in DOMAIN d.segs
      BY <1>2 DEF WritesFor
    <2>2. e.segs[g] = d.segs[g]
      BY <1>2, <2>1 DEF WritesFor
    <2> QED BY <1>2, <2>1, <2>2 DEF Accounted, SegmentsIn
  <1> QED BY <1>1, <1>2 DEF Accounted, SegmentsIn

(* And its machine. *)
LEMMA OthersMachine ==
  ASSUME LedgerInv, NEW s \in Sessions, WritesFor(s, db, db'), NEW t \in Sessions, t # s, MachineOf(t),
         live'[t] = live[t], clock' = clock, LastTick' = LastTick, faults'.inputs = faults.inputs,
         evidence'[t] = evidence[t], Observing(t)' <=> Observing(t)
  PROVE  MachineOf(t)'
  <1>1. CASE ~live[t].on
    BY <1>1 DEF MachineOf
  <1>2. CASE live[t].on
    <2>1. MachineFits(live[t].machine, live[t].segment, db, evidence[t], clock.mono, faults.inputs)
      BY <1>2 DEF MachineOf
    <2>2. ASSUME live[t].machine.phase = "in"
          PROVE  db'.segs[live[t].segment] = db.segs[live[t].segment]
      <3>1. live[t].segment # 0
        BY <2>1, <2>2 DEF MachineFits
      <3>2. Follows(t)
        BY DEF LedgerInv
      <3>3. live[t].segment \in DOMAIN db.segs /\ db.segs[live[t].segment].session = t
        BY <1>2, <3>1, <3>2 DEF Follows
      <3> QED BY <3>3 DEF WritesFor
    <2>3. MachineFits(live[t].machine, live[t].segment, db', evidence[t], clock.mono, faults.inputs)
      BY <2>1, <2>2, SameFits
    <2> QED BY <1>2, <2>3 DEF MachineOf
  <1> QED BY <1>1, <1>2

(* What the inductive invariant says of a time nothing has upset. *)
LEMMA TimelyNow ==
  ASSUME TimeInv, ~faults.met
  PROVE  /\ OnTime /\ EndsWithCredit(db)
         /\ \A s \in Sessions :
              /\ up /\ db.sess[s].state = "open" => live[s].on
              /\ MachineOf(s) /\ EditEvidenced(s) /\ ClaimEvidenced(s) /\ SignalEvidenced(s)
              /\ Accounted(db, s, evidence[s])
  BY DEF TimeInv, Timely

(* A transaction that commits keeps time, if what it writes is accounted   *)
(* for and the machine it leaves fits it.                                  *)
LEMMA CommitTimely ==
  ASSUME LedgerInv, TimeInv, ~faults.met, NEW s \in Sessions, live[s].on, NEW l, Handed(l, s),
         NEW step \in Steps, Commit(l, s, step), UNCHANGED <<focus, clock, up, evidence>>,
         Accounted(db', s, evidence[s]), EndsWithCredit(db'),
         step.out.ended = None =>
           /\ MachineFits(step.machine, NextSegment(db', live[s].segment, step.out), db', evidence[s],
                          clock.mono, faults.inputs)
           /\ InTime(step.machine, live[s].wait, LastTick),
         ~Observing(s)', \A t \in Sessions : t # s => (Observing(t)' <=> Observing(t)),
         loop'.signals = loop.signals, loop'.at = loop.at
  PROVE  TimeInv'
  <1>t. /\ OnTime /\ EndsWithCredit(db)
        /\ \A t \in Sessions :
             /\ up /\ db.sess[t].state = "open" => live[t].on
             /\ MachineOf(t) /\ EditEvidenced(t) /\ ClaimEvidenced(t) /\ SignalEvidenced(t)
             /\ Accounted(db, t, evidence[t])
    BY TimelyNow
  <1>c. /\ Balanced(db') /\ WritesFor(s, db, db') /\ faults' = faults
        /\ \A t \in Sessions : t # s => live'[t] = live[t]
        /\ step.out.ended # None =>
             ~live'[s].on /\ watch' = Unwatch(s) /\ db'.sess[s].state = "closed"
        /\ step.out.ended = None =>
             /\ watch' = watch /\ live'[s].on
             /\ live'[s].project = live[s].project /\ live'[s].machine = step.machine
             /\ live'[s].segment = NextSegment(db', live[s].segment, step.out)
             /\ live'[s].launched = live[s].launched /\ live'[s].wait = live[s].wait
    BY CommitLeaves
  <1>u. focus' = focus /\ clock' = clock /\ up' = up /\ evidence' = evidence
    OBVIOUS
  <1>w. /\ watch'.rx = watch.rx /\ \A t \in Sessions : t # s => watch'.roots[t] = watch.roots[t]
        /\ watch'.roots[s] = None \/ (watch' = watch /\ live'[s].on /\ live'[s].project = live[s].project)
    <2>1. Typed
      BY DEF LedgerInv
    <2> QED BY <1>c, <2>1, UnwatchIs
  <1>l. LastTick' = LastTick /\ NextTick' = NextTick
    BY <1>u DEF LastTick, NextTick
  <1>1. OnTime'
    BY <1>t, <1>c, <1>u, <1>l DEF OnTime, At
  <1>2. ASSUME NEW t \in Sessions
        PROVE  Timely(t)'
    <2>1. up' /\ db'.sess[t].state = "open" => live'[t].on
      <3>1. CASE t = s
        BY <1>c, <3>1
      <3>2. CASE t # s
        BY <1>t, <1>c, <1>u, <3>2 DEF WritesFor
      <3> QED BY <3>1, <3>2
    <2>2. MachineOf(t)'
      <3>1. CASE t = s
        BY <1>c, <1>u, <1>l, <3>1 DEF MachineOf
      <3>2. CASE t # s
        <4>1. MachineOf(t) /\ live'[t] = live[t] /\ (Observing(t)' <=> Observing(t))
          BY <1>t, <1>c, <3>2
        <4> QED BY <1>c, <1>u, <1>l, <3>2, <4>1, OthersMachine
      <3> QED BY <3>1, <3>2
    <2>3. EditEvidenced(t)'
      <3>1. EditEvidenced(t)
        BY <1>t
      <3>2. CASE watch'.roots[t] = None
        BY <3>2 DEF EditEvidenced
      <3>3. CASE watch'.roots[t] # None
        <4>1. watch'.roots[t] = watch.roots[t] /\ (live[t].on => live'[t].on /\ live'[t].project = live[t].project)
          BY <1>c, <1>w, <3>3
        <4> QED BY <1>c, <1>u, <1>w, <1>l, <3>1, <4>1 DEF EditEvidenced, At
      <3> QED BY <3>2, <3>3
    <2>4. ClaimEvidenced(t)'
      <3>1. ClaimEvidenced(t)
        BY <1>t
      <3>2. live'[t].on => live[t].on /\ live'[t].project = live[t].project /\ live'[t].launched = live[t].launched
        BY <1>c
      <3> QED BY <1>u, <3>1, <3>2 DEF ClaimEvidenced, At
    <2>5. SignalEvidenced(t)'
      <3>1. SignalEvidenced(t)
        BY <1>t
      <3>2. Observing(t)' => Observing(t)
        OBVIOUS
      <3> QED BY <1>c, <1>u, <3>1, <3>2 DEF SignalEvidenced
    <2>6. Accounted(db', t, evidence'[t])
      <3>1. CASE t = s
        BY <1>u, <3>1
      <3>2. CASE t # s
        BY <1>t, <1>c, <1>u, <3>2, OthersAccounted
      <3> QED BY <3>1, <3>2
    <2> QED BY <2>1, <2>2, <2>3, <2>4, <2>5, <2>6 DEF Timely
  <1>3. EndsWithCredit(db')
    OBVIOUS
  <1> QED BY <1>1, <1>2, <1>3 DEF TimeInv

(* A step that only moves the pass on, or a process, keeps time. *)
LEMMA SilentTimely ==
  ASSUME LedgerInv, TimeInv, ~faults'.met, faults'.met = faults.met, faults'.inputs = faults.inputs,
         UNCHANGED <<db, watch, focus, clock, up, evidence>>,
         \A s \in Sessions : live'[s].on <=> live[s].on,
         \A s \in Sessions : live[s].on =>
           /\ live'[s].project = live[s].project /\ live'[s].machine = live[s].machine
           /\ live'[s].segment = live[s].segment /\ live'[s].launched = live[s].launched
           /\ live'[s].wait = live[s].wait,
         \A s \in Sessions : Observing(s)' <=> Observing(s),
         loop'.at = "observe" => loop'.signals = loop.signals,
         loop'.at \in {"observe", "reap"} => loop.at \in {"observe", "reap"}
  PROVE  TimeInv'
  <1>t. /\ OnTime /\ EndsWithCredit(db)
        /\ \A t \in Sessions :
             /\ up /\ db.sess[t].state = "open" => live[t].on
             /\ MachineOf(t) /\ EditEvidenced(t) /\ ClaimEvidenced(t) /\ SignalEvidenced(t)
             /\ Accounted(db, t, evidence[t])
    BY TimelyNow
  <1>u. db' = db /\ watch' = watch /\ focus' = focus /\ clock' = clock /\ up' = up /\ evidence' = evidence
    OBVIOUS
  <1>l. LastTick' = LastTick /\ NextTick' = NextTick
    BY <1>u DEF LastTick, NextTick
  <1>1. OnTime'
    BY <1>t, <1>u, <1>l DEF OnTime, At
  <1>2. ASSUME NEW t \in Sessions
        PROVE  Timely(t)'
    <2>1. MachineOf(t)'
      <3>1. MachineOf(t)
        BY <1>t
      <3> QED BY <1>u, <1>l, <3>1 DEF MachineOf
    <2>2. EditEvidenced(t)'
      <3>1. EditEvidenced(t)
        BY <1>t
      <3> QED BY <1>u, <1>l, <3>1 DEF EditEvidenced, At
    <2>3. ClaimEvidenced(t)'
      <3>1. ClaimEvidenced(t)
        BY <1>t
      <3> QED BY <1>u, <3>1 DEF ClaimEvidenced, At
    <2>4. SignalEvidenced(t)'
      <3>1. SignalEvidenced(t)
        BY <1>t
      <3>2. CASE ~Observing(t)'
        BY <3>2 DEF SignalEvidenced
      <3>3. CASE Observing(t)'
        <4>1. Observing(t) /\ loop'.signals = loop.signals
          BY <3>3 DEF Observing
        <4> QED BY <1>u, <3>1, <4>1 DEF SignalEvidenced
      <3> QED BY <3>2, <3>3
    <2>5. (up' /\ db'.sess[t].state = "open" => live'[t].on) /\ Accounted(db', t, evidence'[t])
      BY <1>t, <1>u
    <2> QED BY <2>1, <2>2, <2>3, <2>4, <2>5 DEF Timely
  <1> QED BY <1>1, <1>2, <1>t, <1>u DEF TimeInv

-----------------------------------------------------------------------------
(* Time: the handlers that write.                                          *)

(* What a transaction starts from. *)
LEMMA LiveTimely ==
  ASSUME LedgerInv, TimeInv, ~faults.met, NEW s \in Sessions, live[s].on
  PROVE  /\ Balanced(db) /\ db.sess[s].state = "open" /\ live[s].segment \in Nat
         /\ Writable(db, s, live[s].segment) /\ EndsWithCredit(db) /\ Accounted(db, s, evidence[s])
         /\ live[s].machine \in Machines /\ live[s].wait \in BOOLEAN
         /\ clock \in Moments /\ clock.wall = At(clock.mono) /\ faults.inputs \in Nat
         /\ MachineFits(live[s].machine, live[s].segment, db, evidence[s], clock.mono, faults.inputs)
  <1>1. Balanced(db) /\ Follows(s) /\ Typed
    BY DEF LedgerInv
  <1>2. live[s].segment \in Nat /\ live[s].machine \in Machines /\ live[s].wait \in BOOLEAN
    BY <1>1, LiveIs DEF Typed
  <1>3. clock \in Moments /\ faults.inputs \in Nat
    BY <1>1 DEF Typed, Faults
  <1>4. db.sess[s].state = "open" /\ Writable(db, s, live[s].segment)
    BY <1>1 DEF Follows, Writable
  <1>5. OnTime /\ EndsWithCredit(db) /\ MachineOf(s) /\ Accounted(db, s, evidence[s])
    BY TimelyNow
  <1>6. MachineFits(live[s].machine, live[s].segment, db, evidence[s], clock.mono, faults.inputs)
    BY <1>5 DEF MachineOf
  <1>7. clock.wall = At(clock.mono)
    BY <1>5 DEF OnTime
  <1> QED BY <1>1, <1>2, <1>3, <1>4, <1>5, <1>6, <1>7

(* The end of a session keeps time. *)
LEMMA EndTimely ==
  ASSUME LedgerInv, TimeInv, ~faults.met, NEW s \in Sessions, live[s].on, NEW l, Handed(l, s),
         NEW reason \in {"stop", "process_exit", "app_exit"},
         NEW step \in Steps, step = End(live[s].machine, clock, reason), Commit(l, s, step),
         UNCHANGED <<focus, clock, up, evidence>>,
         loop.at # "observe", loop'.at = loop.at, loop'.signals = loop.signals
  PROVE  TimeInv'
  <1>1. db' = Written(db, s, live[s].segment, step.out)
    BY CommitLeaves
  <1>2. /\ Balanced(db) /\ db.sess[s].state = "open" /\ live[s].segment \in Nat
        /\ Writable(db, s, live[s].segment) /\ EndsWithCredit(db) /\ Accounted(db, s, evidence[s])
        /\ live[s].machine \in Machines
        /\ clock \in Moments /\ clock.wall = At(clock.mono) /\ faults.inputs \in Nat
        /\ MachineFits(live[s].machine, live[s].segment, db, evidence[s], clock.mono, faults.inputs)
    BY LiveTimely
  <1>3. Accounted(db', s, evidence[s]) /\ EndsWithCredit(db') /\ step.out.ended # None
    BY <1>1, <1>2, EndAccounts
  <1>4. \A t \in Sessions : ~Observing(t) /\ ~Observing(t)'
    BY DEF Observing
  <1> QED BY <1>3, <1>4, CommitTimely

(* stop keeps time. *)
LEMMA StopTimely ==
  ASSUME LedgerInv, TimeInv, ~faults'.met, NEW s \in Sessions, Stop(s)
  PROVE  TimeInv'
  <1>1. /\ live[s].on /\ Handed(live, s)
        /\ AtRest /\ UNCHANGED <<focus, loop, clock, up, edited, evidence>>
    BY StopIs
  <1>2. PICK step \in Steps : /\ step = End(live[s].machine, clock, "stop")
                              /\ Commit(live, s, step) \/ Refuse(live, s, step)
    BY StopIs
  <1>3. ~Refuse(live, s, step)
    BY <1>1, RefuseLeaves
  <1>4. Commit(live, s, step) /\ faults' = faults
    BY <1>1, <1>2, <1>3, CommitLeaves
  <1> QED BY <1>1, <1>2, <1>4, EndTimely DEF AtRest

(* A refusal upsets time, and a commit does not. *)
LEMMA AppliedIs ==
  ASSUME LedgerInv, NEW s \in loop.todo, live[s].on, NEW l, Handed(l, s), NEW step \in Steps,
         Apply(l, s, step), ~faults'.met
  PROVE  /\ s \in Sessions /\ Commit(l, s, step) /\ faults' = faults
         /\ loop'.at = loop.at /\ loop'.todo = loop.todo \ {s} /\ loop'.signals = loop.signals
  <1>1. s \in Sessions
    BY ApplyIs
  <1>2. ~Refuse(l, s, step)
    BY <1>1, RefuseLeaves
  <1>3. Commit(l, s, step) /\ loop'.at = loop.at /\ loop'.todo = loop.todo \ {s}
          /\ loop'.signals = loop.signals
    BY <1>2, ApplyIs
  <1> QED BY <1>1, <1>3, CommitLeaves

(* The tick's reaping of a finished process keeps time. *)
LEMMA ReapTimely ==
  ASSUME LedgerInv, TimeInv, ~faults'.met, TickReap
  PROVE  TimeInv'
  <1>1. loop.at = "reap" /\ UNCHANGED <<focus, clock, up, edited, evidence>>
    BY ReapIs
  <1>2. PICK s \in loop.todo : live[s].on /\
          \/ \E step \in Steps : \E l :
               /\ Handed(l, s) /\ step = End(live[s].machine, clock, "process_exit")
               /\ Apply(l, s, step)
          \/ loop' = [loop EXCEPT !.todo = @ \ {s}] /\ UNCHANGED <<db, live, watch, faults>>
    BY ReapIs
  <1>3. CASE \E step \in Steps : \E l :
               /\ Handed(l, s) /\ step = End(live[s].machine, clock, "process_exit")
               /\ Apply(l, s, step)
    <2>1. PICK step \in Steps : \E l :
               /\ Handed(l, s) /\ step = End(live[s].machine, clock, "process_exit")
               /\ Apply(l, s, step)
      BY <1>3
    <2>2. PICK l : /\ Handed(l, s) /\ step = End(live[s].machine, clock, "process_exit")
                   /\ Apply(l, s, step)
      BY <2>1
    <2>3. /\ s \in Sessions /\ Commit(l, s, step) /\ faults' = faults
          /\ loop'.at = loop.at /\ loop'.signals = loop.signals
      BY <1>2, <2>2, AppliedIs
    <2>4. ~faults.met
      BY <2>3
    <2> QED BY <1>1, <1>2, <2>2, <2>3, <2>4, EndTimely
  <1>4. CASE loop' = [loop EXCEPT !.todo = @ \ {s}] /\ UNCHANGED <<db, live, watch, faults>>
    <2>1. loop \in Passes
      BY DEF LedgerInv, Typed
    <2>2. loop'.at = loop.at
      BY <1>4, <2>1 DEF Passes
    <2>3. \A t \in Sessions : ~Observing(t) /\ ~Observing(t)'
      BY <1>1, <2>2 DEF Observing
    <2> QED BY <1>1, <1>4, <2>2, <2>3, SilentTimely
  <1> QED BY <1>2, <1>3, <1>4

(* A shutdown's close keeps time. *)
LEMMA ShutdownTimely ==
  ASSUME LedgerInv, TimeInv, ~faults'.met, ShutdownOne
  PROVE  TimeInv'
  <1>1. loop.at = "shutdown" /\ UNCHANGED <<focus, clock, up, edited, evidence>>
    BY ShutdownOneIs
  <1>2. PICK s \in loop.todo : \E step \in Steps :
          /\ live[s].on /\ Handed(live, s)
          /\ step = End(live[s].machine, clock, "app_exit")
          /\ Apply(live, s, step)
    BY ShutdownOneIs
  <1>3. PICK step \in Steps : /\ live[s].on /\ Handed(live, s)
                              /\ step = End(live[s].machine, clock, "app_exit")
                              /\ Apply(live, s, step)
    BY <1>2
  <1>4. /\ s \in Sessions /\ Commit(live, s, step) /\ faults' = faults
        /\ loop'.at = loop.at /\ loop'.signals = loop.signals
    BY <1>3, AppliedIs
  <1>5. ~faults.met
    BY <1>4
  <1> QED BY <1>1, <1>3, <1>4, <1>5, EndTimely

(* The tick's observation of a session keeps time. *)
LEMMA ObserveTimely ==
  ASSUME LedgerInv, TimeInv, ~faults'.met, TickObserve
  PROVE  TimeInv'
  <1>1. loop.at = "observe" /\ UNCHANGED <<focus, clock, up, edited, evidence>>
    BY ObserveIs
  <1>2. PICK s \in loop.todo : \E step \in Steps, signal \in BOOLEAN :
              /\ live[s].on /\ Handed(live, s) /\ (signal <=> s \in loop.signals)
              /\ step = Observe(live[s].machine, live[s].wait, clock, signal)
              /\ Apply(live, s, step)
    BY ObserveIs
  <1>3. PICK step \in Steps, signal \in BOOLEAN :
              /\ live[s].on /\ Handed(live, s) /\ (signal <=> s \in loop.signals)
              /\ step = Observe(live[s].machine, live[s].wait, clock, signal)
              /\ Apply(live, s, step)
    BY <1>2
  <1>4. /\ s \in Sessions /\ Commit(live, s, step) /\ faults' = faults
        /\ loop'.at = loop.at /\ loop'.todo = loop.todo \ {s} /\ loop'.signals = loop.signals
    BY <1>3, AppliedIs
  <1>5. ~faults.met
    BY <1>4
  <1>6. /\ Balanced(db) /\ db.sess[s].state = "open" /\ live[s].segment \in Nat
        /\ Writable(db, s, live[s].segment) /\ EndsWithCredit(db) /\ Accounted(db, s, evidence[s])
        /\ live[s].machine \in Machines /\ live[s].wait \in BOOLEAN
        /\ clock \in Moments /\ clock.wall = At(clock.mono) /\ faults.inputs \in Nat
        /\ MachineFits(live[s].machine, live[s].segment, db, evidence[s], clock.mono, faults.inputs)
    BY <1>3, <1>4, <1>5, LiveTimely
  <1>7. signal => SignalFits(evidence[s], clock.mono, faults.inputs)
    <2>1. SignalEvidenced(s)
      BY <1>4, <1>5, TimelyNow
    <2> QED BY <1>1, <1>3, <2>1 DEF SignalEvidenced, Observing
  <1>8. db' = Written(db, s, live[s].segment, step.out)
    BY <1>3, <1>4, CommitLeaves
  <1>9. /\ Accounted(db', s, evidence[s]) /\ EndsWithCredit(db')
        /\ step.out.ended = None =>
             /\ MachineFits(step.machine, NextSegment(db', live[s].segment, step.out), db',
                            evidence[s], clock.mono, faults.inputs)
             /\ InTime(step.machine, live[s].wait, clock.mono)
    BY <1>3, <1>4, <1>6, <1>7, <1>8, ObserveAccounts
  <1>10. LastTick = clock.mono
    <2>1. OnTime
      BY <1>5, TimelyNow
    <2>2. clock.ticked = Some(clock.mono)
      BY <1>1, <2>1 DEF OnTime
    <2> QED BY <2>2, Options DEF LastTick
  <1>11. /\ ~Observing(s)' /\ \A t \in Sessions : t # s => (Observing(t)' <=> Observing(t))
    BY <1>4 DEF Observing
  <1> QED BY <1>1, <1>3, <1>4, <1>5, <1>9, <1>10, <1>11, CommitTimely

-----------------------------------------------------------------------------
(* Time: a launch.                                                         *)

(* A launch accounts for its first segment. *)
LEMMA LaunchEvidence ==
  ASSUME LedgerInv, NEW p, NEW E, E = IF ClaimedNow(p) \/ p \in watch.rx[1]
                                      THEN Touch(clock.wall) ELSE Window(clock.wall, SegmentIdle + TickPeriod - 1)
  PROVE  /\ clock.wall .. clock.wall + Lasting - 1 \subseteq E /\ clock.wall \in E
         /\ ClaimedNow(p) \/ p \in watch.rx[1] => E = Touch(clock.wall)
  <1>1. clock.wall \in Nat /\ clock.mono \in Nat
    BY MomentIs DEF LedgerInv, Typed
  <1>2. Lasting \in Nat /\ Lasting > 0 /\ Lasting = SegmentIdle + TickPeriod - 1
    BY LastingIs
  <1>3. clock.wall .. clock.wall + Lasting - 1 \subseteq Touch(clock.wall)
    BY <1>1, <1>2, Consts DEF Touch, Window
  <1>4. clock.wall .. clock.wall + Lasting - 1 \subseteq Window(clock.wall, SegmentIdle + TickPeriod - 1)
    BY <1>1, <1>2, Consts DEF Window
  <1>5. clock.wall .. clock.wall + Lasting - 1 \subseteq E
    BY <1>3, <1>4
  <1>6. clock.wall \in clock.wall .. clock.wall + Lasting - 1
    BY <1>1, <1>2
  <1> QED BY <1>5, <1>6

(* The machine a launch starts fits its segment. *)
LEMMA LaunchFits ==
  ASSUME NEW now \in Moments, now.wall = At(now.mono), NEW last \in Nat, now.mono <= last, NEW s, NEW E,
         now.wall .. now.wall + Lasting - 1 \subseteq E,
         NEW m, m = InSegment(now.wall, now.wall, now.mono), NEW d, NEW g, g # 0,
         d.segs[g] = Unsignalled(s, now.wall)
  PROVE  MachineFits(m, g, d, E, now.mono, last)
  <1>1. now.wall \in Nat /\ now.mono \in Nat /\ Lasting \in Nat /\ Lasting > 0
    BY MomentIs, LastingIs
  <1>2. m.phase = "in" /\ m.started = now.wall /\ m.at = now.wall /\ m.mono = now.mono
    BY DEF InSegment
  <1>3. d.segs[g].started = now.wall /\ d.segs[g].credit = 0
    BY DEF Unsignalled
  <1>4. InFits(m, d.segs[g], E, now.mono, last)
    BY <1>1, <1>2, <1>3, Consts DEF InFits
  <1> QED BY <1>2, <1>4 DEF MachineFits

(* An input now reaches to the next tick, and as long after it as a segment lasts. *)
LEMMA TouchReaches ==
  ASSUME LedgerInv, OnTime, up, Inputs
  PROVE  /\ NextTick \in Nat /\ NextTick <= faults.inputs + TickPeriod /\ LastTick \in Nat
         /\ clock.mono <= NextTick
         /\ At(clock.mono) .. At(NextTick) + Lasting - 1 \subseteq Touch(clock.wall)
  <1>1. clock.wall \in Nat /\ clock.mono \in Nat /\ faults.inputs \in Nat /\ clock.ticked \in Perhaps(Nat)
    BY MomentIs DEF LedgerInv, Typed, Faults
  <1>2. LastTick \in Nat /\ NextTick \in Nat /\ NextTick <= LastTick + TickPeriod
    BY <1>1, PerhapsIs, Consts DEF LastTick, NextTick
  <1>3. /\ clock.wall = At(clock.mono) /\ LastTick <= clock.mono /\ clock.mono <= NextTick
        /\ clock.mono <= faults.inputs
    BY DEF OnTime, Inputs
  <1>4. NextTick <= faults.inputs + TickPeriod
    BY <1>1, <1>2, <1>3, Consts
  <1>5. At(NextTick) + Lasting - 1 <= clock.wall + FocusStale + TickPeriod + SegmentIdle - 1
    BY <1>1, <1>2, <1>3, LastingIs, Consts DEF At
  <1>6. At(clock.mono) .. At(NextTick) + Lasting - 1 \subseteq Touch(clock.wall)
    BY <1>1, <1>2, <1>3, <1>5, LastingIs, Consts DEF At, Touch, Window
  <1> QED BY <1>2, <1>3, <1>4, <1>6

(* launch keeps time. *)
LEMMA LaunchTimely ==
  ASSUME LedgerInv, TimeInv, ~faults'.met, NEW p \in Projects, NEW wait \in BOOLEAN, Launch(p, wait)
  PROVE  TimeInv'
  <1>1. AtRest /\ Inputs /\ UNCHANGED <<focus, loop, clock, up, edited>>
    BY LaunchLeaves
  <1>2. PICK s \in Sessions : LaunchedAs(s, p, wait)
    BY LaunchLeaves
  <1>3. /\ db.sess[s].state = "none" /\ Balanced(db') /\ WritesFor(s, db, db')
        /\ db'.sess[s] = [state |-> "open", project |-> p, started |-> clock.wall]
        /\ Len(db'.segs) = Len(db.segs) + 1 /\ DOMAIN db'.segs = DOMAIN db.segs \cup {Len(db'.segs)}
        /\ db'.segs[Len(db'.segs)] = Unsignalled(s, clock.wall)
        /\ live'[s] = Launched(p, wait) /\ \A t \in Sessions : t # s => live'[t] = live[t]
    BY <1>2 DEF LaunchedAs
  <1>4. /\ watch'.rx = watch.rx
        /\ watch'.roots[s] = watch.roots[s] \/ watch'.roots[s] = Some(p)
        /\ \A t \in Sessions : t # s => watch'.roots[t] = watch.roots[t]
        /\ evidence'[s] = IF ClaimedNow(p) \/ p \in watch.rx[1]
                          THEN Touch(clock.wall) ELSE Window(clock.wall, SegmentIdle + TickPeriod - 1)
        /\ \A t \in Sessions : t # s => evidence'[t] = evidence[t]
        /\ faults'.met = faults.met /\ faults'.inputs = faults.inputs
    BY <1>2 DEF LaunchedAs
  <1>t. /\ OnTime /\ EndsWithCredit(db)
        /\ \A t \in Sessions :
             /\ up /\ db.sess[t].state = "open" => live[t].on
             /\ MachineOf(t) /\ EditEvidenced(t) /\ ClaimEvidenced(t) /\ SignalEvidenced(t)
             /\ Accounted(db, t, evidence[t])
    BY <1>4, TimelyNow
  <1>l. LastTick' = LastTick /\ NextTick' = NextTick
    BY <1>1 DEF LastTick, NextTick
  <1>o. \A t \in Sessions : ~Observing(t) /\ ~Observing(t)'
    BY <1>1 DEF Observing, AtRest
  <1>r. /\ NextTick \in Nat /\ NextTick <= faults.inputs + TickPeriod /\ LastTick \in Nat
        /\ clock.mono <= NextTick /\ At(clock.mono) .. At(NextTick) + Lasting - 1 \subseteq Touch(clock.wall)
    BY <1>1, <1>t, TouchReaches DEF AtRest
  <1>e. /\ clock.wall .. clock.wall + Lasting - 1 \subseteq evidence'[s] /\ clock.wall \in evidence'[s]
        /\ ClaimedNow(p) \/ p \in watch.rx[1] => evidence'[s] = Touch(clock.wall)
    BY <1>4, LaunchEvidence
  <1>n. /\ ~live[s].on /\ watch.roots[s] = None /\ \A g \in DOMAIN db.segs : db.segs[g].session # s
    <2>1. ~live[s].on
      BY <1>3 DEF LedgerInv, Follows
    <2>2. watch.roots[s] = None
      BY <1>t, <2>1 DEF EditEvidenced
    <2>3. \A g \in DOMAIN db.segs : db.segs[g].session # s
      BY <1>3 DEF LedgerInv, Balanced, HasSegments
    <2> QED BY <2>1, <2>2, <2>3
  <1>x. /\ live'[s].on /\ live'[s].project = p /\ live'[s].segment = Len(db'.segs)
        /\ live'[s].machine = InSegment(clock.wall, clock.wall, clock.mono)
        /\ live'[s].launched = clock.mono /\ Len(db'.segs) # 0
    <2>1. /\ live'[s].on /\ live'[s].project = p /\ live'[s].segment = Len(db.segs) + 1
          /\ live'[s].machine = InSegment(clock.wall, clock.wall, clock.mono)
          /\ live'[s].launched = clock.mono
      BY <1>3, LaunchRunning
    <2>2. Len(db.segs) \in Nat
      BY BooksHold DEF LedgerInv, Balanced
    <2> QED BY <1>3, <2>1, <2>2
  <1>m. clock \in Moments /\ faults.inputs \in Nat /\ clock.mono \in Nat /\ clock.wall \in Nat
    BY MomentIs DEF LedgerInv, Typed, Faults
  <1>5. OnTime'
    BY <1>1, <1>t, <1>l, <1>4 DEF OnTime, At
  <1>6. EndsWithCredit(db')
    <2>1. ASSUME NEW g \in DOMAIN db'.segs
          PROVE  db'.segs[g].ended = db'.segs[g].started
                                       + IF db'.segs[g].by = "open" THEN 0 ELSE db'.segs[g].credit
      <3>1. CASE g \in DOMAIN db.segs
        <4>1. db'.segs[g] = db.segs[g]
          BY <1>3, <1>n, <3>1 DEF WritesFor
        <4> QED BY <1>t, <3>1, <4>1 DEF EndsWithCredit
      <3>2. CASE g = Len(db'.segs)
        BY <1>3, <1>m, <3>2 DEF Unsignalled
      <3> QED BY <1>3, <3>1, <3>2
    <2> QED BY <2>1 DEF EndsWithCredit
  <1>7. Timely(s)'
    <2>1. MachineOf(s)'
      <3>1. MachineFits(live'[s].machine, live'[s].segment, db', evidence'[s], clock.mono, faults.inputs)
        BY <1>1, <1>3, <1>e, <1>m, <1>t, <1>x, LaunchFits DEF OnTime, Inputs
      <3>2. LastTick <= clock.mono
        BY <1>t DEF OnTime
      <3>3. InTime(live'[s].machine, live'[s].wait, LastTick)
        BY <1>r, <1>m, <1>x, <3>2, Consts DEF InTime, InSegment
      <3> QED BY <1>1, <1>4, <1>l, <3>1, <3>3 DEF MachineOf
    <2>2. EditEvidenced(s)'
      <3>1. CASE watch'.roots[s] = None
        BY <3>1 DEF EditEvidenced
      <3>2. CASE watch'.roots[s] = Some(p)
        BY <1>1, <1>4, <1>e, <1>l, <1>r, <1>x, <3>2 DEF EditEvidenced, At
      <3> QED BY <1>4, <1>n, <3>1, <3>2
    <2>3. ClaimEvidenced(s)'
      <3>1. ASSUME focus # None, focus[1].project = p, focus[1].at >= clock.mono
            PROVE  Touch(At(focus[1].at)) \subseteq evidence'[s]
        <4>1. focus[1] \in Claims
          BY <3>1, PerhapsIs DEF LedgerInv, Typed
        <4>2. focus[1].at \in Nat /\ focus[1] = [project |-> focus[1].project, at |-> focus[1].at]
          BY <4>1 DEF Claims
        <4>3. focus[1].at = clock.mono
          BY <1>m, <1>t, <3>1, <4>2 DEF OnTime
        <4>4. ClaimedNow(p)
          BY <3>1, <4>2, <4>3 DEF ClaimedNow
        <4> QED BY <1>e, <1>t, <4>3, <4>4 DEF OnTime
      <3> QED BY <1>1, <1>x, <3>1 DEF ClaimEvidenced, At
    <2>4. SignalEvidenced(s)'
      BY <1>o DEF SignalEvidenced
    <2>5. Accounted(db', s, evidence'[s])
      <3>1. SessionIn(db', s, evidence'[s])
        BY <1>3, <1>e DEF SessionIn
      <3>2. ASSUME NEW g \in DOMAIN db'.segs, db'.segs[g].session = s
            PROVE  db'.segs[g].started \in evidence'[s] /\ Seconds(db'.segs[g]) \subseteq evidence'[s]
        <4>1. g = Len(db'.segs)
          BY <1>3, <1>n, <3>2 DEF WritesFor
        <4>2. db'.segs[g].started = clock.wall /\ db'.segs[g].credit = 0
          BY <1>3, <4>1 DEF Unsignalled
        <4> QED BY <1>e, <1>m, <4>2 DEF Seconds
      <3> QED BY <3>1, <3>2 DEF Accounted, SegmentsIn
    <2> QED BY <1>x, <2>1, <2>2, <2>3, <2>4, <2>5 DEF Timely
  <1>8. ASSUME NEW t \in Sessions, t # s PROVE Timely(t)'
    <2>1. up' /\ db'.sess[t].state = "open" => live'[t].on
      BY <1>1, <1>3, <1>8, <1>t DEF WritesFor
    <2>2. MachineOf(t)'
      BY <1>1, <1>3, <1>4, <1>8, <1>l, <1>o, <1>t, OthersMachine
    <2>3. EditEvidenced(t)'
      <3>1. EditEvidenced(t)
        BY <1>t
      <3> QED BY <1>1, <1>3, <1>4, <1>8, <1>l, <3>1 DEF EditEvidenced, At
    <2>4. ClaimEvidenced(t)'
      <3>1. ClaimEvidenced(t)
        BY <1>t
      <3> QED BY <1>1, <1>3, <1>4, <1>8, <3>1 DEF ClaimEvidenced, At
    <2>5. SignalEvidenced(t)'
      BY <1>o DEF SignalEvidenced
    <2>6. Accounted(db', t, evidence'[t])
      BY <1>3, <1>4, <1>8, <1>t, OthersAccounted
    <2> QED BY <2>1, <2>2, <2>3, <2>4, <2>5, <2>6 DEF Timely
  <1> QED BY <1>5, <1>6, <1>7, <1>8 DEF TimeInv

-----------------------------------------------------------------------------
(* Time: inputs, and the turns of the loop.                                *)

(* What fits some evidence fits more of it. *)
LEMMA MoreFits ==
  ASSUME NEW E, NEW F, E \subseteq F
  PROVE  /\ \A m, g, d, now, last : MachineFits(m, g, d, E, now, last) => MachineFits(m, g, d, F, now, last)
         /\ \A now, last : SignalFits(E, now, last) => SignalFits(F, now, last)
         /\ \A d, s : Accounted(d, s, E) => Accounted(d, s, F)
  <1>1. ASSUME NEW m, NEW g, NEW d, NEW now, NEW last, MachineFits(m, g, d, E, now, last)
        PROVE  MachineFits(m, g, d, F, now, last)
    BY <1>1 DEF MachineFits, InFits, BetweenFits
  <1>2. ASSUME NEW now, NEW last, SignalFits(E, now, last) PROVE SignalFits(F, now, last)
    BY <1>2 DEF SignalFits
  <1>3. ASSUME NEW d, NEW s, Accounted(d, s, E) PROVE Accounted(d, s, F)
    <2>1. SegmentsIn(d, s, F)
      BY <1>3 DEF Accounted, SegmentsIn
    <2>2. SessionIn(d, s, F)
      BY <1>3 DEF Accounted, SessionIn
    <2> QED BY <2>1, <2>2 DEF Accounted
  <1> QED BY <1>1, <1>2, <1>3

(* An input leaves what it does not concern. *)
LEMMA InputTimely ==
  ASSUME TimeInv, ~faults.met, UNCHANGED <<db, live, loop, clock, up, faults>>, NEW s \in Sessions,
         evidence[s] \subseteq evidence'[s]
  PROVE  /\ MachineOf(s)' /\ SignalEvidenced(s)' /\ Accounted(db', s, evidence'[s])
         /\ up' /\ db'.sess[s].state = "open" => live'[s].on
  <1>1. /\ up /\ db.sess[s].state = "open" => live[s].on
        /\ MachineOf(s) /\ SignalEvidenced(s) /\ Accounted(db, s, evidence[s])
    BY TimelyNow
  <1>2. MachineOf(s)'
    <2>1. CASE ~live[s].on
      BY <2>1 DEF MachineOf
    <2>2. CASE live[s].on
      <3>1. MachineFits(live[s].machine, live[s].segment, db, evidence[s], clock.mono, faults.inputs)
        BY <1>1, <2>2 DEF MachineOf
      <3>2. MachineFits(live[s].machine, live[s].segment, db, evidence'[s], clock.mono, faults.inputs)
        BY <3>1, MoreFits
      <3>3. ~Observing(s) => InTime(live[s].machine, live[s].wait, LastTick)
        BY <1>1, <2>2 DEF MachineOf
      <3>4. (Observing(s)' <=> Observing(s)) /\ LastTick' = LastTick
        BY DEF Observing, LastTick
      <3> QED BY <2>2, <3>2, <3>3, <3>4 DEF MachineOf
    <2> QED BY <2>1, <2>2
  <1>3. SignalEvidenced(s)'
    <2>1. Observing(s)' <=> Observing(s)
      BY DEF Observing
    <2>2. CASE ~(Observing(s) /\ s \in loop.signals)
      BY <2>1, <2>2 DEF SignalEvidenced
    <2>3. CASE Observing(s) /\ s \in loop.signals
      <3>1. SignalFits(evidence[s], clock.mono, faults.inputs)
        BY <1>1, <2>3 DEF SignalEvidenced
      <3>2. SignalFits(evidence'[s], clock.mono, faults.inputs)
        BY <3>1, MoreFits
      <3> QED BY <3>2 DEF SignalEvidenced
    <2> QED BY <2>2, <2>3
  <1>4. Accounted(db', s, evidence'[s])
    BY <1>1, MoreFits
  <1> QED BY <1>1, <1>2, <1>3, <1>4

(* focus keeps time. *)
LEMMA FocusTimely ==
  ASSUME LedgerInv, TimeInv, ~faults'.met, NEW claim \in {None} \cup {Some(p) : p \in faults.of},
         SetFocus(claim)
  PROVE  TimeInv'
  <1>1. /\ AtRest /\ Inputs /\ UNCHANGED <<db, live, watch, loop, clock, up, edited, faults>>
        /\ focus' = IF claim = None THEN None ELSE Some([project |-> claim[1], at |-> clock.mono])
        /\ \A s \in Sessions : evidence'[s] = evidence[s] \cup
             IF live[s].on /\ claim = Some(live[s].project) THEN Touch(clock.wall) ELSE {}
    BY DEF SetFocus
  <1>t. /\ ~faults.met /\ OnTime /\ EndsWithCredit(db)
        /\ \A t \in Sessions : EditEvidenced(t)
    BY <1>1, TimelyNow
  <1>m. clock.mono \in Nat
    BY MomentIs DEF LedgerInv, Typed
  <1>l. LastTick' = LastTick /\ NextTick' = NextTick
    BY <1>1 DEF LastTick, NextTick
  <1>g. \A s \in Sessions : evidence[s] \subseteq evidence'[s]
    BY <1>1
  <1>f. focus' # None => /\ focus'[1].at = clock.mono /\ claim = Some(focus'[1].project)
    <2>1. CASE claim = None
      BY <1>1, <2>1
    <2>2. CASE claim # None
      <3>1. PICK p : claim = Some(p)
        BY <2>2
      <3>2. focus' = Some([project |-> p, at |-> clock.mono])
        BY <1>1, <2>2, <3>1, Options
      <3>3. focus'[1] = [project |-> p, at |-> clock.mono]
        BY <3>2, Options
      <3> QED BY <3>1, <3>3
    <2> QED BY <2>1, <2>2
  <1>2. OnTime'
    BY <1>1, <1>t, <1>f, <1>l, <1>m DEF OnTime, At, Inputs
  <1>3. ASSUME NEW s \in Sessions PROVE Timely(s)'
    <2>1. /\ MachineOf(s)' /\ SignalEvidenced(s)' /\ Accounted(db', s, evidence'[s])
          /\ up' /\ db'.sess[s].state = "open" => live'[s].on
      BY <1>1, <1>g, <1>t, InputTimely
    <2>2. EditEvidenced(s)'
      <3>1. EditEvidenced(s) /\ evidence[s] \subseteq evidence'[s]
        BY <1>t, <1>g
      <3> QED BY <1>1, <1>l, <3>1 DEF EditEvidenced, At
    <2>3. ClaimEvidenced(s)'
      <3>1. ASSUME live[s].on, focus' # None, focus'[1].project = live[s].project
            PROVE  Touch(At(focus'[1].at)) \subseteq evidence'[s]
        <4>1. claim = Some(live[s].project) /\ focus'[1].at = clock.mono
          BY <1>f, <3>1
        <4>2. Touch(clock.wall) \subseteq evidence'[s]
          BY <1>1, <3>1, <4>1
        <4> QED BY <1>t, <4>1, <4>2 DEF OnTime
      <3> QED BY <1>1, <3>1 DEF ClaimEvidenced, At
    <2> QED BY <2>1, <2>2, <2>3 DEF Timely
  <1> QED BY <1>1, <1>2, <1>3, <1>t DEF TimeInv

(* An edit keeps time, in the middle of a pass too. *)
LEMMA EditTimely ==
  ASSUME LedgerInv, TimeInv, ~faults'.met, NEW p \in Projects, Edit(p)
  PROVE  TimeInv'
  <1>1. /\ up /\ Inputs /\ UNCHANGED <<db, live, focus, loop, clock, up, faults>>
        /\ \A s \in Sessions : evidence'[s] = evidence[s] \cup
             IF live[s].on /\ live[s].project = p THEN Touch(clock.wall) ELSE {}
    BY DEF Edit, LiveSessions
  <1>w. watch'.roots = watch.roots /\ watch'.rx[1] \subseteq watch.rx[1] \cup {p}
    <2>1. PICK w : w = watch
      OBVIOUS
    <2>2. w \in Watches /\ w.rx \in Channel(Projects) /\ {p} \in SUBSET Projects
          /\ (watch' = w \/ watch' = [w EXCEPT !.rx = WithLast(w.rx, {p})])
      BY <2>1 DEF Edit, LedgerInv, Typed, Watches
    <2>0. Len(w.rx) \in Nat /\ Len(w.rx) > 0
      BY <2>2, ChannelIs
    <2>3. 1 \in 1 .. Len(w.rx) /\ Len(w.rx) \in Nat
      BY <2>0
    <2>4. WithLast(w.rx, {p})[1] \subseteq w.rx[1] \cup {p}
      <3>1. CASE Len(w.rx) = 1
        BY <2>2, <3>1, WithLastIs
      <3>2. CASE Len(w.rx) # 1
        BY <2>2, <2>3, <3>2, WithLastIs
      <3> QED BY <3>1, <3>2
    <2> QED BY <2>1, <2>2, <2>4 DEF Watches
  <1>t. /\ ~faults.met /\ OnTime /\ EndsWithCredit(db)
        /\ \A t \in Sessions : EditEvidenced(t) /\ ClaimEvidenced(t)
    BY <1>1, TimelyNow
  <1>l. LastTick' = LastTick /\ NextTick' = NextTick
    BY <1>1 DEF LastTick, NextTick
  <1>g. \A s \in Sessions : evidence[s] \subseteq evidence'[s]
    BY <1>1
  <1>r. /\ NextTick \in Nat /\ NextTick <= faults.inputs + TickPeriod
        /\ At(clock.mono) .. At(NextTick) + Lasting - 1 \subseteq Touch(clock.wall)
    BY <1>1, <1>t, TouchReaches
  <1>2. OnTime'
    BY <1>1, <1>t, <1>l DEF OnTime, At
  <1>3. ASSUME NEW s \in Sessions PROVE Timely(s)'
    <2>1. /\ MachineOf(s)' /\ SignalEvidenced(s)' /\ Accounted(db', s, evidence'[s])
          /\ up' /\ db'.sess[s].state = "open" => live'[s].on
      BY <1>1, <1>g, <1>t, InputTimely
    <2>2. EditEvidenced(s)'
      <3>1. EditEvidenced(s) /\ evidence[s] \subseteq evidence'[s]
        BY <1>t, <1>g
      <3>2. ASSUME live[s].on, live[s].project \in watch'.rx[1]
            PROVE  \/ live[s].project \in watch.rx[1]
                   \/ Touch(clock.wall) \subseteq evidence'[s]
        BY <1>1, <1>w, <3>2
      <3>3. ASSUME watch.roots[s] # None, live[s].project \in watch'.rx[1]
            PROVE  /\ NextTick <= faults.inputs + TickPeriod
                   /\ At(clock.mono) .. At(NextTick) + Lasting - 1 \subseteq evidence'[s]
        <4>1. live[s].on
          BY <3>1, <3>3 DEF EditEvidenced
        <4>2. CASE live[s].project \in watch.rx[1]
          BY <3>1, <3>3, <4>2 DEF EditEvidenced
        <4>3. CASE Touch(clock.wall) \subseteq evidence'[s]
          BY <1>r, <4>3
        <4> QED BY <3>2, <3>3, <4>1, <4>2, <4>3
      <3> QED BY <1>1, <1>l, <1>w, <3>1, <3>3 DEF EditEvidenced, At
    <2>3. ClaimEvidenced(s)'
      <3>1. ClaimEvidenced(s) /\ evidence[s] \subseteq evidence'[s]
        BY <1>t, <1>g
      <3> QED BY <1>1, <3>1 DEF ClaimEvidenced, At
    <2> QED BY <2>1, <2>2, <2>3 DEF Timely
  <1> QED BY <1>1, <1>2, <1>3, <1>t DEF TimeInv

(* Who is heard in a tick has its edit in the watcher. *)
LEMMA HeardAre ==
  ASSUME NEW s \in Heard
  PROVE  \E p \in watch.rx[1] : s \in Sessions /\ watch.roots[s] = Some(p)
  <1>1. PICK p \in watch.rx[1] : Absorbed(p) # {} /\ s = FirstOf(Absorbed(p))
    BY DEF Heard
  <1>2. Absorbed(p) \subseteq Sessions
    BY DEF Absorbed
  <1>3. s \in Absorbed(p)
    BY <1>1, <1>2, FirstIs
  <1> QED BY <1>3 DEF Absorbed

(* The tick's beginning signals none without its evidence. *)
LEMMA PumpTimely ==
  ASSUME LedgerInv, WatchInv, TimeInv, ~faults'.met, PumpBegins
  PROVE  TimeInv'
  <1>1. PICK c : c = clock
    OBVIOUS
  <1>2. /\ AtRest /\ UNCHANGED <<db, live, focus, up, evidence, faults>>
        /\ clock' = [c EXCEPT !.ticked = Some(c.mono)]
        /\ loop'.at = "observe" /\ loop'.todo = LiveSessions
        /\ loop'.signals = (Heard \cap LiveSessions) \cup OwnView
        /\ watch' = [watch EXCEPT !.rx = Drained(@)]
    BY <1>1 DEF PumpBegins
  <1>m. /\ clock \in Moments /\ clock.mono \in Nat /\ clock.wall \in Nat /\ faults.inputs \in Nat
        /\ watch \in Watches /\ focus \in Perhaps(Claims)
    BY MomentIs DEF LedgerInv, Typed, Faults
  <1>c. clock'.mono = clock.mono /\ clock'.wall = clock.wall /\ clock'.ticked = Some(clock.mono)
    BY <1>1, <1>2, <1>m DEF Moments
  <1>w. watch'.roots = watch.roots /\ watch'.rx[1] = {}
    <2>1. watch'.roots = watch.roots /\ watch'.rx = Drained(watch.rx) /\ watch.rx \in Channel(Projects)
      BY <1>2, <1>m DEF Watches
    <2>2. Len(watch.rx) = 1
      BY <1>2 DEF WatchInv
    <2> QED BY <2>1, <2>2, DrainedIs, QuietlyIs
  <1>t. /\ ~faults.met /\ OnTime /\ EndsWithCredit(db)
        /\ \A t \in Sessions :
             /\ up /\ db.sess[t].state = "open" => live[t].on
             /\ MachineOf(t) /\ EditEvidenced(t) /\ ClaimEvidenced(t) /\ Accounted(db, t, evidence[t])
    BY <1>2, TimelyNow
  <1>l. LastTick' = clock.mono /\ NextTick' = clock.mono + TickPeriod
    BY <1>c, Options DEF LastTick, NextTick
  <1>3. OnTime'
    BY <1>2, <1>c, <1>l, <1>m, <1>t, Consts DEF OnTime, At, AtRest
  <1>4. ASSUME NEW s \in Sessions, live[s].on, s \in loop'.signals
        PROVE  SignalFits(evidence[s], clock.mono, faults.inputs)
    <2>1. CASE s \in Heard
      <3>1. PICK p \in watch.rx[1] : watch.roots[s] = Some(p)
        BY <2>1, HeardAre
      <3>2. EditEvidenced(s) /\ watch.roots[s] # None
        BY <1>t, <3>1, Options
      <3>3. p = live[s].project
        BY <3>1, <3>2, Options DEF EditEvidenced
      <3>4. /\ NextTick <= faults.inputs + TickPeriod
            /\ At(clock.mono) .. At(NextTick) + Lasting - 1 \subseteq evidence[s]
        BY <3>1, <3>2, <3>3 DEF EditEvidenced
      <3>5. clock.mono <= NextTick /\ NextTick \in Nat
        <4>1. clock.mono <= NextTick
          BY <1>2, <1>t DEF OnTime, AtRest
        <4>2. NextTick \in Nat
          BY <1>m, PerhapsIs, MomentIs, Consts DEF NextTick
        <4> QED BY <4>1, <4>2
      <3>6. clock.mono <= faults.inputs + FocusStale - 1
        BY <1>m, <3>4, <3>5, Consts
      <3>7. At(clock.mono) + Lasting - 1 <= At(NextTick) + Lasting - 1 /\ At(clock.mono) \in Nat
            /\ At(NextTick) \in Nat
        BY <1>m, <3>5, LastingIs, Consts DEF At
      <3>8. At(clock.mono) .. At(clock.mono) + Lasting - 1 \subseteq evidence[s]
        BY <3>4, <3>7, LastingIs
      <3> QED BY <3>6, <3>8 DEF SignalFits
    <2>2. CASE s \in OwnView
      <3>1. /\ focus # None /\ clock.mono - focus[1].at < FocusStale
            /\ live[s].project = focus[1].project /\ focus[1].at >= live[s].launched
        BY <2>2 DEF OwnView, FocusFresh
      <3>2. Touch(At(focus[1].at)) \subseteq evidence[s]
        BY <1>4, <1>t, <3>1 DEF ClaimEvidenced
      <3>3. focus[1].at \in Nat
        BY <1>m, <3>1, PerhapsIs DEF Claims
      <3>4. focus[1].at <= clock.mono /\ focus[1].at <= faults.inputs
        BY <1>t, <3>1 DEF OnTime
      <3>5. clock.mono <= faults.inputs + FocusStale - 1
        BY <1>m, <3>1, <3>3, <3>4, Consts
      <3>6. At(clock.mono) .. At(clock.mono) + Lasting - 1 \subseteq Touch(At(focus[1].at))
        BY <1>m, <3>1, <3>3, <3>4, LastingIs, Consts DEF At, Touch, Window
      <3> QED BY <3>2, <3>5, <3>6 DEF SignalFits
    <2> QED BY <1>2, <1>4, <2>1, <2>2
  <1>5. ASSUME NEW s \in Sessions PROVE Timely(s)'
    <2>1. MachineOf(s)'
      <3>1. live[s].on => Observing(s)'
        BY <1>2 DEF Observing, LiveSessions
      <3>2. MachineOf(s)
        BY <1>t
      <3> QED BY <1>2, <1>c, <3>1, <3>2 DEF MachineOf
    <2>2. EditEvidenced(s)'
      <3>1. EditEvidenced(s)
        BY <1>t
      <3> QED BY <1>2, <1>w, <3>1 DEF EditEvidenced
    <2>3. ClaimEvidenced(s)'
      <3>1. ClaimEvidenced(s)
        BY <1>t
      <3> QED BY <1>2, <3>1 DEF ClaimEvidenced, At
    <2>4. SignalEvidenced(s)'
      <3>1. Observing(s)' => live[s].on
        BY <1>2 DEF Observing, LiveSessions
      <3> QED BY <1>2, <1>4, <1>c, <3>1 DEF SignalEvidenced
    <2>5. (up' /\ db'.sess[s].state = "open" => live'[s].on) /\ Accounted(db', s, evidence'[s])
      BY <1>2, <1>t
    <2> QED BY <2>1, <2>2, <2>3, <2>4, <2>5 DEF Timely
  <1> QED BY <1>2, <1>3, <1>5, <1>t DEF TimeInv

(* So do the other turns of the loop, and the exit of a process. *)
LEMMA TurnsTimely ==
  /\ LedgerInv /\ TimeInv /\ ~faults'.met /\ TickReaps => TimeInv'
  /\ LedgerInv /\ TimeInv /\ ~faults'.met /\ TickEnds => TimeInv'
  /\ LedgerInv /\ TimeInv /\ ~faults'.met /\ ShutdownBegins => TimeInv'
  /\ \A s \in Sessions : LedgerInv /\ TimeInv /\ ~faults'.met /\ ProcessExits(s) => TimeInv'
  <1>1. ASSUME LedgerInv, TimeInv, ~faults'.met, TickReaps PROVE TimeInv'
    <2>1. /\ loop'.at = "reap" /\ loop.at = "observe" /\ loop.todo = {}
          /\ UNCHANGED <<db, live, watch, focus, clock, up, evidence, faults>>
      BY <1>1 DEF TickReaps, Idle
    <2>2. \A t \in Sessions : ~Observing(t) /\ ~Observing(t)'
      BY <2>1 DEF Observing
    <2> QED BY <1>1, <2>1, <2>2, SilentTimely
  <1>2. ASSUME LedgerInv, TimeInv, ~faults'.met, TickEnds PROVE TimeInv'
    <2>1. /\ loop'.at = "idle" /\ loop.at = "reap"
          /\ UNCHANGED <<db, live, watch, focus, clock, up, evidence, faults>>
      BY <1>2, IdleIs DEF TickEnds
    <2>2. \A t \in Sessions : ~Observing(t) /\ ~Observing(t)'
      BY <2>1 DEF Observing
    <2> QED BY <1>2, <2>1, <2>2, SilentTimely
  <1>3. ASSUME LedgerInv, TimeInv, ~faults'.met, ShutdownBegins PROVE TimeInv'
    <2>1. /\ loop'.at = "shutdown" /\ loop.at = "idle"
          /\ UNCHANGED <<db, live, watch, focus, clock, up, evidence>>
      BY <1>3 DEF ShutdownBegins, Idle, AtRest
    <2>2. faults'.met = faults.met /\ faults'.inputs = faults.inputs
      BY <1>3, FaultsStay DEF ShutdownBegins, LedgerInv, Typed
    <2>3. \A t \in Sessions : ~Observing(t) /\ ~Observing(t)'
      BY <2>1 DEF Observing
    <2> QED BY <1>3, <2>1, <2>2, <2>3, SilentTimely
  <1>4. ASSUME NEW s \in Sessions, LedgerInv, TimeInv, ~faults'.met, ProcessExits(s) PROVE TimeInv'
    <2>1. PICK x : x = live[s]
      OBVIOUS
    <2>2. /\ x.on /\ live' = [live EXCEPT ![s] = Waited(x, "finished")]
          /\ UNCHANGED <<db, watch, focus, loop, clock, up, evidence, faults>>
      BY <1>4, <2>1 DEF ProcessExits, Waited
    <2>3. x \in Running /\ live \in [Sessions -> Lives]
      BY <1>4, <2>1, <2>2, LiveIs DEF LedgerInv, Typed
    <2>4. PICK y : y = Waited(x, "finished")
      OBVIOUS
    <2>5. /\ y.on /\ y.project = x.project /\ y.machine = x.machine /\ y.segment = x.segment
          /\ y.launched = x.launched /\ y.wait = x.wait
      BY <2>3, <2>4, Waiter
    <2>6. live'[s] = y /\ \A t \in Sessions : t # s => live'[t] = live[t]
      BY <2>2, <2>3, <2>4
    <2>7. \A t \in Sessions : (live'[t].on <=> live[t].on)
      BY <2>1, <2>2, <2>5, <2>6
    <2>8. \A t \in Sessions : live[t].on =>
           /\ live'[t].project = live[t].project /\ live'[t].machine = live[t].machine
           /\ live'[t].segment = live[t].segment /\ live'[t].launched = live[t].launched
           /\ live'[t].wait = live[t].wait
      BY <2>1, <2>5, <2>6
    <2>9. \A t \in Sessions : Observing(t)' <=> Observing(t)
      BY <2>2 DEF Observing
    <2> QED BY <1>4, <2>2, <2>7, <2>8, <2>9, SilentTimely
  <1> QED BY <1>1, <1>2, <1>3, <1>4

-----------------------------------------------------------------------------
(* Time: the clocks, the end of a core and the start of the next one.      *)

(* A tick comes before a segment or a session has been idle too long. *)
LEMMA PassingTimely ==
  ASSUME LedgerInv, TimeInv, ~faults'.met, TimePasses
  PROVE  TimeInv'
  <1>1. PICK c : c = clock
    OBVIOUS
  <1>2. /\ up => loop.at = "idle" /\ ~Due
        /\ clock' = [c EXCEPT !.mono = c.mono + 1, !.wall = c.wall + 1]
        /\ UNCHANGED <<db, live, watch, focus, loop, up, evidence, faults>>
    BY <1>1 DEF TimePasses
  <1>m. /\ clock \in Moments /\ clock.mono \in Nat /\ clock.wall \in Nat /\ faults.inputs \in Nat
        /\ clock.ticked \in Perhaps(Nat) /\ live \in [Sessions -> Lives] /\ focus \in Perhaps(Claims)
    BY MomentIs DEF LedgerInv, Typed, Faults
  <1>c. clock'.mono = clock.mono + 1 /\ clock'.wall = clock.wall + 1 /\ clock'.ticked = clock.ticked
    BY <1>1, <1>2, <1>m DEF Moments
  <1>t. /\ ~faults.met /\ OnTime /\ EndsWithCredit(db)
        /\ \A t \in Sessions :
             /\ up /\ db.sess[t].state = "open" => live[t].on
             /\ MachineOf(t) /\ EditEvidenced(t) /\ ClaimEvidenced(t) /\ Accounted(db, t, evidence[t])
    BY <1>2, TimelyNow
  <1>d. /\ ~up => LiveSessions = {} /\ loop = Idle
        /\ LiveSessions = {} \/ up
    BY DEF LedgerInv, Standing
  <1>o. \A t \in Sessions : ~Observing(t) /\ ~Observing(t)'
    BY <1>2, <1>d, IdleIs DEF Observing
  <1>u. up => /\ LastTick \in Nat /\ LastTick' = LastTick /\ NextTick' = NextTick /\ NextTick \in Nat
              /\ clock.mono + 1 <= LastTick + TickPeriod /\ NextTick = LastTick + TickPeriod
    <2>1. ASSUME up PROVE clock.ticked # None /\ ~(clock.mono - clock.ticked[1] >= TickPeriod)
      BY <1>2, <2>1 DEF Due
    <2>2. ASSUME up PROVE clock.ticked[1] \in Nat
      BY <1>m, <2>1, <2>2, PerhapsIs
    <2>3. ASSUME up
          PROVE  /\ LastTick = clock.ticked[1] /\ LastTick' = clock.ticked[1]
                 /\ NextTick = clock.ticked[1] + TickPeriod /\ NextTick' = clock.ticked[1] + TickPeriod
      BY <1>c, <2>1, <2>3 DEF LastTick, NextTick
    <2> QED BY <1>m, <2>1, <2>2, <2>3, Consts
  <1>3. OnTime'
    <2>1. clock'.wall = At(clock'.mono)
      BY <1>c, <1>m, <1>t, Consts DEF OnTime, At
    <2>2. LastTick' <= clock'.mono
      <3>1. CASE clock.ticked = None
        BY <1>c, <1>m, <3>1 DEF LastTick
      <3>2. CASE clock.ticked # None
        <4>1. LastTick' = LastTick /\ LastTick \in Nat
          BY <1>c, <1>m, <3>2, PerhapsIs DEF LastTick
        <4> QED BY <1>c, <1>m, <1>t, <4>1 DEF OnTime
      <3> QED BY <3>1, <3>2
    <2>3. up' => clock'.mono <= NextTick'
      BY <1>2, <1>c, <1>u
    <2>4. loop'.at \notin {"observe", "reap"}
      BY <1>2, <1>d, IdleIs
    <2>5. focus' # None => focus'[1].at <= clock'.mono /\ focus'[1].at <= faults'.inputs
      <3>1. focus # None => focus[1].at \in Nat
        BY <1>m, PerhapsIs DEF Claims
      <3> QED BY <1>2, <1>c, <1>m, <1>t, <3>1 DEF OnTime
    <2> QED BY <1>2, <1>c, <1>t, <2>1, <2>2, <2>3, <2>4, <2>5 DEF OnTime, At
  <1>4. ASSUME NEW s \in Sessions, live[s].on PROVE up
    BY <1>4, <1>d DEF LiveSessions
  <1>5. ASSUME NEW s \in Sessions PROVE Timely(s)'
    <2>1. MachineOf(s)'
      <3>1. CASE ~live[s].on
        BY <1>2, <3>1 DEF MachineOf
      <3>2. CASE live[s].on
        <4> DEFINE m == live[s].machine
        <4>1. m \in Machines
          BY <1>m, <3>2, LiveIs
        <4>2. m.mono \in Nat /\ m.at \in Nat /\ m.started \in Nat
          BY <4>1, MachineIs
        <4>3. /\ MachineFits(m, live[s].segment, db, evidence[s], clock.mono, faults.inputs)
              /\ InTime(m, live[s].wait, LastTick)
          BY <1>o, <1>t, <3>2 DEF MachineOf
        <4>4. up
          BY <1>4, <3>2
        <4>5. m.phase = "in" => m.mono <= clock.mono + 1 /\ clock.mono + 1 <= m.mono + Lasting
          <5>1. m.phase = "in" => LastTick < m.mono + SegmentIdle /\ m.mono <= clock.mono
            BY <4>3 DEF InTime, MachineFits, InFits
          <5> QED BY <1>m, <1>u, <4>2, <4>4, <5>1, LastingIs, Consts
        <4>6. MachineFits(m, live[s].segment, db, evidence[s], clock.mono + 1, faults.inputs)
          BY <4>3, <4>5 DEF MachineFits, InFits
        <4>7. LastTick' = LastTick
          BY <1>u, <4>4
        <4> QED BY <1>2, <1>c, <3>2, <4>3, <4>6, <4>7 DEF MachineOf
      <3> QED BY <3>1, <3>2
    <2>2. EditEvidenced(s)'
      <3>1. EditEvidenced(s)
        BY <1>t
      <3>2. CASE watch.roots[s] = None
        BY <1>2, <3>2 DEF EditEvidenced
      <3>3. CASE watch.roots[s] # None
        <4>1. live[s].on /\ watch.roots[s] = Some(live[s].project) /\ up
          BY <1>4, <3>1, <3>3 DEF EditEvidenced
        <4>2. ASSUME live[s].project \in watch.rx[1]
              PROVE  /\ NextTick' <= faults.inputs + TickPeriod
                     /\ At(clock.mono + 1) .. At(NextTick') + Lasting - 1 \subseteq evidence[s]
          <5>1. NextTick' = NextTick /\ NextTick \in Nat
            BY <1>u, <4>1
          <5>2. /\ NextTick <= faults.inputs + TickPeriod
                /\ At(clock.mono) .. At(NextTick) + Lasting - 1 \subseteq evidence[s]
            BY <3>1, <3>3, <4>2 DEF EditEvidenced
          <5>3. /\ At(clock.mono) \in Int /\ At(clock.mono) <= At(clock.mono + 1)
                /\ At(clock.mono + 1) \in Int /\ At(NextTick) + Lasting - 1 \in Int
            BY <1>m, <5>1, LastingIs, Consts DEF At
          <5>4. At(clock.mono + 1) .. At(NextTick) + Lasting - 1 \subseteq evidence[s]
            BY <5>2, <5>3, SpanWithin
          <5> QED BY <5>1, <5>2, <5>4
        <4> QED BY <1>2, <1>c, <4>1, <4>2 DEF EditEvidenced, At
      <3> QED BY <3>2, <3>3
    <2>3. ClaimEvidenced(s)'
      <3>1. ClaimEvidenced(s)
        BY <1>t
      <3> QED BY <1>2, <3>1 DEF ClaimEvidenced, At
    <2>4. SignalEvidenced(s)'
      BY <1>o DEF SignalEvidenced
    <2>5. (up' /\ db'.sess[s].state = "open" => live'[s].on) /\ Accounted(db', s, evidence'[s])
      BY <1>2, <1>t
    <2> QED BY <2>1, <2>2, <2>3, <2>4, <2>5 DEF Timely
  <1> QED BY <1>2, <1>3, <1>5, <1>t DEF TimeInv

(* A core that is gone has no machine to keep time for. *)
LEMMA GoneDownTimely ==
  ASSUME LedgerInv, TimeInv, ~faults'.met, faults'.met = faults.met, faults'.inputs = faults.inputs, GoneDown
  PROVE  TimeInv'
  <1>1. PICK c : c = clock
    OBVIOUS
  <1>2. PICK n : n = None
    OBVIOUS
  <1>3. /\ up' = FALSE /\ live' = [s \in Sessions |-> NotLive] /\ watch' = NoWatch /\ focus' = None
        /\ loop' = Idle /\ clock' = [c EXCEPT !.ticked = n] /\ db' = db /\ evidence' = evidence
    BY <1>1, <1>2 DEF GoneDown
  <1>m. clock \in Moments /\ clock.mono \in Nat
    BY MomentIs DEF LedgerInv, Typed
  <1>c. clock'.mono = clock.mono /\ clock'.wall = clock.wall /\ clock'.ticked = None
    BY <1>1, <1>2, <1>3, <1>m DEF Moments
  <1>t. /\ OnTime /\ EndsWithCredit(db)
        /\ \A t \in Sessions : Accounted(db, t, evidence[t])
    BY TimelyNow
  <1>o. loop'.at = "idle"
    BY <1>3, IdleIs
  <1>4. OnTime'
    <2>1. LastTick' <= clock'.mono
      BY <1>c, <1>m DEF LastTick
    <2> QED BY <1>3, <1>c, <1>o, <1>t, <2>1 DEF OnTime, At
  <1>5. ASSUME NEW s \in Sessions PROVE Timely(s)'
    <2>1. ~live'[s].on /\ watch'.roots[s] = None
      BY <1>3, NotLiveIs DEF NoWatch
    <2>2. ~Observing(s)'
      BY <1>o DEF Observing
    <2> QED BY <1>3, <1>t, <2>1, <2>2
          DEF Timely, MachineOf, EditEvidenced, ClaimEvidenced, SignalEvidenced
  <1> QED BY <1>3, <1>4, <1>5, <1>t DEF TimeInv

(* An orphan ends where its last segment does, or began. *)
LEMMA OrphanIn ==
  ASSUME NEW d, NEW e, Balanced(d), Balanced(e), NEW s \in Sessions, d.sess[s].state = "open", Orphaned(d, e, s),
         EndsWithCredit(e), NEW E, SegmentsIn(e, s, E), SessionIn(d, s, E)
  PROVE  SessionIn(e, s, E)
  <1>1. /\ e.sess[s].state = "closed" /\ e.sess[s].started = d.sess[s].started
    BY DEF Orphaned
  <1>2. e.sess[s].started \in E /\ e.sess[s].started \in Nat
    BY <1>1, BooksHold DEF SessionIn, Balanced
  <1>3. PICK g \in DOMAIN e.segs :
          e.segs[g].session = s /\ e.sess[s].ended = Later(e.segs[g].ended, e.sess[s].started)
    BY DEF Orphaned
  <1> DEFINE r == e.segs[g]
  <1>4. r.started \in Nat /\ r.credit \in Nat /\ r.ended \in Nat
    BY BooksHold, SegmentHas DEF Balanced
  <1>5. r.started \in E /\ Seconds(r) \subseteq E
    BY <1>3 DEF SegmentsIn
  <1>6. r.ended = r.started \/ r.ended = r.started + r.credit
    BY <1>4 DEF EndsWithCredit
  <1>7. \E t \in E : r.ended <= t + 1
    <2>1. CASE r.ended = r.started
      <3>1. r.ended <= r.started + 1
        BY <1>4, <2>1
      <3> QED BY <1>5, <3>1
    <2>2. CASE r.ended = r.started + r.credit /\ r.credit > 0
      <3>1. r.started + r.credit - 1 \in Seconds(r)
        BY <1>4, <2>2 DEF Seconds
      <3>2. r.ended <= r.started + r.credit - 1 + 1
        BY <1>4, <2>2
      <3> QED BY <1>5, <3>1, <3>2
    <2> QED BY <1>4, <1>6, <2>1, <2>2
  <1>8. \E t \in E : e.sess[s].ended <= t + 1
    <2>1. CASE r.ended >= e.sess[s].started
      <3>1. e.sess[s].ended = r.ended
        BY <1>3, <2>1 DEF Later
      <3> QED BY <1>7, <3>1
    <2>2. CASE ~(r.ended >= e.sess[s].started)
      <3>1. e.sess[s].ended = e.sess[s].started
        BY <1>3, <2>2 DEF Later
      <3>2. e.sess[s].started <= e.sess[s].started + 1
        BY <1>2
      <3> QED BY <1>2, <3>1, <3>2
    <2> QED BY <2>1, <2>2
  <1> QED BY <1>2, <1>8 DEF SessionIn

(* A recovery keeps time. *)
LEMMA StartTimely ==
  ASSUME LedgerInv, TimeInv, ~faults'.met, Start
  PROVE  TimeInv'
  <1>1. /\ ~up /\ up' /\ UNCHANGED <<live, watch, focus, loop, clock, evidence>>
    BY DEF Start
  <1>2. db' = CloseOrphans(db) /\ faults' = faults
    <2>1. ASSUME faults.refusals > 0, faults' = [faults EXCEPT !.refusals = @ - 1, !.met = TRUE]
          PROVE  FALSE
      BY <2>1, FaultsStay DEF LedgerInv, Typed
    <2> QED BY <2>1 DEF Start
  <1>t. /\ ~faults.met /\ OnTime /\ EndsWithCredit(db)
        /\ \A t \in Sessions : EditEvidenced(t) /\ Accounted(db, t, evidence[t])
    BY <1>2, TimelyNow
  <1>3. LiveSessions = {} /\ loop = Idle /\ Balanced(db)
    BY <1>1 DEF LedgerInv, Standing
  <1>4. /\ Balanced(db') /\ Kept(db, db')
        /\ \A s \in Sessions : db.sess[s].state # "open" => db'.sess[s] = db.sess[s]
        /\ \A s \in Sessions : db.sess[s].state = "open" => Orphaned(db, db', s)
    BY <1>2, <1>3, CloseOrphansKeeps
  <1>5. EndsWithCredit(db')
    BY <1>4, <1>t DEF Kept
  <1>6. OnTime'
    <2>1. clock.ticked = None
      BY <1>1, <1>t DEF OnTime
    <2>2. NextTick' = clock.mono /\ LastTick' = LastTick /\ clock.mono \in Nat
      BY <1>1, <2>1, MomentIs DEF NextTick, LastTick, LedgerInv, Typed
    <2> QED BY <1>1, <1>2, <1>3, <1>t, <2>2, IdleIs DEF OnTime, At
  <1>7. ASSUME NEW s \in Sessions PROVE Timely(s)'
    <2>1. ~live[s].on
      BY <1>3 DEF LiveSessions
    <2>2. watch.roots[s] = None
      BY <1>t, <2>1 DEF EditEvidenced
    <2>3. ~Observing(s)'
      BY <1>1, <1>3, IdleIs DEF Observing
    <2>4. SegmentsIn(db', s, evidence[s])
      <3>1. SegmentsIn(db, s, evidence[s])
        BY <1>t DEF Accounted
      <3> QED BY <1>4, <3>1 DEF SegmentsIn, Kept, Seconds
    <2>5. SessionIn(db', s, evidence[s]) /\ db'.sess[s].state # "open"
      <3>1. SessionIn(db, s, evidence[s])
        BY <1>t DEF Accounted
      <3>2. CASE db.sess[s].state = "open"
        <4>1. Orphaned(db, db', s)
          BY <1>4, <3>2
        <4>2. SessionIn(db', s, evidence[s])
          BY <1>3, <1>4, <1>5, <2>4, <3>1, <3>2, <4>1, OrphanIn
        <4> QED BY <4>1, <4>2 DEF Orphaned
      <3>3. CASE db.sess[s].state # "open"
        BY <1>4, <3>1, <3>3, SameSessionIn
      <3> QED BY <3>2, <3>3
    <2> QED BY <1>1, <2>1, <2>2, <2>3, <2>4, <2>5
          DEF Timely, MachineOf, EditEvidenced, ClaimEvidenced, SignalEvidenced, Accounted
  <1> QED BY <1>5, <1>6, <1>7 DEF TimeInv

(* It holds in the beginning, when nothing has happened.                   *)
LEMMA TimeInit == Init => TimeInv
  <1> SUFFICES ASSUME Init PROVE TimeInv
    OBVIOUS
  <1>1. /\ db.sess = [s \in Sessions |-> NoSession] /\ db.segs = <<>>
        /\ live = [s \in Sessions |-> NotLive] /\ watch = NoWatch /\ focus = None /\ loop = Idle
        /\ clock = [mono |-> 0, wall |-> Epoch, ticked |-> None] /\ up = TRUE
    BY DEF Init
  <1>2. clock.mono = 0 /\ clock.wall = Epoch /\ clock.ticked = None
    BY <1>1
  <1>3. OnTime
    <2>1. LastTick = 0 /\ NextTick = 0
      BY <1>2 DEF LastTick, NextTick
    <2> QED BY <1>1, <1>2, <2>1, IdleIs, Consts DEF OnTime, At
  <1>4. EndsWithCredit(db)
    BY <1>1 DEF EndsWithCredit
  <1>5. ASSUME NEW s \in Sessions PROVE Timely(s)
    <2>1. ~live[s].on /\ watch.roots[s] = None /\ db.sess[s].state = "none"
      BY <1>1, NotLiveIs DEF NoWatch, NoSession
    <2>2. ~Observing(s)
      BY <1>1, IdleIs DEF Observing
    <2>3. Accounted(db, s, evidence[s])
      BY <1>1, <2>1 DEF Accounted, SegmentsIn, SessionIn
    <2> QED BY <2>1, <2>2, <2>3
          DEF Timely, MachineOf, EditEvidenced, ClaimEvidenced, SignalEvidenced
  <1> QED BY <1>3, <1>4, <1>5 DEF TimeInv

(* Every step keeps it.                                                    *)
LEMMA TimeStep ==
  ASSUME LedgerInv, WatchInv, TimeInv, [Next]_vars
  PROVE  TimeInv'
  <1>0. CASE faults'.met
    BY <1>0 DEF TimeInv
  <1>1. ASSUME ~faults'.met PROVE TimeInv'
    <2>1. CASE \E p \in Projects, wait \in BOOLEAN : Launch(p, wait)
      BY <1>1, <2>1, LaunchTimely
    <2>2. CASE \E claim \in {None} \cup {Some(p) : p \in faults.of} : SetFocus(claim)
      BY <1>1, <2>2, FocusTimely
    <2>3. CASE \E s \in Sessions : Stop(s) \/ ProcessExits(s)
      BY <1>1, <2>3, StopTimely, TurnsTimely
    <2>4. CASE PumpBegins
      BY <1>1, <2>4, PumpTimely
    <2>5. CASE TickObserve
      BY <1>1, <2>5, ObserveTimely
    <2>6. CASE TickReaps \/ TickEnds \/ ShutdownBegins
      BY <1>1, <2>6, TurnsTimely
    <2>7. CASE TickReap
      BY <1>1, <2>7, ReapTimely
    <2>8. CASE ShutdownOne
      BY <1>1, <2>8, ShutdownTimely
    <2>9. CASE ShutdownEnds
      BY <1>1, <2>9, GoneDownTimely DEF ShutdownEnds
    <2>10. CASE Crash
      <3>1. faults'.met = faults.met /\ faults'.inputs = faults.inputs
        BY <2>10, FaultsStay DEF Crash, LedgerInv, Typed
      <3> QED BY <1>1, <2>10, <3>1, GoneDownTimely DEF Crash
    <2>11. CASE Start
      BY <1>1, <2>11, StartTimely
    <2>12. CASE \E p \in Projects : Edit(p)
      BY <1>1, <2>12, EditTimely
    <2>13. CASE TimePasses
      BY <1>1, <2>13, PassingTimely
    <2>14. CASE ClockJumps \/ WatcherErrs
      BY <1>1, <2>14, FaultsStay DEF ClockJumps, WatcherErrs, LedgerInv, Typed
    <2>15. CASE vars' = vars
      <3>1. UNCHANGED <<db, live, watch, focus, loop, clock, up, evidence, faults>>
        BY <2>15 DEF vars
      <3>2. \A s \in Sessions : Observing(s)' <=> Observing(s)
        BY <3>1 DEF Observing
      <3> QED BY <1>1, <3>1, <3>2, SilentTimely
    <2> QED BY <2>1, <2>2, <2>3, <2>4, <2>5, <2>6, <2>7, <2>8, <2>9, <2>10, <2>11, <2>12, <2>13, <2>14, <2>15
          DEF Next
  <1> QED BY <1>0, <1>1

(* Time is kept until a clock jumps, a transaction is refused or the watcher errs. *)
THEOREM TimeHolds == Spec => []TimeInv
  <1>1. Init => TimeInv
    BY TimeInit
  <1>2. LedgerInv /\ WatchInv /\ TimeInv /\ [Next]_vars => TimeInv'
    BY TimeStep
  <1> QED BY <1>1, <1>2, LedgerHolds, WatchHolds, PTL DEF Spec

(* mod.rs:58: every credited second is accounted for by a launch, an edit of the *)
(* session's own worktree or a claim of its own view, through crashes and recoveries. *)
THEOREM CreditHasItsInput == Spec => []CreditIsEvidenced
  <1>1. LedgerInv /\ TimeInv => CreditIsEvidenced
    <2> SUFFICES ASSUME LedgerInv, TimeInv, ~faults.met, NEW g \in DOMAIN db.segs
                 PROVE  Seconds(db.segs[g]) \subseteq evidence[db.segs[g].session]
      BY DEF CreditIsEvidenced
    <2>1. db.segs[g].session \in Sessions
      BY BooksHold, SegmentHas DEF LedgerInv, Balanced
    <2>2. Accounted(db, db.segs[g].session, evidence[db.segs[g].session])
      BY <2>1, TimelyNow
    <2> QED BY <2>2 DEF Accounted, SegmentsIn
  <1> QED BY <1>1, LedgerHolds, TimeHolds, PTL

(* segment.rs:10 and orphan.rs:10: an end nobody asked for is stamped when the *)
(* session stopped being used, never when the core noticed.                *)
THEOREM UnaskedEndsAreEarlier == Spec => []UnaskedEndIsNotNow
  <1>1. TimeInv => UnaskedEndIsNotNow
    <2> SUFFICES ASSUME TimeInv, NEW s \in Sessions, ~faults.met, db.sess[s].state = "closed",
                        db.sess[s].reason \in {"idle", "orphaned"}
                 PROVE  \E t \in evidence[s] : db.sess[s].ended <= t + 1
      BY DEF UnaskedEndIsNotNow
    <2>1. Accounted(db, s, evidence[s])
      BY TimelyNow
    <2> QED BY <2>1 DEF Accounted, SessionIn
  <1> QED BY <1>1, TimeHolds, PTL

(* mod.rs:27: a session with no process to wait for is closed once the last *)
(* input no longer counts, both idle times have passed and a tick has come. *)
THEOREM QuietSessionsClose == Spec => []ClosesInTime
  <1>1. LedgerInv /\ TimeInv => ClosesInTime
    <2> SUFFICES ASSUME LedgerInv, TimeInv, LongQuiet, AtRest, ~Due, ~faults.met, NEW s \in Sessions,
                        db.sess[s].state = "open"
                 PROVE  live[s].on /\ live[s].wait
      BY DEF ClosesInTime
    <2>1. OnTime /\ MachineOf(s) /\ live[s].on
      BY TimelyNow DEF AtRest
    <2>2. /\ clock.mono \in Nat /\ clock.ticked \in Perhaps(Nat) /\ faults.inputs \in Nat
          /\ live[s].machine \in Machines
      BY <2>1, MomentIs, LiveIs DEF LedgerInv, Typed, Faults
    <2>3. clock.ticked # None /\ ~(clock.mono - clock.ticked[1] >= TickPeriod)
      BY DEF Due
    <2>4. LastTick \in Nat /\ clock.mono < LastTick + TickPeriod
      <3>1. clock.ticked[1] \in Nat
        BY <2>2, <2>3, PerhapsIs
      <3> QED BY <2>2, <2>3, <3>1, Consts DEF LastTick
    <2>5. clock.mono >= faults.inputs + FocusStale + SegmentIdle + SessionIdle + TickPeriod - 1
      BY DEF LongQuiet
    <2> DEFINE m == live[s].machine
    <2>6. m.phase \in {"in", "between", "ended"} /\ m.mono \in Nat
      BY <2>2, MachineIs
    <2>7. /\ MachineFits(m, live[s].segment, db, evidence[s], clock.mono, faults.inputs)
          /\ InTime(m, live[s].wait, LastTick)
      <3>1. ~Observing(s)
        BY DEF Observing, AtRest
      <3> QED BY <2>1, <3>1 DEF MachineOf
    <2>8. m.phase # "in"
      <3>1. m.phase = "in" => m.mono <= faults.inputs + FocusStale - 1 /\ LastTick < m.mono + SegmentIdle
        BY <2>7 DEF MachineFits, InFits, InTime
      <3> QED BY <2>2, <2>4, <2>5, <2>6, <3>1, Consts
    <2>9. m.phase = "between" /\ m.mono <= faults.inputs + FocusStale - 1 + SegmentIdle
      BY <2>6, <2>7, <2>8 DEF MachineFits, BetweenFits
    <2>10. ~live[s].wait => LastTick < m.mono + SessionIdle
      BY <2>7, <2>9 DEF InTime
    <2>11. ~(LastTick < m.mono + SessionIdle)
      BY <2>2, <2>4, <2>5, <2>6, <2>9, Consts
    <2> QED BY <2>1, <2>10, <2>11
  <1> QED BY <1>1, LedgerHolds, TimeHolds, PTL

=============================================================================
