------------------------- MODULE JobScheduler_proofs -------------------------
(***************************************************************************)
(* What the pool promises for any number of workers, stores and locations: *)
(* its type, and that the slot table counts the workers that hold a slot,  *)
(* so that the caps it enforces are caps on what really runs.              *)
(***************************************************************************)
EXTENDS JobScheduler, FiniteSetTheorems, SequenceTheorems, TLAPS

-----------------------------------------------------------------------------
(* The operators keep their types.                                           *)

Rows == [state : RowStates, fails : 0..MaxTransientFails]

\* A job built by the producers is a job.
LEMMA NewJobType ==
    ASSUME NEW kind \in Kinds, NEW loc \in Locations, NEW class \in ClassCaps, NEW prio \in Priorities
    PROVE  NewJob(kind, loc, class, prio) \in Job
<1>1. StoreKeyFor(kind, loc) \in StoreKeys
  BY StoreOfAssumption DEF StoreKeyFor, StoreKeys
<1> QED
  BY <1>1 DEF NewJob, Job

\* A push keeps the queue a sequence of jobs.
LEMMA PushType ==
    ASSUME NEW q \in Seq(Job), NEW j \in Job
    PROVE  Push(q, j) \in Seq(Job)
<1>1. CASE QueuedAt(q, j) = {}
  BY <1>1, AppendProperties DEF Push
<1>2. CASE QueuedAt(q, j) # {}
  <2> DEFINE i == CHOOSE i \in QueuedAt(q, j) : TRUE
  <2>1. i \in 1..Len(q)
    BY <1>2, LenProperties DEF QueuedAt
  <2>2. [q EXCEPT ![i] = j] \in Seq(Job)
    BY <2>1, ExceptSeq
  <2> HIDE DEF i
  <2>3. Push(q, j) = IF q[i].prio <= j.prio THEN q ELSE [q EXCEPT ![i] = j]
    BY <1>2 DEF Push, i
  <2> QED
    BY <2>2, <2>3
<1> QED
  BY <1>1, <1>2

\* A pop keeps the queue a sequence of jobs.
LEMMA WithoutType ==
    ASSUME NEW q \in Seq(Job), NEW i \in 1..Len(q)
    PROVE  Without(q, i) \in Seq(Job)
<1>1. Len(q) \in Nat /\ \A n \in 1..Len(q) : q[n] \in Job
  BY LenProperties, ElementOfSeq
<1>2. SubSeq(q, 1, i - 1) \in Seq(Job)
  <2>1. \A n \in 1..(i - 1) : q[n] \in Job
    BY <1>1
  <2> QED
    BY <1>1, <2>1, SubSeqProperties
<1>3. SubSeq(q, i + 1, Len(q)) \in Seq(Job)
  <2>1. \A n \in (i + 1)..Len(q) : q[n] \in Job
    BY <1>1
  <2> QED
    BY <1>1, <2>1, SubSeqProperties
<1> QED
  BY <1>2, <1>3, ConcatProperties DEF Without

\* The row apply_outcome computes is a row, and its count never passes the ceiling.
LEMMA ApplyOutcomeType ==
    ASSUME NEW r \in Rows, NEW o \in AllOutcomes
    PROVE  ApplyOutcome(r, o) \in Rows
<1>1. r.fails \in 0..3 /\ r.state \in RowStates
  BY DEF Rows, MaxTransientFails
<1>2. Saturated(r.fails + 1) \in 0..3
  BY <1>1 DEF Saturated, MaxTransientFails
<1>3. r = [state |-> r.state, fails |-> r.fails]
  BY DEF Rows
<1>4. CASE o = "done"
  BY <1>4 DEF ApplyOutcome, Rows, RowStates, MaxTransientFails
<1>5. CASE o = "partial"
  BY <1>5, <1>1, <1>3 DEF ApplyOutcome, Rows, RowStates, MaxTransientFails
<1>6. CASE o = "transient"
  BY <1>6, <1>2 DEF ApplyOutcome, Rows, RowStates, MaxTransientFails
<1>7. CASE o = "hard"
  BY <1>7, <1>2 DEF ApplyOutcome, Rows, RowStates, MaxTransientFails
<1> QED
  BY <1>4, <1>5, <1>6, <1>7 DEF AllOutcomes

\* The chain of any kind is a sequence of kinds and bands.
LEMMA NextJobsAfterType ==
    ASSUME NEW kind \in Kinds, NEW ref
    PROVE  NextJobsAfter(kind, ref) \in Seq(Kinds \X Priorities)
<1> DEFINE band == IF ref = "yes" THEN 4 ELSE 3
           T == Kinds \X Priorities
           tail == IF ref = "no" THEN <<<<"j7", 5>>>> ELSE <<>>
<1>1. /\ band \in Priorities
      /\ <<"j1_5", 2>> \in T /\ <<"j4", 5>> \in T /\ <<"j5", 5>> \in T
      /\ <<"j6", 5>> \in T /\ <<"j7", 5>> \in T
  BY DEF Priorities, Kinds
<1>2. tail \in Seq(T)
  <2>1. <<<<"j7", 5>>>> \in Seq(T) /\ <<>> \in Seq(T)
    BY <1>1
  <2> QED
    BY <2>1
<1> HIDE DEF band, tail
<1>3. <<<<"j2", band>>, <<"j3", band>>, <<"j4", 5>>>> \in Seq(T)
  <2>1. <<"j2", band>> \in T /\ <<"j3", band>> \in T
    BY <1>1 DEF Kinds
  <2> HIDE DEF T
  <2> QED
    BY <1>1, <2>1
<1>4. <<<<"j2", band>>, <<"j3", band>>, <<"j4", 5>>>> \o tail \in Seq(T)
  BY <1>2, <1>3, ConcatProperties
<1>5. CASE kind = "j1"
  BY <1>5, <1>1 DEF NextJobsAfter
<1>6. CASE kind = "j1_5"
  BY <1>6, <1>4 DEF NextJobsAfter, band, tail
<1>7. CASE kind = "j3"
  BY <1>7, <1>1 DEF NextJobsAfter
<1>8. CASE kind \notin {"j1", "j1_5", "j3"}
  BY <1>8 DEF NextJobsAfter
<1> QED
  BY <1>5, <1>6, <1>7, <1>8

\* What a settle queues is a sequence of jobs.
LEMMA FollowUpsType ==
    ASSUME NEW j \in Job, NEW o \in AllOutcomes, NEW r \in Rows, NEW ref
    PROVE  FollowUps(j, o, r, ref) \in Seq(Job)
<1> DEFINE next == NextJobsAfter(j.kind, ref)
           f == [i \in DOMAIN next |-> NewJob(next[i][1], j.loc, j.class, next[i][2])]
<1>1. /\ j.kind \in Kinds /\ j.loc \in Locations /\ j.class \in ClassCaps
      /\ [j EXCEPT !.due = (o = "partial")] \in Job
  BY DEF Job
<1>2. next \in Seq(Kinds \X Priorities)
  BY <1>1, NextJobsAfterType
<1> HIDE DEF next
<1>3. /\ DOMAIN next = 1..Len(next) /\ Len(next) \in Nat
      /\ \A i \in 1..Len(next) : next[i] \in Kinds \X Priorities
  BY <1>2, LenProperties, ElementOfSeq
<1>4. \A i \in 1..Len(next) : NewJob(next[i][1], j.loc, j.class, next[i][2]) \in Job
  <2> SUFFICES ASSUME NEW i \in 1..Len(next)
               PROVE  NewJob(next[i][1], j.loc, j.class, next[i][2]) \in Job
    OBVIOUS
  <2>1. next[i][1] \in Kinds /\ next[i][2] \in Priorities
    BY <1>3
  <2> QED
    BY <2>1, <1>1, NewJobType
<1>5. f \in [1..Len(next) -> Job]
  BY <1>3, <1>4
<1>6. f \in Seq(Job)
  <2> HIDE DEF f
  <2> QED
    BY <1>3, <1>5
<1>7. <<>> \in Seq(Job) /\ <<[j EXCEPT !.due = (o = "partial")]>> \in Seq(Job)
  BY <1>1
<1> QED
  BY <1>6, <1>7 DEF FollowUps, next

-----------------------------------------------------------------------------
(* Type correctness.                                                         *)

\* A worker that holds a slot holds a job, and one about to settle has a result.
Carrying ==
    /\ \A w \in Holders : job[w] \in Job
    /\ \A w \in Workers : at[w] \in {"load", "settle"} => result[w] \in AllOutcomes

TypeInv == TypeOK /\ Carrying

\* An enqueue keeps the types of the two variables it writes.
LEMMA EnqueueType ==
    ASSUME TypeOK, NEW j \in Job, Enqueue(j)
    PROVE  ready' \in Seq(Job) /\ cap' \in [StoreKeys -> ClassCaps]
<1>1. ready' \in Seq(Job)
  BY PushType DEF Enqueue, TypeOK
<1>2. j.store \in StoreKeys /\ j.class \in ClassCaps
  BY DEF Job
<1> QED
  BY <1>1, <1>2 DEF Enqueue, TypeOK

LEMMA TypeInit == Init => TypeInv
<1> SUFFICES ASSUME Init PROVE TypeInv
  OBVIOUS
<1>1. /\ <<>> \in Seq(Job)
      /\ Fresh \in [state : RowStates, fails : 0..MaxTransientFails]
      /\ 0 \in 0..MaxTransientFails /\ 0 \in 0..MaxAsks /\ 0 \in 0..MaxChunks /\ 0 \in 0..MaxRefusals
  BY BoundsAssumption DEF RowStates, Fresh, MaxTransientFails
<1> HIDE DEF Fresh
<1>3. TypeOK
  BY <1>1, ClassCapsAssumption DEF Init, TypeOK, Places
<1>2. Carrying
  BY DEF Init, Carrying, Holders
<1> QED
  BY <1>2, <1>3 DEF TypeInv

LEMMA TypeStep == TypeInv /\ [Next]_vars => TypeInv'
<1> SUFFICES ASSUME TypeInv, [Next]_vars PROVE TypeInv'
  OBVIOUS
<1> USE DEF TypeInv
<1>1. ASSUME NEW l \in Locations, NEW c \in ClassCaps, HandOff(l, c) PROVE TypeInv'
  <2>1. NewJob("j1", l, c, 1) \in Job
    BY NewJobType DEF Kinds, Priorities
  <2>2. <<NewJob("j1", l, c, 1)>> \in Seq(Job)
    BY <2>1
  <2> QED
    BY <1>1, <2>2, BoundsAssumption DEF HandOff, Asked, TypeOK, Carrying, Holders
<1>2. CASE LocationIndexed
  <2>1. Head(indexed) \in Job /\ <<>> \in Seq(Job)
    BY <1>2, HeadTailProperties, EmptySeq DEF LocationIndexed, TypeOK
  <2>2. ready' \in Seq(Job) /\ cap' \in [StoreKeys -> ClassCaps]
    BY <1>2, <2>1, EnqueueType DEF LocationIndexed
  <2> QED
    BY <1>2, <2>1, <2>2 DEF LocationIndexed, indexVars, boundVars, TypeOK, Carrying, Holders
<1>3. ASSUME NEW l \in Locations, NEW c \in ClassCaps, NEW art \in BOOLEAN, NEW content \in BOOLEAN,
             LocationVisible(l, c, art, content)
      PROVE  TypeInv'
  <2> DEFINE a == IF art THEN <<NewJob("j5", l, c, 0)>> ELSE <<>>
             m == IF content THEN <<NewJob("j7", l, c, 3)>> ELSE <<>>
  <2>1. NewJob("j2", l, c, 0) \in Job /\ NewJob("j5", l, c, 0) \in Job /\ NewJob("j7", l, c, 3) \in Job
    BY NewJobType DEF Kinds, Priorities
  <2>2. <<NewJob("j2", l, c, 0)>> \in Seq(Job) /\ a \in Seq(Job) /\ m \in Seq(Job)
    BY <2>1
  <2>3. (<<NewJob("j2", l, c, 0)>> \o a) \o m \in Seq(Job)
    <3> HIDE DEF a, m
    <3> QED
      BY <2>2, ConcatProperties
  <2>4. visible' \in Seq(Job)
    BY <1>3, <2>3 DEF LocationVisible
  <2> QED
    BY <1>3, <2>4, BoundsAssumption DEF LocationVisible, Asked, indexVars, TypeOK, Carrying, Holders
<1>4. CASE EnqueueVisible
  <2>1. Head(visible) \in Job /\ Tail(visible) \in Seq(Job)
    BY <1>4, HeadTailProperties DEF EnqueueVisible, TypeOK
  <2>2. ready' \in Seq(Job) /\ cap' \in [StoreKeys -> ClassCaps]
    BY <1>4, <2>1, EnqueueType DEF EnqueueVisible
  <2> QED
    BY <1>4, <2>1, <2>2 DEF EnqueueVisible, indexVars, boundVars, TypeOK, Carrying, Holders
<1>5. ASSUME NEW l \in Locations, RemoveLocation(l) PROVE TypeInv'
  BY <1>5, BoundsAssumption
     DEF RemoveLocation, Current, queueVars, boundVars, TypeOK, Carrying, Holders
<1>6. ASSUME NEW p \in Projects, ResetRows(p) PROVE TypeInv'
  <2>1. row' \in [Projects -> [Kinds -> Rows]]
    <3>1. [state |-> "queued", fails |-> 0] \in Rows
      BY DEF Rows, RowStates, MaxTransientFails
    <3>2. \A k \in Kinds : row[p][k] \in Rows
      BY DEF TypeOK, Rows
    <3> QED
      BY <1>6, <3>1, <3>2 DEF ResetRows, TypeOK, Rows
  <2> QED
    BY <1>6, <2>1 DEF ResetRows, Rows, queueVars, boundVars, TypeOK, Carrying, Holders
<1>7. ASSUME NEW i \in DOMAIN ready, Due(i) PROVE TypeInv'
  <2>1. ready[i] \in Job /\ i \in 1..Len(ready)
    BY LenProperties, ElementOfSeq DEF TypeOK
  <2>2. [ready[i] EXCEPT !.due = TRUE] \in Job
    BY <2>1 DEF Job
  <2>3. [ready EXCEPT ![i] = [ready[i] EXCEPT !.due = TRUE]] \in Seq(Job)
    BY <2>1, <2>2, ExceptSeq DEF TypeOK
  <2>4. ready' \in Seq(Job)
    BY <1>7, <2>3 DEF Due
  <2> QED
    BY <1>7, <2>4 DEF Due, indexVars, boundVars, TypeOK, Carrying, Holders
<1>8. CASE RequestStop
  BY <1>8 DEF RequestStop, queueVars, indexVars, boundVars, TypeOK, Carrying, Holders
<1>9. ASSUME NEW w \in Workers, Take(w) PROVE TypeInv'
  <2>1. PICK i \in DOMAIN ready : /\ job' = [job EXCEPT ![w] = ready[i]]
                                  /\ TakeSlot(ready[i])
                                  /\ ready' = Without(ready, i)
    BY <1>9 DEF Take
  <2>0. i \in 1..Len(ready) /\ ready[i] \in Job
    BY LenProperties, ElementOfSeq DEF TypeOK
  <2>2. ready[i] \in Job /\ ready[i].store \in StoreKeys /\ i \in 1..Len(ready)
    BY <2>0 DEF Job
  <2>3. ready' \in Seq(Job)
    BY <2>1, <2>2, WithoutType DEF TypeOK
  <2>4. /\ inFlight' \in Nat /\ j4InFlight' \in Nat
        /\ used' \in [StoreKeys -> Nat] /\ j4Used' \in [StoreKeys -> Nat]
    <3>1. /\ inFlight \in Nat /\ j4InFlight \in Nat
          /\ used \in [StoreKeys -> Nat] /\ j4Used \in [StoreKeys -> Nat]
      BY DEF TypeOK
    <3> QED
      BY <2>1, <2>2, <3>1 DEF TakeSlot
  <2>5. TypeOK'
    BY <1>9, <2>1, <2>2, <2>3, <2>4 DEF Take, Goto, indexVars, boundVars, TypeOK, Places
  <2>6. Carrying'
    BY <1>9, <2>1, <2>2 DEF Take, Goto, TypeOK, Carrying, Holders
  <2> QED
    BY <2>5, <2>6
<1>10. ASSUME NEW w \in Workers, Exit(w) PROVE TypeInv'
  BY <1>10 DEF Exit, Goto, queueVars, indexVars, boundVars, TypeOK, Places, Carrying, Holders
<1>11. ASSUME NEW w \in Workers, Check(w) PROVE TypeInv'
  <2>1. ProjectOf[job[w].loc] \in Projects
    BY <1>11, ProjectOfAssumption DEF Check, Goto, Holders, Carrying, Job
  <2>2. refusals' \in 0..MaxRefusals /\ dropped' \subseteq Projects
    BY <1>11, <2>1, BoundsAssumption DEF Check, TypeOK
  <2>3. /\ at[w] = "check" /\ at' \in [Workers -> Places] /\ at'[w] \in {"run", "release"}
        /\ \A v \in Workers : v # w => at'[v] = at[v]
    BY <1>11 DEF Check, Goto, TypeOK, Places
  <2>4. Carrying'
    BY <1>11, <2>3 DEF Check, Carrying, Holders
  <2> QED
    BY <1>11, <2>2, <2>3, <2>4 DEF Check, queueVars, indexVars, TypeOK
<1>12. ASSUME NEW w \in Workers, Run(w) PROVE TypeInv'
  <2>1. w \in Holders /\ job[w] \in Job /\ job[w].loc \in Locations /\ job[w].kind \in Kinds
    BY <1>12 DEF Run, Goto, Holders, Carrying, Job
  <2>2. PICK o \in OutcomeOf(job[w]) :
          /\ result' = [result EXCEPT ![w] = o]
          /\ chunks' = IF o = "partial" THEN [chunks EXCEPT ![job[w].loc] = @ + 1] ELSE chunks
          /\ strikes' = IF job[w].kind \in PerLocation
                        THEN [strikes EXCEPT ![job[w].loc][job[w].kind] =
                                IF o = "transient" THEN Saturated(@ + 1) ELSE 0]
                        ELSE strikes
          /\ IF o = "done" /\ job[w].kind = "j1_5"
             THEN \E a \in {"yes", "no"} :
                    reference' = [reference EXCEPT ![ProjectOf[job[w].loc]] = a]
             ELSE UNCHANGED reference
    BY <1>12 DEF Run
  <2>3. o \in AllOutcomes /\ (o = "partial" => chunks[job[w].loc] < MaxChunks)
    BY <2>1, <2>2, BoundsAssumption DEF OutcomeOf
  <2>4. chunks' \in [Locations -> 0..MaxChunks]
    BY <2>1, <2>2, <2>3, BoundsAssumption, SMTT(30) DEF TypeOK
  <2>5. strikes' \in [Locations -> [PerLocation -> 0..MaxTransientFails]]
    <3>1. \A n \in 0..3 : Saturated(n + 1) \in 0..3
      BY DEF Saturated, MaxTransientFails
    <3> DEFINE l == job[w].loc
               k == job[w].kind
    <3>2. CASE k \in PerLocation
      <4>1. strikes[l] \in [PerLocation -> 0..3] /\ strikes[l][k] \in 0..3
        BY <2>1, <3>2 DEF TypeOK, MaxTransientFails
      <4> DEFINE n == IF o = "transient" THEN Saturated(strikes[l][k] + 1) ELSE 0
      <4>0. n \in 0..3
        BY <3>1, <4>1
      <4>2. strikes' = [strikes EXCEPT ![l] = [strikes[l] EXCEPT ![k] = n]]
        BY <2>2, <3>2
      <4> HIDE DEF n
      <4>3. [strikes[l] EXCEPT ![k] = n] \in [PerLocation -> 0..3]
        BY <4>1, <4>0
      <4> QED
        BY <2>1, <4>2, <4>3 DEF TypeOK, MaxTransientFails
    <3>3. CASE k \notin PerLocation
      BY <2>2, <3>3 DEF TypeOK
    <3> QED
      BY <3>2, <3>3
  <2>6. reference' \in [Projects -> {"unknown", "yes", "no"}]
    BY <2>1, <2>2, ProjectOfAssumption DEF TypeOK
  <2>7. result' \in [Workers -> AllOutcomes \cup {"none"}] /\ result'[w] \in AllOutcomes
    BY <2>2, <2>3 DEF TypeOK
  <2>8. \A v \in Workers : v # w => result'[v] = result[v] /\ at'[v] = at[v]
    BY <1>12, <2>2 DEF Run, Goto, TypeOK
  <2> QED
    BY <1>12, <2>1, <2>4, <2>5, <2>6, <2>7, <2>8
       DEF Run, Goto, queueVars, TypeOK, Places, Carrying, Holders
<1>13. ASSUME NEW w \in Workers, Load(w) PROVE TypeInv'
  <2>1. job[w] \in Job /\ job[w].loc \in Locations /\ job[w].kind \in Kinds
    BY <1>13 DEF Load, Goto, Holders, Carrying, Job
  <2>2. prev' \in [Workers -> Rows]
    <3>1. Fresh \in Rows
      BY DEF Rows, Fresh, RowStates, MaxTransientFails
    <3>2. row[ProjectOf[job[w].loc]][job[w].kind] \in Rows
      BY <2>1, ProjectOfAssumption DEF TypeOK, Rows
    <3>3. \E r \in Rows : prev' = [prev EXCEPT ![w] = r]
      BY <1>13, <3>1, <3>2 DEF Load
    <3> QED
      BY <3>3 DEF TypeOK, Rows
  <2> QED
    BY <1>13, <2>2, BoundsAssumption
       DEF Load, Goto, queueVars, indexVars, TypeOK, Rows, Places, Carrying, Holders
<1>14. ASSUME NEW w \in Workers, Settle(w) PROVE TypeInv'
  <2> DEFINE p == ProjectOf[job[w].loc]
             r == ApplyOutcome(prev[w], result[w])
  <2>1. /\ job[w] \in Job /\ job[w].loc \in Locations /\ job[w].kind \in Kinds
        /\ result[w] \in AllOutcomes /\ p \in Projects
    BY <1>14, ProjectOfAssumption DEF Settle, Goto, Holders, Carrying, Job
  <2>2. r \in Rows
    BY <2>1, ApplyOutcomeType DEF TypeOK, Rows
  <2> HIDE DEF r
  <2>3. FollowUps(job[w], result[w], r, reference[p]) \in Seq(Job)
    BY <2>1, <2>2, FollowUpsType
  <2>4. row' \in [Projects -> [Kinds -> Rows]]
    <3> DEFINE k == job[w].kind
    <3>1. row \in [Projects -> [Kinds -> Rows]]
      BY DEF TypeOK, Rows
    <3>2. [row[p] EXCEPT ![k] = r] \in [Kinds -> Rows]
      BY <2>1, <2>2, <3>1
    <3>3. row' = row \/ row' = [row EXCEPT ![p] = [row[p] EXCEPT ![k] = r]]
      BY <1>14 DEF Settle, r
    <3> QED
      BY <2>1, <3>1, <3>2, <3>3
  <2>5. todo' \in [Workers -> Seq(Job)]
    BY <1>14, <2>3 DEF Settle, TypeOK, r
  <2>6. refusals' \in 0..MaxRefusals
    BY <1>14, BoundsAssumption DEF Settle, TypeOK
  <2> QED
    BY <1>14, <2>4, <2>5, <2>6
       DEF Settle, Goto, queueVars, boundVars, TypeOK, Rows, Places, Carrying, Holders
<1>15. ASSUME NEW w \in Workers, Follow(w) PROVE TypeInv'
  <2>1. todo[w] \in Seq(Job) /\ todo[w] # <<>>
    BY <1>15 DEF Follow, TypeOK
  <2>2. Head(todo[w]) \in Job /\ Tail(todo[w]) \in Seq(Job)
    BY <2>1, HeadTailProperties
  <2>3. ready' \in Seq(Job) /\ cap' \in [StoreKeys -> ClassCaps]
    BY <1>15, <2>2, EnqueueType DEF Follow
  <2> QED
    BY <1>15, <2>2, <2>3
       DEF Follow, Goto, indexVars, boundVars, TypeOK, Places, Carrying, Holders
<1>16. ASSUME NEW w \in Workers, Release(w) PROVE TypeInv'
  <2>1. \A n \in Nat : Less(n) \in Nat
    BY DEF Less
  <2>2. job[w] \in Job /\ job[w].store \in StoreKeys
    BY <1>16 DEF Release, Holders, Carrying, Job
  <2>3. /\ inFlight' \in Nat /\ j4InFlight' \in Nat
        /\ used' \in [StoreKeys -> Nat] /\ j4Used' \in [StoreKeys -> Nat]
    BY <1>16, <2>1, <2>2 DEF Release, ReleaseSlot, TypeOK
  <2>4. TypeOK'
    <3>1. "take" \in Places /\ Fresh \in [state : RowStates, fails : 0..MaxTransientFails]
      BY DEF Places, RowStates, Fresh, MaxTransientFails
    <3>2. /\ at' \in [Workers -> Places] /\ job' \in [Workers -> Job \cup {NoJob}]
          /\ result' \in [Workers -> AllOutcomes \cup {"none"}]
          /\ prev' \in [Workers -> [state : RowStates, fails : 0..MaxTransientFails]]
      BY <1>16, <3>1 DEF Release, TypeOK
    <3>3. UNCHANGED <<ready, cap, indexed, visible, stopping, todo, indexVars, boundVars>>
      BY <1>16 DEF Release
    <3> QED BY <2>3, <3>2, <3>3 DEF indexVars, boundVars, TypeOK
  <2>5. Carrying'
    BY <1>16 DEF Release, TypeOK, Carrying, Holders
  <2> QED
    BY <2>4, <2>5
<1>17. CASE UNCHANGED vars
  BY <1>17 DEF vars, queueVars, indexVars, boundVars, TypeOK, Carrying, Holders
<1> QED
  BY <1>1, <1>2, <1>3, <1>4, <1>5, <1>6, <1>7, <1>8, <1>9, <1>10, <1>11, <1>12, <1>13, <1>14, <1>15,
     <1>16, <1>17 DEF Next, Work

\* Every variable of the pool keeps to its type, whatever the walk, the views, the removals and
\* the workers do.
THEOREM TypeCorrect == Spec => []TypeOK
<1>1. Init => TypeInv
  BY TypeInit
<1>2. TypeInv /\ [Next]_vars => TypeInv'
  BY TypeStep
<1>3. TypeInv => TypeOK
  BY DEF TypeInv
<1> QED
  BY <1>1, <1>2, <1>3, PTL DEF Spec

-----------------------------------------------------------------------------
(* The slot table.                                                           *)

\* What every step keeps: the table counts the holders, and the holders are within the caps.
\* Neither is inductive alone: a take is admitted by the counts, and counts what it admits.
SlotsInv == SlotsCountHolders /\ WithinCaps

IInv == TypeInv /\ SlotsInv

LEMMA J4CapType == J4Cap \in Nat
BY GlobalCapAssumption DEF J4Cap

\* Every set of holders is finite, so its cardinality is a number.
LEMMA HoldersFinite ==
    ASSUME NEW S \in SUBSET Workers
    PROVE  IsFiniteSet(S) /\ Cardinality(S) \in Nat
BY WorkersAssumption, FS_Subset, FS_CardinalityType

\* A step that moves no worker into or out of its slot, and leaves the table alone, keeps it.
LEMMA SlotsKept ==
    ASSUME SlotsInv,
           \A v \in Workers : at'[v] \in {"take", "exited"} <=> at[v] \in {"take", "exited"},
           UNCHANGED <<job, inFlight, j4InFlight, used, j4Used>>
    PROVE  SlotsInv'
<1>1. Holders' = Holders
  BY DEF Holders
<1>2. J4Holders' = J4Holders
  BY <1>1 DEF J4Holders
<1>3. \A k \in StoreKeys : HoldersOf(k)' = HoldersOf(k) /\ J4HoldersOf(k)' = J4HoldersOf(k)
  BY <1>1, <1>2 DEF HoldersOf, J4HoldersOf
<1> QED
  BY <1>1, <1>2, <1>3 DEF SlotsInv, SlotsCountHolders, WithinCaps

\* A take adds the worker to every set its job belongs to, and to the counts of those sets.
LEMMA SlotsTaken ==
    ASSUME IInv, NEW w \in Workers, Take(w)
    PROVE  SlotsInv'
<1>1. PICK i \in DOMAIN ready : /\ Chosen(ready, i)
                                /\ job' = [job EXCEPT ![w] = ready[i]]
                                /\ TakeSlot(ready[i])
  BY DEF Take
<1> DEFINE j == ready[i]
<1>2. i \in 1..Len(ready) /\ j \in Job
  BY LenProperties, ElementOfSeq DEF IInv, TypeInv, TypeOK
<1>3. j.store \in StoreKeys
  BY <1>2 DEF Job
<1>4. CanTake(j)
  BY <1>1 DEF Chosen, Eligible
<1> HIDE DEF j
<1>5. /\ w \notin Holders /\ job'[w] = j /\ at'[w] = "check"
      /\ \A v \in Workers : v # w => at'[v] = at[v] /\ job'[v] = job[v]
  BY <1>1 DEF IInv, TypeInv, TypeOK, Take, Goto, Holders, j
<1>6. Holders' = Holders \cup {w}
  BY <1>5 DEF Holders
<1>7. J4Holders' = IF j.kind = "j4" THEN J4Holders \cup {w} ELSE J4Holders
  BY <1>5, <1>6 DEF J4Holders, Holders
<1>8. \A k \in StoreKeys :
        /\ HoldersOf(k)' = IF j.store = k THEN HoldersOf(k) \cup {w} ELSE HoldersOf(k)
        /\ J4HoldersOf(k)' = IF j.kind = "j4" /\ j.store = k THEN J4HoldersOf(k) \cup {w}
                                                            ELSE J4HoldersOf(k)
  BY <1>5, <1>6, <1>7 DEF HoldersOf, J4HoldersOf, J4Holders, Holders
<1>9. /\ Cardinality(Holders') = Cardinality(Holders) + 1
      /\ Cardinality(J4Holders') = IF j.kind = "j4" THEN Cardinality(J4Holders) + 1
                                                    ELSE Cardinality(J4Holders)
  <2>1. w \notin J4Holders /\ Holders \in SUBSET Workers /\ J4Holders \in SUBSET Workers
    BY <1>5 DEF J4Holders, Holders
  <2> QED
    BY <2>1, <1>5, <1>6, <1>7, HoldersFinite, FS_AddElement
<1>10. \A k \in StoreKeys :
         /\ Cardinality(HoldersOf(k)') = IF j.store = k THEN Cardinality(HoldersOf(k)) + 1
                                                        ELSE Cardinality(HoldersOf(k))
         /\ Cardinality(J4HoldersOf(k)') = IF j.kind = "j4" /\ j.store = k
                                           THEN Cardinality(J4HoldersOf(k)) + 1
                                           ELSE Cardinality(J4HoldersOf(k))
  <2> SUFFICES ASSUME NEW k \in StoreKeys
               PROVE  /\ Cardinality(HoldersOf(k)') = IF j.store = k THEN Cardinality(HoldersOf(k)) + 1
                                                                     ELSE Cardinality(HoldersOf(k))
                      /\ Cardinality(J4HoldersOf(k)') = IF j.kind = "j4" /\ j.store = k
                                                        THEN Cardinality(J4HoldersOf(k)) + 1
                                                        ELSE Cardinality(J4HoldersOf(k))
    OBVIOUS
  <2>1. /\ w \notin HoldersOf(k) /\ w \notin J4HoldersOf(k)
        /\ HoldersOf(k) \in SUBSET Workers /\ J4HoldersOf(k) \in SUBSET Workers
    BY <1>5 DEF HoldersOf, J4HoldersOf, J4Holders, Holders
  <2> QED
    BY <2>1, <1>8, HoldersFinite, FS_AddElement
<1>11. SlotsCountHolders'
  BY <1>1, <1>3, <1>9, <1>10
     DEF SlotsCountHolders, IInv, SlotsInv, TypeInv, TypeOK, TakeSlot, TakesJ4Slot, j
<1>12. WithinCaps'
  <2>1. Cardinality(Holders') <= GlobalCap
    BY <1>4, <1>9, GlobalCapAssumption
       DEF CanTake, IInv, SlotsInv, SlotsCountHolders, TypeInv, TypeOK
  <2>2. Cardinality(J4Holders') <= J4Cap
    BY <1>4, <1>9, J4CapType
       DEF CanTake, TakesJ4Slot, IInv, SlotsInv, SlotsCountHolders, WithinCaps, TypeInv, TypeOK
  <2>3. \A k \in StoreKeys : Cardinality(J4HoldersOf(k)') <= 1
    BY <1>3, <1>4, <1>10
       DEF CanTake, TakesJ4Slot, IInv, SlotsInv, SlotsCountHolders, WithinCaps, TypeInv, TypeOK
  <2> QED
    BY <2>1, <2>2, <2>3 DEF WithinCaps
<1> QED
  BY <1>11, <1>12 DEF SlotsInv

\* A release takes the worker out of every set its job belongs to, and out of the counts.
LEMMA SlotsReleased ==
    ASSUME IInv, NEW w \in Workers, Release(w)
    PROVE  SlotsInv'
<1> DEFINE j == job[w]
<1>1. w \in Holders /\ j \in Job
  BY DEF Release, IInv, TypeInv, Carrying, Holders
<1>2. j.store \in StoreKeys
  BY <1>1 DEF Job
<1>3. /\ at'[w] = "take"
      /\ \A v \in Workers : v # w => at'[v] = at[v] /\ job'[v] = job[v]
  BY DEF IInv, TypeInv, TypeOK, Release
<1>4. Holders' = Holders \ {w}
  BY <1>3 DEF Holders
<1>5. J4Holders' = J4Holders \ {w}
  BY <1>3, <1>4 DEF J4Holders, Holders
<1>6. \A k \in StoreKeys : /\ HoldersOf(k)' = HoldersOf(k) \ {w}
                          /\ J4HoldersOf(k)' = J4HoldersOf(k) \ {w}
  BY <1>3, <1>4, <1>5 DEF HoldersOf, J4HoldersOf, J4Holders, Holders
<1>7. /\ Cardinality(Holders') = Cardinality(Holders) - 1
      /\ Cardinality(J4Holders') = IF j.kind = "j4" THEN Cardinality(J4Holders) - 1
                                                    ELSE Cardinality(J4Holders)
      /\ Cardinality(Holders) \in Nat /\ Cardinality(Holders') \in Nat
      /\ Cardinality(J4Holders) \in Nat /\ Cardinality(J4Holders') \in Nat
  <2>1. /\ w \in J4Holders <=> j.kind = "j4"
        /\ Holders \in SUBSET Workers /\ J4Holders \in SUBSET Workers
        /\ Holders' \in SUBSET Workers /\ J4Holders' \in SUBSET Workers
    BY <1>1, <1>4, <1>5 DEF J4Holders, Holders
  <2> QED
    BY <2>1, <1>1, <1>4, <1>5, HoldersFinite, FS_RemoveElement
<1>8. \A k \in StoreKeys :
        /\ Cardinality(HoldersOf(k)') = IF j.store = k THEN Cardinality(HoldersOf(k)) - 1
                                                       ELSE Cardinality(HoldersOf(k))
        /\ Cardinality(J4HoldersOf(k)') = IF j.kind = "j4" /\ j.store = k
                                          THEN Cardinality(J4HoldersOf(k)) - 1
                                          ELSE Cardinality(J4HoldersOf(k))
        /\ Cardinality(HoldersOf(k)) \in Nat /\ Cardinality(HoldersOf(k)') \in Nat
        /\ Cardinality(J4HoldersOf(k)) \in Nat /\ Cardinality(J4HoldersOf(k)') \in Nat
  <2> TAKE k \in StoreKeys
  <2>1. /\ w \in HoldersOf(k) <=> j.store = k
        /\ w \in J4HoldersOf(k) <=> j.kind = "j4" /\ j.store = k
        /\ HoldersOf(k) \in SUBSET Workers /\ J4HoldersOf(k) \in SUBSET Workers
        /\ HoldersOf(k)' \in SUBSET Workers /\ J4HoldersOf(k)' \in SUBSET Workers
    BY <1>1, <1>6 DEF HoldersOf, J4HoldersOf, J4Holders, Holders
  <2> QED
    BY <2>1, <1>6, HoldersFinite, FS_RemoveElement
<1> HIDE DEF j
<1>9. SlotsCountHolders'
  <2>1. ReleaseSlot(j)
    BY DEF Release, j
  <2>2. inFlight' = Cardinality(Holders') /\ j4InFlight' = Cardinality(J4Holders')
    BY <2>1, <1>7
       DEF ReleaseSlot, TakesJ4Slot, Less, IInv, SlotsInv, SlotsCountHolders
  <2>3. ASSUME NEW k \in StoreKeys
        PROVE  used'[k] = Cardinality(HoldersOf(k)') /\ j4Used'[k] = Cardinality(J4HoldersOf(k)')
    <3>1. /\ used'[k] = IF j.store = k THEN Less(used[k]) ELSE used[k]
          /\ j4Used'[k] = IF j.kind = "j4" /\ j.store = k THEN Less(j4Used[k]) ELSE j4Used[k]
      BY <2>1, <1>2 DEF ReleaseSlot, TakesJ4Slot, IInv, TypeInv, TypeOK
    <3>2. used[k] = Cardinality(HoldersOf(k)) /\ j4Used[k] = Cardinality(J4HoldersOf(k))
      BY DEF IInv, SlotsInv, SlotsCountHolders
    <3> QED
      BY <3>1, <3>2, <1>8 DEF Less
  <2> QED
    BY <2>2, <2>3 DEF SlotsCountHolders
<1>10. WithinCaps'
  BY <1>7, <1>8, GlobalCapAssumption, J4CapType DEF IInv, SlotsInv, WithinCaps
<1> QED
  BY <1>9, <1>10 DEF SlotsInv

LEMMA SlotsInit == Init => SlotsInv
<1> SUFFICES ASSUME Init PROVE SlotsInv
  OBVIOUS
<1>1. /\ Holders = {} /\ J4Holders = {}
      /\ \A k \in StoreKeys : HoldersOf(k) = {} /\ J4HoldersOf(k) = {}
  BY DEF Init, Holders, J4Holders, HoldersOf, J4HoldersOf
<1>2. Cardinality({}) = 0
  BY FS_EmptySet
<1>3. /\ Cardinality(Holders) = 0 /\ Cardinality(J4Holders) = 0
      /\ \A k \in StoreKeys : Cardinality(HoldersOf(k)) = 0 /\ Cardinality(J4HoldersOf(k)) = 0
  BY <1>1, <1>2
<1>4. SlotsCountHolders
  BY <1>3 DEF Init, SlotsCountHolders
<1>5. WithinCaps
  BY <1>3, GlobalCapAssumption, J4CapType DEF WithinCaps
<1> QED
  BY <1>4, <1>5 DEF SlotsInv

LEMMA SlotsStep == IInv /\ [Next]_vars => SlotsInv'
<1> SUFFICES ASSUME IInv, [Next]_vars PROVE SlotsInv'
  OBVIOUS
<1>1. SlotsInv /\ at \in [Workers -> Places]
  BY DEF IInv, TypeInv, TypeOK
<1>2. ASSUME NEW l \in Locations, NEW c \in ClassCaps, HandOff(l, c) PROVE SlotsInv'
  BY <1>1, <1>2, SlotsKept DEF HandOff, Asked
<1>3. CASE LocationIndexed
  BY <1>1, <1>3, SlotsKept DEF LocationIndexed
<1>4. ASSUME NEW l \in Locations, NEW c \in ClassCaps, NEW art \in BOOLEAN, NEW content \in BOOLEAN,
             LocationVisible(l, c, art, content)
      PROVE  SlotsInv'
  BY <1>1, <1>4, SlotsKept DEF LocationVisible, Asked
<1>5. CASE EnqueueVisible
  BY <1>1, <1>5, SlotsKept DEF EnqueueVisible
<1>6. ASSUME NEW l \in Locations, RemoveLocation(l) PROVE SlotsInv'
  BY <1>1, <1>6, SlotsKept DEF RemoveLocation, queueVars
<1>7. ASSUME NEW p \in Projects, ResetRows(p) PROVE SlotsInv'
  BY <1>1, <1>7, SlotsKept DEF ResetRows, queueVars
<1>8. ASSUME NEW i \in DOMAIN ready, Due(i) PROVE SlotsInv'
  BY <1>1, <1>8, SlotsKept DEF Due
<1>9. CASE RequestStop
  BY <1>1, <1>9, SlotsKept DEF RequestStop, queueVars
<1>10. ASSUME NEW w \in Workers, Exit(w) \/ Check(w) \/ Run(w) \/ Load(w) \/ Settle(w)
       PROVE  SlotsInv'
  BY <1>1, <1>10, SlotsKept DEF Exit, Check, Run, Load, Settle, Goto, queueVars
<1>11. ASSUME NEW w \in Workers, Follow(w) PROVE SlotsInv'
  BY <1>1, <1>11, SlotsKept DEF Follow, Goto
<1>12. ASSUME NEW w \in Workers, Take(w) PROVE SlotsInv'
  BY <1>12, SlotsTaken
<1>13. ASSUME NEW w \in Workers, Release(w) PROVE SlotsInv'
  BY <1>13, SlotsReleased
<1>14. CASE UNCHANGED vars
  BY <1>1, <1>14, SlotsKept DEF vars, queueVars
<1> QED
  BY <1>2, <1>3, <1>4, <1>5, <1>6, <1>7, <1>8, <1>9, <1>10, <1>11, <1>12, <1>13, <1>14 DEF Next, Work

LEMMA IInvariant == Spec => []IInv
<1>1. Init => IInv
  BY TypeInit, SlotsInit DEF IInv
<1>2. IInv /\ [Next]_vars => IInv'
  BY TypeStep, SlotsStep DEF IInv
<1> QED
  BY <1>1, <1>2, PTL DEF Spec

\* However many workers there are and whatever drops, refusals and requeues they meet, the
\* table neither leaks a slot nor gives one back twice.
THEOREM SlotsAreCounted == Spec => []SlotsCountHolders
<1>1. IInv => SlotsCountHolders
  BY DEF IInv, SlotsInv
<1> QED
  BY <1>1, IInvariant, PTL

\* No more than the global cap of workers run jobs, no more than J4's share of it run J4, and no
\* two of those on one store.
THEOREM CapsHold == Spec => []WithinCaps
<1>1. IInv => WithinCaps
  BY DEF IInv, SlotsInv
<1> QED
  BY <1>1, IInvariant, PTL

\* Only a take moves a worker from "take" to "check".
LEMMA OnlyTakeTakes ==
    ASSUME IInv, [Next]_vars, NEW w \in Workers, at[w] = "take", at'[w] = "check"
    PROVE  Take(w)
<1>1. at \in [Workers -> Places]
  BY DEF IInv, TypeInv, TypeOK
<1>2. ASSUME NEW v \in Workers, Work(v) PROVE Take(w)
  <2>1. at' # at /\ \A u \in Workers : u # v => at'[u] = at[u]
    BY <1>1, <1>2 DEF Work, Take, Exit, Check, Run, Load, Settle, Follow, Release, Goto
  <2>2. v = w
    BY <2>1
  <2> QED
    BY <1>1, <1>2, <2>2 DEF Work, Take, Exit, Check, Run, Load, Settle, Follow, Release, Goto
<1>3. CASE UNCHANGED at
  BY <1>1, <1>3
<1> QED
  BY <1>2, <1>3
     DEF Next, HandOff, Asked, LocationIndexed, LocationVisible, EnqueueVisible, RemoveLocation,
         ResetRows, Due, RequestStop, vars

\* A worker that takes a job is within the cap its store has at that moment, however the class
\* the walk and the views resolve for the store has moved.
THEOREM TakesAreCapped == Spec => TakesWithinStoreCap
<1> DEFINE A == \A w \in Workers, k \in StoreKeys :
                  (at[w] = "take" /\ at'[w] = "check" /\ job'[w].store = k)
                      => Cardinality(HoldersOf(k)') <= cap[k]
<1>1. IInv /\ [Next]_vars => A
  <2> SUFFICES ASSUME IInv, [Next]_vars, NEW w \in Workers, NEW k \in StoreKeys,
                      at[w] = "take", at'[w] = "check", job'[w].store = k
               PROVE  Cardinality(HoldersOf(k)') <= cap[k]
    OBVIOUS
  <2>1. Take(w)
    BY OnlyTakeTakes
  <2>2. PICK i \in DOMAIN ready : /\ Chosen(ready, i)
                                  /\ job' = [job EXCEPT ![w] = ready[i]]
                                  /\ TakeSlot(ready[i])
    BY <2>1 DEF Take
  <2>3. ready[i].store = k
    BY <2>2 DEF IInv, TypeInv, TypeOK
  <2>4. used[k] < cap[k]
    BY <2>2, <2>3 DEF Chosen, Eligible, CanTake
  <2>5. used'[k] = used[k] + 1 /\ used[k] \in Nat /\ cap[k] \in Nat
    BY <2>2, <2>3, ClassCapsAssumption DEF TakeSlot, IInv, TypeInv, TypeOK
  <2>6. used'[k] = Cardinality(HoldersOf(k)')
    BY <2>1, SlotsTaken DEF SlotsInv, SlotsCountHolders
  <2> QED
    BY <2>4, <2>5, <2>6
<1>2. IInv /\ [Next]_vars => [A]_vars
  BY <1>1
<1> QED
  BY <1>2, IInvariant, PTL DEF Spec, TakesWithinStoreCap

-----------------------------------------------------------------------------
(* The queue holds no work twice.                                            *)

Distinct(q) == \A i, k \in DOMAIN q : SameWork(q[i], q[k]) => i = k

\* A push that repeats queued work replaces it or leaves it; it never adds to it.
LEMMA PushDistinct ==
    ASSUME NEW q \in Seq(Job), NEW j \in Job, Distinct(q)
    PROVE  Distinct(Push(q, j))
<1>1. DOMAIN q = 1..Len(q) /\ Len(q) \in Nat
  BY LenProperties
<1>2. CASE QueuedAt(q, j) = {}
  <2>1. Push(q, j) = Append(q, j)
    BY <1>2 DEF Push
  <2>2. /\ DOMAIN Append(q, j) = 1..(Len(q) + 1)
        /\ \A n \in 1..Len(q) : Append(q, j)[n] = q[n]
        /\ Append(q, j)[Len(q) + 1] = j
    BY <1>1, AppendProperties, LenProperties
  <2>3. \A n \in 1..Len(q) : ~SameWork(q[n], j) /\ ~SameWork(j, q[n])
    BY <1>1, <1>2 DEF QueuedAt, SameWork
  <2> QED
    BY <1>1, <2>1, <2>2, <2>3 DEF Distinct
<1>3. CASE QueuedAt(q, j) # {}
  <2> DEFINE i == CHOOSE i \in QueuedAt(q, j) : TRUE
  <2>1. i \in 1..Len(q) /\ SameWork(q[i], j)
    BY <1>1, <1>3 DEF QueuedAt
  <2>2. Push(q, j) = IF q[i].prio <= j.prio THEN q ELSE [q EXCEPT ![i] = j]
    BY <1>3 DEF Push
  <2> HIDE DEF i
  <2>3. Distinct([q EXCEPT ![i] = j])
    <3>1. /\ DOMAIN [q EXCEPT ![i] = j] = DOMAIN q
          /\ \A n \in DOMAIN q : [q EXCEPT ![i] = j][n] = IF n = i THEN j ELSE q[n]
      BY <1>1, <2>1
    <3> QED
      BY <1>1, <2>1, <3>1 DEF Distinct, SameWork
  <2> QED
    BY <2>2, <2>3
<1> QED
  BY <1>2, <1>3

\* A pop takes one entry out and keeps the others in their order.
LEMMA WithoutAt ==
    ASSUME NEW q \in Seq(Job), NEW i \in 1..Len(q)
    PROVE  /\ DOMAIN Without(q, i) = 1..(Len(q) - 1)
           /\ \A n \in 1..(Len(q) - 1) : Without(q, i)[n] = IF n < i THEN q[n] ELSE q[n + 1]
<1> DEFINE a == SubSeq(q, 1, i - 1)
           b == SubSeq(q, i + 1, Len(q))
<1>1. Len(q) \in Nat /\ DOMAIN q = 1..Len(q) /\ \A n \in 1..Len(q) : q[n] \in Job
  BY LenProperties, ElementOfSeq
<1>2. a \in Seq(Job) /\ Len(a) = i - 1 /\ \A n \in 1..(i - 1) : a[n] = q[n]
  <2>1. \A n \in 1..(i - 1) : q[n] \in Job
    BY <1>1
  <2>2. /\ a \in Seq(Job)
        /\ Len(a) = IF 1 <= i - 1 THEN (i - 1) - 1 + 1 ELSE 0
        /\ \A n \in 1..((i - 1) - 1 + 1) : a[n] = q[1 + n - 1]
    BY <1>1, <2>1, SubSeqProperties
  <2> HIDE DEF a
  <2> QED
    BY <1>1, <2>2
<1>3. b \in Seq(Job) /\ Len(b) = Len(q) - i /\ \A n \in 1..(Len(q) - i) : b[n] = q[i + n]
  <2>1. \A n \in (i + 1)..Len(q) : q[n] \in Job
    BY <1>1
  <2>2. /\ b \in Seq(Job)
        /\ Len(b) = IF i + 1 <= Len(q) THEN Len(q) - (i + 1) + 1 ELSE 0
        /\ \A n \in 1..(Len(q) - (i + 1) + 1) : b[n] = q[(i + 1) + n - 1]
    BY <1>1, <2>1, SubSeqProperties
  <2> HIDE DEF b
  <2>3. \A n \in 1..(Len(q) - i) : b[n] = q[i + n]
    <3> SUFFICES ASSUME NEW n \in 1..(Len(q) - i) PROVE b[n] = q[i + n]
      OBVIOUS
    <3>1. n \in 1..(Len(q) - (i + 1) + 1) /\ (i + 1) + n - 1 = i + n
      BY <1>1
    <3>2. b[n] = q[(i + 1) + n - 1]
      BY <2>2, <3>1
    <3> QED
      BY <3>1, <3>2
  <2>4. Len(b) = Len(q) - i
    <3>1. Len(b) = IF i + 1 <= Len(q) THEN Len(q) - (i + 1) + 1 ELSE 0
      BY <2>2
    <3>2. Len(q) \in Nat /\ i \in Nat /\ i <= Len(q)
      BY <1>1
    <3>3. CASE i + 1 <= Len(q)
      BY <3>1, <3>2, <3>3
    <3>4. CASE ~(i + 1 <= Len(q))
      BY <3>1, <3>2, <3>4
    <3> QED
      BY <3>3, <3>4
  <2> QED
    BY <2>2, <2>3, <2>4
<1> HIDE DEF a, b
<1>4. /\ a \o b \in Seq(Job) /\ Len(a \o b) = Len(q) - 1
      /\ \A n \in 1..(Len(q) - 1) : (a \o b)[n] = IF n < i THEN q[n] ELSE q[n + 1]
  <2>1. /\ a \o b \in Seq(Job) /\ Len(a \o b) = Len(a) + Len(b)
        /\ \A n \in 1..(Len(a) + Len(b)) :
              (a \o b)[n] = IF n <= Len(a) THEN a[n] ELSE b[n - Len(a)]
    BY <1>2, <1>3, ConcatProperties
  <2>2. Len(a) + Len(b) = Len(q) - 1
    BY <1>1, <1>2, <1>3
  <2>3. ASSUME NEW n \in 1..(Len(q) - 1)
        PROVE  (a \o b)[n] = IF n < i THEN q[n] ELSE q[n + 1]
    <3>1. CASE n < i
      BY <1>1, <1>2, <2>1, <2>2, <3>1
    <3>2. CASE ~(n < i)
      <4>1. n - (i - 1) \in 1..(Len(q) - i) /\ i + (n - (i - 1)) = n + 1
        BY <1>1, <3>2
      <4>2. b[n - (i - 1)] = q[n + 1]
        BY <1>3, <4>1
      <4>3. ~(n <= Len(a)) /\ n - Len(a) = n - (i - 1)
        BY <1>1, <1>2, <3>2
      <4> QED
        BY <2>1, <2>2, <3>2, <4>2, <4>3
    <3> QED
      BY <3>1, <3>2
  <2> QED
    BY <2>1, <2>2, <2>3
<1>5. DOMAIN (a \o b) = 1..(Len(q) - 1)
  BY <1>4, LenProperties
<1> QED
  BY <1>4, <1>5 DEF Without, a, b

\* Nor does a pop.
LEMMA WithoutDistinct ==
    ASSUME NEW q \in Seq(Job), NEW i \in 1..Len(q), Distinct(q)
    PROVE  Distinct(Without(q, i))
<1>1. Len(q) \in Nat /\ DOMAIN q = 1..Len(q)
  BY LenProperties
<1> DEFINE r == Without(q, i)
<1>2. /\ DOMAIN r = 1..(Len(q) - 1)
      /\ \A n \in 1..(Len(q) - 1) : r[n] = IF n < i THEN q[n] ELSE q[n + 1]
  BY WithoutAt
<1> HIDE DEF r
<1> SUFFICES ASSUME NEW m \in 1..(Len(q) - 1), NEW n \in 1..(Len(q) - 1), SameWork(r[m], r[n])
             PROVE  m = n
  BY <1>2 DEF Distinct, r
<1> DEFINE x == IF m < i THEN m ELSE m + 1
           y == IF n < i THEN n ELSE n + 1
<1>3. x \in DOMAIN q /\ y \in DOMAIN q
  BY <1>1
<1>4. r[m] = q[x] /\ r[n] = q[y]
  BY <1>2
<1>5. x = y
  BY <1>3, <1>4 DEF Distinct
<1> QED
  BY <1>1, <1>5

\* Whatever the walk, the views, the chains and the retries push, no kind of work is queued twice
\* for a location.
THEOREM NothingQueuedTwice == Spec => []NoWorkQueuedTwice
<1>1. Init => Distinct(ready)
  BY EmptySeq DEF Init, Distinct
<1>2. IInv /\ Distinct(ready) /\ [Next]_vars => Distinct(ready)'
  <2> SUFFICES ASSUME IInv, Distinct(ready), [Next]_vars PROVE Distinct(ready')
    BY DEF Distinct
  <2> USE DEF IInv, TypeInv
  <2>1. ASSUME NEW j \in Job, Enqueue(j) PROVE Distinct(ready')
    BY <2>1, PushDistinct DEF Enqueue, TypeOK
  <2>2. CASE LocationIndexed
    BY <2>1, <2>2, HeadTailProperties DEF LocationIndexed, TypeOK
  <2>3. CASE EnqueueVisible
    BY <2>1, <2>3, HeadTailProperties DEF EnqueueVisible, TypeOK
  <2>4. ASSUME NEW w \in Workers, Follow(w) PROVE Distinct(ready')
    <3>1. todo[w] \in Seq(Job) /\ todo[w] # <<>>
      BY <2>4 DEF Follow, TypeOK
    <3> QED
      BY <2>1, <2>4, <3>1, HeadTailProperties DEF Follow
  <2>5. ASSUME NEW w \in Workers, Take(w) PROVE Distinct(ready')
    <3>1. PICK i \in DOMAIN ready : ready' = Without(ready, i)
      BY <2>5 DEF Take
    <3>2. i \in 1..Len(ready)
      BY LenProperties DEF TypeOK
    <3> QED
      BY <3>1, <3>2, WithoutDistinct DEF TypeOK
  <2>6. ASSUME NEW i \in DOMAIN ready, Due(i) PROVE Distinct(ready')
    <3>1. \A n \in DOMAIN ready : ready[n] \in Job
      BY LenProperties, ElementOfSeq DEF TypeOK
    <3>2. DOMAIN ready' = DOMAIN ready
      BY <2>6 DEF Due
    <3>3. \A n \in DOMAIN ready : ready'[n].kind = ready[n].kind /\ ready'[n].loc = ready[n].loc
      BY <2>6, <3>1 DEF Due, Job
    <3> QED
      BY <3>2, <3>3 DEF Distinct, SameWork
  <2>7. CASE UNCHANGED ready
    BY <2>7
  <2> QED
    BY <2>2, <2>3, <2>4, <2>5, <2>6, <2>7
       DEF Next, Work, HandOff, Asked, LocationVisible, RemoveLocation, ResetRows, RequestStop,
           Exit, Check, Run, Load, Settle, Release, vars, queueVars
<1>3. Distinct(ready) => NoWorkQueuedTwice
  BY DEF Distinct, NoWorkQueuedTwice
<1> QED
  BY <1>1, <1>2, <1>3, IInvariant, PTL DEF Spec

-----------------------------------------------------------------------------
(* No chain is lost.                                                         *)

IsFor(j, p, k) == j.kind = k /\ ProjectOf[j.loc] = p
InQueue(q, p, k) == \E i \in DOMAIN q : IsFor(q[i], p, k)

\* What is pending is in the queue, in a worker's hands or among what it has left to queue.
LEMMA PendingIs ==
    ASSUME NEW p, NEW k
    PROVE  Pending(p, k) <=> \/ InQueue(ready, p, k)
                             \/ \E w \in Holders : IsFor(job[w], p, k) \/ InQueue(todo[w], p, k)
BY DEF Pending, InQueue, IsFor

\* A push adds the job's work to what was queued, and takes none of it away.
LEMMA PushKeeps ==
    ASSUME NEW q \in Seq(Job), NEW j \in Job, NEW p, NEW k, InQueue(q, p, k) \/ IsFor(j, p, k)
    PROVE  InQueue(Push(q, j), p, k)
<1>1. DOMAIN q = 1..Len(q) /\ Len(q) \in Nat
  BY LenProperties
<1>2. CASE QueuedAt(q, j) = {}
  <2>1. Push(q, j) = Append(q, j)
    BY <1>2 DEF Push
  <2>2. /\ DOMAIN Append(q, j) = 1..(Len(q) + 1)
        /\ \A n \in 1..Len(q) : Append(q, j)[n] = q[n]
        /\ Append(q, j)[Len(q) + 1] = j
    BY <1>1, AppendProperties, LenProperties
  <2>3. 1..Len(q) \subseteq 1..(Len(q) + 1) /\ Len(q) + 1 \in 1..(Len(q) + 1)
    BY <1>1
  <2> QED
    BY <1>1, <2>1, <2>2, <2>3 DEF InQueue
<1>3. CASE QueuedAt(q, j) # {}
  <2> DEFINE i == CHOOSE i \in QueuedAt(q, j) : TRUE
  <2>1. i \in DOMAIN q /\ SameWork(q[i], j)
    BY <1>3 DEF QueuedAt
  <2>2. Push(q, j) = IF q[i].prio <= j.prio THEN q ELSE [q EXCEPT ![i] = j]
    BY <1>3 DEF Push
  <2> HIDE DEF i
  <2>3. /\ DOMAIN Push(q, j) = DOMAIN q
        /\ \A n \in DOMAIN q : Push(q, j)[n] = q[n] \/ (n = i /\ Push(q, j)[n] = j)
    BY <1>1, <2>1, <2>2
  <2>4. IsFor(j, p, k) <=> IsFor(q[i], p, k)
    BY <2>1 DEF SameWork, IsFor
  <2>5. PICK n \in DOMAIN q : IsFor(q[n], p, k)
    BY <2>1, <2>4 DEF InQueue
  <2>6. IsFor(Push(q, j)[n], p, k)
    BY <2>3, <2>4, <2>5
  <2> QED
    BY <2>3, <2>5, <2>6 DEF InQueue
<1> QED
  BY <1>2, <1>3

\* A pop takes away no work but that of the entry it takes.
LEMMA WithoutKeeps ==
    ASSUME NEW q \in Seq(Job), NEW i \in 1..Len(q), NEW p, NEW k, InQueue(q, p, k)
    PROVE  InQueue(Without(q, i), p, k) \/ IsFor(q[i], p, k)
<1>1. DOMAIN q = 1..Len(q) /\ Len(q) \in Nat
  BY LenProperties
<1> DEFINE r == Without(q, i)
<1>2. /\ DOMAIN r = 1..(Len(q) - 1)
      /\ \A n \in 1..(Len(q) - 1) : r[n] = IF n < i THEN q[n] ELSE q[n + 1]
  BY WithoutAt
<1> HIDE DEF r
<1>3. PICK n \in 1..Len(q) : IsFor(q[n], p, k)
  BY <1>1 DEF InQueue
<1>4. CASE n < i
  <2>1. n \in 1..(Len(q) - 1)
    BY <1>1, <1>4
  <2> QED
    BY <1>2, <1>3, <1>4, <2>1 DEF InQueue, r
<1>5. CASE n > i
  <2>1. n - 1 \in 1..(Len(q) - 1) /\ ~(n - 1 < i) /\ (n - 1) + 1 = n
    BY <1>1, <1>5
  <2>2. r[n - 1] = q[n]
    BY <1>2, <2>1
  <2> QED
    BY <1>2, <1>3, <2>1, <2>2 DEF InQueue, r
<1>6. CASE n = i
  BY <1>3, <1>6
<1> QED
  BY <1>1, <1>4, <1>5, <1>6

\* The head of a sequence goes first, and the tail keeps the rest.
LEMMA HeadOrTail ==
    ASSUME NEW q \in Seq(Job), q # <<>>, NEW p, NEW k, InQueue(q, p, k)
    PROVE  InQueue(Tail(q), p, k) \/ IsFor(Head(q), p, k)
<1>1. DOMAIN q = 1..Len(q) /\ Len(q) \in Nat /\ Head(q) = q[1]
  BY LenProperties
<1>2. PICK n \in 1..Len(q) : IsFor(q[n], p, k)
  BY <1>1 DEF InQueue
<1>3. CASE n = 1
  BY <1>1, <1>2, <1>3
<1>4. CASE n # 1
  <2>1. DOMAIN Tail(q) = 1..(Len(q) - 1) /\ \A m \in 1..(Len(q) - 1) : Tail(q)[m] = q[m + 1]
    BY <1>1
  <2>2. n - 1 \in 1..(Len(q) - 1) /\ (n - 1) + 1 = n
    BY <1>1, <1>4
  <2> QED
    BY <1>2, <2>1, <2>2 DEF InQueue
<1> QED
  BY <1>3, <1>4

\* What follows a kind does not depend on the reference flag, but for J7.
LEMMA NextHolds ==
    ASSUME NEW k \in Kinds, NEW ref, NEW n \in DOMAIN NextJobsAfter(k, "unknown")
    PROVE  /\ NextJobsAfter(k, "unknown")[n][1] \in Kinds
           /\ \E m \in DOMAIN NextJobsAfter(k, ref) :
                 NextJobsAfter(k, ref)[m][1] = NextJobsAfter(k, "unknown")[n][1]
<1>1. CASE k = "j1"
  BY <1>1 DEF NextJobsAfter, Kinds
<1>2. CASE k = "j1_5"
  <2> DEFINE band == IF ref = "yes" THEN 4 ELSE 3
             T == Kinds \X Priorities
             tail == IF ref = "no" THEN <<<<"j7", 5>>>> ELSE <<>>
             s == <<<<"j2", band>>, <<"j3", band>>, <<"j4", 5>>>>
             u == <<<<"j2", 3>>, <<"j3", 3>>, <<"j4", 5>>>>
  <2>1. NextJobsAfter(k, "unknown") = u \o <<>> /\ NextJobsAfter(k, ref) = s \o tail
    BY <1>2 DEF NextJobsAfter
  <2>2. band \in Priorities /\ <<"j7", 5>> \in T /\ <<"j4", 5>> \in T
    BY DEF Priorities, Kinds
  <2>3. tail \in Seq(T)
    <3>1. <<<<"j7", 5>>>> \in Seq(T) /\ <<>> \in Seq(T)
      BY <2>2
    <3> QED
      BY <3>1
  <2>4. s \in Seq(T) /\ u \in Seq(T) /\ Len(s) = 3 /\ Len(u) = 3
    <3>1. <<"j2", band>> \in T /\ <<"j3", band>> \in T /\ <<"j2", 3>> \in T /\ <<"j3", 3>> \in T
      BY <2>2 DEF Kinds, Priorities
    <3> HIDE DEF T, band
    <3> QED
      BY <2>2, <3>1
  <2>5. \A m \in 1..3 : s[m][1] = u[m][1] /\ u[m][1] \in Kinds
    BY DEF Kinds
  <2> HIDE DEF s, u, tail, T
  <2>6. u \o <<>> = u
    BY <2>4, ConcatEmptySeq
  <2>7. n \in 1..3
    BY <2>1, <2>4, <2>6, LenProperties
  <2>8. n \in DOMAIN (s \o tail) /\ (s \o tail)[n] = s[n]
    <3>1. /\ s \o tail \in Seq(T) /\ Len(s \o tail) = Len(s) + Len(tail)
          /\ \A m \in 1..(Len(s) + Len(tail)) : m <= Len(s) => (s \o tail)[m] = s[m]
      BY <2>3, <2>4, ConcatProperties
    <3>2. Len(tail) \in Nat /\ DOMAIN (s \o tail) = 1..(3 + Len(tail))
      BY <2>3, <2>4, <3>1, LenProperties
    <3> QED
      BY <2>4, <2>7, <3>1, <3>2
  <2>9. NextJobsAfter(k, "unknown")[n] = u[n] /\ NextJobsAfter(k, ref)[n] = s[n]
    BY <2>1, <2>6, <2>8
  <2> QED
    BY <2>1, <2>5, <2>7, <2>8, <2>9
<1>3. CASE k = "j3"
  BY <1>3 DEF NextJobsAfter, Kinds
<1>4. CASE k \notin {"j1", "j1_5", "j3"}
  <2>1. NextJobsAfter(k, "unknown") = <<>>
    BY <1>4 DEF NextJobsAfter
  <2> QED
    BY <2>1
<1> QED
  BY <1>1, <1>2, <1>3, <1>4

\* A row that is computed is never the absent one, and is ok only for a job that is done.
LEMMA ApplyOutcomeStates ==
    ASSUME NEW r \in Rows, NEW o \in AllOutcomes
    PROVE  /\ ApplyOutcome(r, o).state # "none"
           /\ ApplyOutcome(r, o).state = "ok" => o = "done"
<1>1. [r EXCEPT !.state = "queued"].state = "queued"
  BY DEF Rows
<1>2. CASE o = "done"
  BY <1>2 DEF ApplyOutcome
<1>3. CASE o = "partial"
  BY <1>1, <1>3 DEF ApplyOutcome
<1>4. CASE o = "transient"
  BY <1>4 DEF ApplyOutcome
<1>5. CASE o = "hard"
  BY <1>5 DEF ApplyOutcome
<1> QED
  BY <1>2, <1>3, <1>4, <1>5 DEF AllOutcomes

\* A job that is done queues every kind that follows it, for its own project.
LEMMA FollowUpsHold ==
    ASSUME NEW j \in Job, NEW r, r.state = "ok", NEW ref,
           NEW n \in DOMAIN NextJobsAfter(j.kind, "unknown")
    PROVE  InQueue(FollowUps(j, "done", r, ref), ProjectOf[j.loc],
                   NextJobsAfter(j.kind, "unknown")[n][1])
<1> DEFINE next == NextJobsAfter(j.kind, ref)
           f == [i \in DOMAIN next |-> NewJob(next[i][1], j.loc, j.class, next[i][2])]
           k == NextJobsAfter(j.kind, "unknown")[n][1]
<1>1. FollowUps(j, "done", r, ref) = f
  BY DEF FollowUps, Requeues
<1>2. j.kind \in Kinds
  BY DEF Job
<1>3. PICK m \in DOMAIN next : next[m][1] = k
  BY <1>2, NextHolds
<1> HIDE DEF next, k
<1>4. f[m].kind = k /\ f[m].loc = j.loc
  BY <1>3 DEF NewJob
<1> QED
  BY <1>1, <1>3, <1>4 DEF InQueue, IsFor, k
\* What a step must keep for a chain to go on: a job once done has a row; a job is dropped only
\* from a project that says so; and only a worker that has settled has something left to queue.
ChainsInv ==
    /\ ChainsGoOn
    /\ \A w \in Workers : at[w] = "follow" /\ refusals = 0
                              => row[ProjectOf[job[w].loc]][job[w].kind].state # "none"
    /\ \A w \in Workers : at[w] = "release" => ProjectOf[job[w].loc] \in dropped
    /\ \A w \in Workers : at[w] # "follow" => todo[w] = <<>>

\* The follow-ups of every done job are pending or have their row.
Follows(p, k) == \A n \in DOMAIN NextJobsAfter(k, "unknown") :
                    \/ row[p][NextJobsAfter(k, "unknown")[n][1]].state # "none"
                    \/ Pending(p, NextJobsAfter(k, "unknown")[n][1])

LEMMA ChainsAre ==
    ChainsGoOn <=> \A p \in Projects \ dropped, k \in Kinds :
                      row[p][k].state = "ok" /\ refusals = 0 => Follows(p, k)
BY DEF ChainsGoOn, Follows

\* A row that is there stays, and only a settle makes one ok.
LEMMA RowsStay ==
    ASSUME IInv, [Next]_vars, NEW p \in Projects, NEW k \in Kinds
    PROVE  /\ row[p][k].state # "none" => row'[p][k].state # "none"
           /\ row'[p][k].state = "ok" => row[p][k].state = "ok" \/ \E w \in Workers : Settle(w)
<1>1. ASSUME NEW w \in Workers, Settle(w)
      PROVE  row[p][k].state # "none" => row'[p][k].state # "none"
  <2> DEFINE q == ProjectOf[job[w].loc]
             r == ApplyOutcome(prev[w], result[w])
  <2>1. job[w] \in Job /\ result[w] \in AllOutcomes /\ prev[w] \in Rows
    BY <1>1 DEF Settle, Goto, IInv, TypeInv, TypeOK, Carrying, Holders, Rows
  <2>2. r.state # "none"
    BY <2>1, ApplyOutcomeStates
  <2>3. q \in Projects /\ job[w].kind \in Kinds
    BY <2>1, ProjectOfAssumption DEF Job
  <2>4. row' = [row EXCEPT ![q][job[w].kind] = r] \/ UNCHANGED row
    BY <1>1 DEF Settle
  <2> HIDE DEF r, q
  <2>5. row \in [Projects -> [Kinds -> Rows]]
    BY DEF IInv, TypeInv, TypeOK, Rows
  <2>6. CASE row' = [row EXCEPT ![q][job[w].kind] = r]
    <3>1. row'[p] = IF p = q THEN [row[q] EXCEPT ![job[w].kind] = r] ELSE row[p]
      BY <2>3, <2>5, <2>6
    <3>2. row'[p][k] = r \/ row'[p][k] = row[p][k]
      BY <2>3, <2>5, <3>1
    <3> QED
      BY <2>2, <3>2
  <2>7. CASE UNCHANGED row
    BY <2>7
  <2> QED
    BY <2>4, <2>6, <2>7
<1>2. ASSUME NEW q \in Projects, ResetRows(q)
      PROVE  /\ row[p][k].state # "none" => row'[p][k].state # "none"
             /\ row'[p][k].state = "ok" => row[p][k].state = "ok"
  <2>1. row'[p][k] = [state |-> "queued", fails |-> 0] \/ row'[p][k] = row[p][k]
    BY <1>2 DEF ResetRows, IInv, TypeInv, TypeOK
  <2> QED
    BY <2>1
<1>3. CASE UNCHANGED row
  BY <1>3
<1> QED
  BY <1>1, <1>2, <1>3
     DEF Next, Work, HandOff, Asked, LocationIndexed, LocationVisible, EnqueueVisible, RemoveLocation,
         Due, RequestStop, Take, Exit, Check, Run, Load, Follow, Release, vars, indexVars

\* An enqueue adds the job's work to the queue and keeps the rest.
LEMMA EnqueueKeeps ==
    ASSUME IInv, NEW j \in Job, Enqueue(j), NEW p, NEW k, InQueue(ready, p, k) \/ IsFor(j, p, k)
    PROVE  InQueue(ready', p, k)
BY PushKeeps DEF Enqueue, IInv, TypeInv, TypeOK

\* What is pending stays pending or is settled, while nothing of its project is dropped and no
\* transaction is refused.
LEMMA PendingStays ==
    ASSUME IInv, ChainsInv, [Next]_vars, NEW p \in Projects \ dropped', NEW k \in Kinds,
           refusals' = 0, Pending(p, k)
    PROVE  Pending(p, k)' \/ row[p][k].state # "none"
<1>0. /\ ready \in Seq(Job) /\ at \in [Workers -> Places] /\ todo \in [Workers -> Seq(Job)]
      /\ job \in [Workers -> Job \cup {NoJob}] /\ \A w \in Holders : job[w] \in Job
  BY DEF IInv, TypeInv, TypeOK, Carrying
<1>1. \/ InQueue(ready, p, k)
      \/ \E w \in Holders : IsFor(job[w], p, k) \/ InQueue(todo[w], p, k)
  BY PendingIs
<1>p. /\ InQueue(ready', p, k) => Pending(p, k)'
      /\ \A w \in Holders' : IsFor(job'[w], p, k) \/ InQueue(todo'[w], p, k) => Pending(p, k)'
  BY DEF Pending, InQueue, IsFor
<1>2. ASSUME InQueue(ready, p, k) => InQueue(ready', p, k),
             \A w \in Holders : w \in Holders' /\ job'[w] = job[w] /\ todo'[w] = todo[w]
      PROVE  Pending(p, k)'
  BY <1>1, <1>p, <1>2
<1>3. ASSUME UNCHANGED <<at, job, todo>>, InQueue(ready, p, k) => InQueue(ready', p, k)
      PROVE  Pending(p, k)'
  BY <1>2, <1>3 DEF Holders
<1>4. CASE LocationIndexed
  <2>1. Head(indexed) \in Job
    BY <1>4, HeadTailProperties DEF LocationIndexed, IInv, TypeInv, TypeOK
  <2>2. UNCHANGED <<at, job, todo>> /\ Enqueue(Head(indexed))
    BY <1>4 DEF LocationIndexed
  <2> QED
    BY <1>3, <2>1, <2>2, EnqueueKeeps
<1>5. CASE EnqueueVisible
  <2>1. Head(visible) \in Job
    BY <1>5, HeadTailProperties DEF EnqueueVisible, IInv, TypeInv, TypeOK
  <2>2. UNCHANGED <<at, job, todo>> /\ Enqueue(Head(visible))
    BY <1>5 DEF EnqueueVisible
  <2> QED
    BY <1>3, <2>1, <2>2, EnqueueKeeps
<1>6. ASSUME NEW i \in DOMAIN ready, Due(i) PROVE Pending(p, k)'
  <2>1. \A n \in DOMAIN ready : ready[n] \in Job
    BY <1>0, LenProperties, ElementOfSeq
  <2>2. DOMAIN ready' = DOMAIN ready /\ UNCHANGED <<at, job, todo>>
    BY <1>6 DEF Due
  <2>3. \A n \in DOMAIN ready : ready'[n].kind = ready[n].kind /\ ready'[n].loc = ready[n].loc
    BY <1>6, <2>1 DEF Due, Job
  <2>4. InQueue(ready, p, k) => InQueue(ready', p, k)
    BY <2>2, <2>3 DEF InQueue, IsFor
  <2> QED
    BY <1>3, <2>2, <2>4
<1>7. ASSUME NEW w \in Workers, Take(w) PROVE Pending(p, k)'
  <2>1. PICK i \in DOMAIN ready : job' = [job EXCEPT ![w] = ready[i]] /\ ready' = Without(ready, i)
    BY <1>7 DEF Take
  <2>2. /\ at[w] = "take" /\ at' = [at EXCEPT ![w] = "check"] /\ todo' = todo
    BY <1>7 DEF Take, Goto
  <2>3. w \in Holders' /\ job'[w] = ready[i]
    BY <1>0, <2>1, <2>2 DEF Holders
  <2>4. \A v \in Holders : v \in Holders' /\ job'[v] = job[v] /\ todo'[v] = todo[v]
    BY <1>0, <2>1, <2>2 DEF Holders
  <2>5. i \in 1..Len(ready)
    BY <1>0, LenProperties
  <2>6. CASE InQueue(ready, p, k)
    <3>1. InQueue(ready', p, k) \/ IsFor(ready[i], p, k)
      BY <1>0, <2>1, <2>5, <2>6, WithoutKeeps
    <3> QED
      BY <1>p, <2>3, <3>1
  <2>7. CASE ~InQueue(ready, p, k)
    BY <1>2, <2>4, <2>7
  <2> QED
    BY <2>6, <2>7
<1>8. ASSUME NEW w \in Workers, Exit(w) \/ Check(w) \/ Run(w) \/ Load(w) PROVE Pending(p, k)'
  <2>1. /\ UNCHANGED <<ready, job, todo>>
        /\ \E from, to \in Places : /\ Goto(w, from, to)
                                    /\ (from = "take" \/ to \notin {"take", "exited"})
    BY <1>8 DEF Exit, Check, Run, Load, queueVars, Goto, Places
  <2>2. \A v \in Holders : v \in Holders'
    BY <1>0, <2>1 DEF Holders, Goto
  <2> QED
    BY <1>2, <2>1, <2>2
<1>9. ASSUME NEW w \in Workers, Settle(w) PROVE Pending(p, k)'
  <2>1. at[w] = "settle" /\ at' = [at EXCEPT ![w] = "follow"] /\ UNCHANGED <<ready, job>>
    BY <1>9 DEF Settle, Goto, queueVars
  <2>2. todo[w] = <<>>
    BY <2>1 DEF ChainsInv
  <2>3. \A v \in Workers : v # w => todo'[v] = todo[v]
    BY <1>0, <1>9 DEF Settle
  <2>4. \A v \in Holders : v \in Holders' /\ job'[v] = job[v]
    BY <1>0, <2>1 DEF Holders
  <2>5. CASE \E v \in Holders : IsFor(job[v], p, k)
    BY <1>p, <2>4, <2>5
  <2>6. CASE \E v \in Holders : InQueue(todo[v], p, k)
    <3>1. PICK v \in Holders : InQueue(todo[v], p, k)
      BY <2>6
    <3>2. v # w
      BY <2>2, <3>1 DEF InQueue
    <3>3. todo'[v] = todo[v]
      BY <2>3, <3>2 DEF Holders
    <3> QED
      BY <1>p, <2>4, <3>1, <3>3
  <2>7. CASE InQueue(ready, p, k)
    BY <1>p, <2>1, <2>7
  <2> QED
    BY <1>1, <2>5, <2>6, <2>7
<1>10. ASSUME NEW w \in Workers, Follow(w) PROVE Pending(p, k)'
  <2>1. /\ todo[w] # <<>> /\ todo[w] \in Seq(Job) /\ Enqueue(Head(todo[w]))
        /\ at[w] = "follow" /\ at' = [at EXCEPT ![w] = "follow"]
        /\ UNCHANGED job /\ todo' = [todo EXCEPT ![w] = Tail(todo[w])]
    BY <1>0, <1>10 DEF Follow, Goto
  <2>2. Head(todo[w]) \in Job
    BY <2>1, HeadTailProperties
  <2>3. \A v \in Holders : v \in Holders' /\ job'[v] = job[v]
    BY <1>0, <2>1 DEF Holders
  <2>4. InQueue(ready, p, k) \/ IsFor(Head(todo[w]), p, k) => InQueue(ready', p, k)
    BY <2>1, <2>2, EnqueueKeeps
  <2>5. CASE \E v \in Holders : InQueue(todo[v], p, k)
    <3>1. PICK v \in Holders : InQueue(todo[v], p, k)
      BY <2>5
    <3>2. CASE v = w
      <4>1. InQueue(Tail(todo[w]), p, k) \/ IsFor(Head(todo[w]), p, k)
        BY <2>1, <3>1, <3>2, HeadOrTail
      <4>2. todo'[w] = Tail(todo[w])
        BY <1>0, <2>1
      <4> QED
        BY <1>p, <2>3, <2>4, <3>1, <3>2, <4>1, <4>2
    <3>3. CASE v # w
      <4>1. todo'[v] = todo[v]
        BY <1>0, <2>1, <3>3 DEF Holders
      <4> QED
        BY <1>p, <2>3, <3>1, <4>1
    <3> QED
      BY <3>2, <3>3
  <2>6. CASE InQueue(ready, p, k)
    BY <1>p, <2>4, <2>6
  <2>7. CASE \E v \in Holders : IsFor(job[v], p, k)
    BY <1>p, <2>3, <2>7
  <2> QED
    BY <1>1, <2>5, <2>6, <2>7
<1>11. ASSUME NEW w \in Workers, Release(w) PROVE Pending(p, k)' \/ row[p][k].state # "none"
  <2>1. /\ todo[w] = <<>> /\ at[w] \in {"follow", "release"}
        /\ at' = [at EXCEPT ![w] = "take"] /\ job' = [job EXCEPT ![w] = NoJob]
        /\ UNCHANGED <<ready, todo, refusals, dropped>>
    BY <1>11 DEF Release, boundVars
  <2>2. \A v \in Holders : v # w => v \in Holders' /\ job'[v] = job[v] /\ todo'[v] = todo[v]
    BY <1>0, <2>1 DEF Holders
  <2>3. ~InQueue(todo[w], p, k)
    BY <2>1 DEF InQueue
  <2>4. CASE IsFor(job[w], p, k)
    <3>1. at[w] # "release"
      BY <2>1, <2>4 DEF ChainsInv, IsFor
    <3>2. row[p][k].state # "none"
      BY <2>1, <2>4, <3>1 DEF ChainsInv, IsFor
    <3> QED
      BY <3>2
  <2>5. CASE ~IsFor(job[w], p, k)
    BY <1>1, <1>p, <2>1, <2>2, <2>3, <2>5
  <2> QED
    BY <2>4, <2>5
<1>12. CASE UNCHANGED <<ready, at, job, todo>>
  BY <1>3, <1>12
<1> QED
  BY <1>4, <1>5, <1>6, <1>7, <1>8, <1>9, <1>10, <1>11, <1>12
     DEF Next, Work, HandOff, Asked, LocationVisible, RemoveLocation, ResetRows, RequestStop, vars, queueVars
LEMMA ChainsInit == Init => ChainsInv
<1> SUFFICES ASSUME Init PROVE ChainsInv
  OBVIOUS
<1>1. \A p \in Projects, k \in Kinds : row[p][k].state # "ok"
  BY DEF Init, Fresh
<1>2. ChainsGoOn
  BY <1>1 DEF ChainsGoOn
<1> QED
  BY <1>2 DEF Init, ChainsInv

LEMMA ChainsStep == IInv /\ ChainsInv /\ [Next]_vars => ChainsInv'
<1> SUFFICES ASSUME IInv, ChainsInv, [Next]_vars PROVE ChainsInv'
  OBVIOUS
<1>0. /\ at \in [Workers -> Places] /\ todo \in [Workers -> Seq(Job)]
      /\ row \in [Projects -> [Kinds -> Rows]] /\ refusals \in Nat
      /\ job \in [Workers -> Job \cup {NoJob}] /\ \A w \in Holders : job[w] \in Job
  BY BoundsAssumption DEF IInv, TypeInv, TypeOK, Carrying, Rows
<1>1. refusals' = refusals \/ refusals' = refusals + 1
  BY DEF Next, Work, HandOff, Asked, LocationIndexed, LocationVisible, EnqueueVisible, RemoveLocation,
         ResetRows, Due, RequestStop, Take, Exit, Check, Run, Load, Settle, Follow, Release, vars,
         boundVars
<1>2. dropped \subseteq dropped'
  BY DEF Next, Work, HandOff, Asked, LocationIndexed, LocationVisible, EnqueueVisible, RemoveLocation,
         ResetRows, Due, RequestStop, Take, Exit, Check, Run, Load, Settle, Follow, Release, vars,
         boundVars
<1>3. ASSUME NEW p \in Projects \ dropped', NEW k \in Kinds, row'[p][k].state = "ok", refusals' = 0
      PROVE  Follows(p, k)'
  <2>1. refusals = 0
    BY <1>0, <1>1, <1>3
  <2>2. CASE row[p][k].state = "ok"
    <3>1. Follows(p, k)
      BY <1>2, <1>3, <2>1, <2>2, ChainsAre DEF ChainsInv
    <3>2. \A n \in DOMAIN NextJobsAfter(k, "unknown") : NextJobsAfter(k, "unknown")[n][1] \in Kinds
      BY NextHolds
    <3>3. \A m \in Kinds : Pending(p, m) => Pending(p, m)' \/ row[p][m].state # "none"
      BY <1>3, PendingStays
    <3>4. \A m \in Kinds : row[p][m].state # "none" => row'[p][m].state # "none"
      BY RowsStay
    <3> QED
      BY <3>1, <3>2, <3>3, <3>4 DEF Follows
  <2>3. CASE row[p][k].state # "ok"
    <3>1. PICK w \in Workers : Settle(w)
      BY <1>3, <2>3, RowsStay
    <3> DEFINE q == ProjectOf[job[w].loc]
               r == ApplyOutcome(prev[w], result[w])
    <3>2. /\ w \in Holders' /\ at[w] = "settle"
          /\ job' = job /\ job[w] \in Job /\ result[w] \in AllOutcomes /\ prev[w] \in Rows
          /\ todo' = [todo EXCEPT ![w] = FollowUps(job[w], result[w], r, reference[q])]
          /\ row' = [row EXCEPT ![q][job[w].kind] = r]
      <4>1. at[w] = "settle" /\ at' = [at EXCEPT ![w] = "follow"]
        BY <3>1 DEF Settle, Goto
      <4>2. job' = job /\ todo' = [todo EXCEPT ![w] = FollowUps(job[w], result[w], r, reference[q])]
        BY <3>1 DEF Settle
      <4>3. prev[w] \in Rows /\ result[w] \in AllOutcomes /\ job[w] \in Job
        BY <4>1 DEF IInv, TypeInv, TypeOK, Carrying, Holders, Rows
      <4>4. row' = [row EXCEPT ![q][job[w].kind] = r] \/ row' = row
        BY <3>1 DEF Settle
      <4>5. row' # row
        BY <1>3, <2>3
      <4> QED
        BY <1>0, <4>1, <4>2, <4>3, <4>4, <4>5 DEF Holders
    <3>3. q \in Projects /\ job[w].kind \in Kinds
      BY <3>2, ProjectOfAssumption DEF Job
    <3>4. p = q /\ k = job[w].kind /\ r.state = "ok"
      <4> HIDE DEF q, r
      <4>1. row'[p] = IF p = q THEN [row[q] EXCEPT ![job[w].kind] = r] ELSE row[p]
        BY <1>0, <3>2, <3>3
      <4>2. p = q
        BY <1>3, <2>3, <4>1
      <4>3. row'[p][k] = IF k = job[w].kind THEN r ELSE row[p][k]
        BY <1>0, <3>3, <4>1, <4>2
      <4> QED
        BY <1>3, <2>3, <4>2, <4>3
    <3>5. result[w] = "done"
      BY <3>2, <3>4, ApplyOutcomeStates
    <3>6. ASSUME NEW n \in DOMAIN NextJobsAfter(k, "unknown")
          PROVE  Pending(p, NextJobsAfter(k, "unknown")[n][1])'
      <4>1. todo'[w] = FollowUps(job[w], "done", r, reference[q])
        BY <1>0, <3>2, <3>5
      <4> HIDE DEF r
      <4>2. InQueue(FollowUps(job[w], "done", r, reference[q]), q, NextJobsAfter(job[w].kind, "unknown")[n][1])
        BY <3>2, <3>4, FollowUpsHold
      <4>3. InQueue(todo'[w], p, NextJobsAfter(k, "unknown")[n][1])
        BY <3>4, <4>1, <4>2
      <4> HIDE DEF q
      <4> QED
        BY <3>2, <4>3 DEF Pending, InQueue, IsFor
    <3> QED
      BY <3>6 DEF Follows
  <2> QED
    BY <2>2, <2>3
<1>4. ChainsGoOn'
  BY <1>3, ChainsAre DEF ChainsGoOn, Follows
<1>5. ASSUME NEW w \in Workers, at'[w] = "follow", refusals' = 0
      PROVE  row'[ProjectOf[job'[w].loc]][job'[w].kind].state # "none"
  <2>1. refusals = 0
    BY <1>0, <1>1, <1>5
  <2>2. CASE at[w] = "follow" /\ job'[w] = job[w]
    <3>1. job[w] \in Job
      BY <1>0, <2>2 DEF Holders
    <3>2. ProjectOf[job[w].loc] \in Projects /\ job[w].kind \in Kinds
      BY <3>1, ProjectOfAssumption DEF Job
    <3> QED
      BY <2>1, <2>2, <3>2, RowsStay DEF ChainsInv
  <2>3. CASE Settle(w)
    <3> DEFINE q == ProjectOf[job[w].loc]
               r == ApplyOutcome(prev[w], result[w])
    <3>1. at[w] = "settle" /\ UNCHANGED job
      BY <2>3 DEF Settle, Goto
    <3>2. prev[w] \in Rows /\ result[w] \in AllOutcomes /\ job[w] \in Job
      BY <3>1 DEF IInv, TypeInv, TypeOK, Carrying, Holders, Rows
    <3>3. q \in Projects /\ job[w].kind \in Kinds
      BY <3>2, ProjectOfAssumption DEF Job
    <3>4. row' = [row EXCEPT ![q][job[w].kind] = r]
      <4>1. \/ row' = [row EXCEPT ![q][job[w].kind] = r]
            \/ refusals' = refusals + 1
        BY <2>3 DEF Settle
      <4> QED
        BY <1>5, <2>1, <4>1
    <3>5. r.state # "none"
      BY <3>2, ApplyOutcomeStates
    <3> HIDE DEF q, r
    <3>6. row'[q] = [row[q] EXCEPT ![job[w].kind] = r]
      BY <1>0, <3>3, <3>4
    <3>7. row'[q][job[w].kind] = r
      BY <1>0, <3>3, <3>6
    <3> QED
      BY <3>1, <3>5, <3>7 DEF q
  <2>4. (at[w] = "follow" /\ job'[w] = job[w]) \/ Settle(w)
    <3>1. ASSUME NEW v \in Workers, Work(v)
          PROVE  (at[w] = "follow" /\ job'[w] = job[w]) \/ Settle(w)
      <4>1. CASE v # w
        BY <1>0, <1>5, <3>1, <4>1
           DEF Work, Take, Exit, Check, Run, Load, Settle, Follow, Release, Goto
      <4>2. CASE v = w
        BY <1>0, <1>5, <3>1, <4>2
           DEF Work, Take, Exit, Check, Run, Load, Follow, Release, Goto
      <4> QED
        BY <4>1, <4>2
    <3>2. CASE UNCHANGED <<at, job>>
      BY <1>5, <3>2
    <3> QED
      BY <3>1, <3>2
         DEF Next, HandOff, Asked, LocationIndexed, LocationVisible, EnqueueVisible, RemoveLocation,
             ResetRows, Due, RequestStop, vars
  <2> QED
    BY <2>2, <2>3, <2>4
<1>6. ASSUME NEW w \in Workers, at'[w] = "release" PROVE ProjectOf[job'[w].loc] \in dropped'
  <2>1. ASSUME NEW v \in Workers, Work(v) PROVE ProjectOf[job'[w].loc] \in dropped'
    <3>1. CASE at[w] = "release" /\ job'[w] = job[w]
      BY <1>2, <3>1 DEF ChainsInv
    <3>2. CASE Check(w)
      BY <1>0, <1>6, <3>2 DEF Check, Goto
    <3>3. (at[w] = "release" /\ job'[w] = job[w]) \/ Check(w)
      <4>1. CASE v # w
        BY <1>0, <1>6, <2>1, <4>1
           DEF Work, Take, Exit, Check, Run, Load, Settle, Follow, Release, Goto
      <4>2. CASE v = w
        BY <1>0, <1>6, <2>1, <4>2
           DEF Work, Take, Exit, Run, Load, Settle, Follow, Release, Goto
      <4> QED
        BY <4>1, <4>2
    <3> QED
      BY <3>1, <3>2, <3>3
  <2>2. CASE UNCHANGED <<at, job>>
    BY <1>2, <1>6, <2>2 DEF ChainsInv
  <2> QED
    BY <2>1, <2>2
       DEF Next, HandOff, Asked, LocationIndexed, LocationVisible, EnqueueVisible, RemoveLocation,
           ResetRows, Due, RequestStop, vars
<1>7. ASSUME NEW w \in Workers, at'[w] # "follow" PROVE todo'[w] = <<>>
  <2>1. ASSUME NEW v \in Workers, Work(v) PROVE todo'[w] = <<>>
    <3>1. CASE v # w
      <4>1. at[w] # "follow" /\ todo'[w] = todo[w]
        BY <1>0, <1>7, <2>1, <3>1
           DEF Work, Take, Exit, Check, Run, Load, Settle, Follow, Release, Goto
      <4> QED
        BY <4>1 DEF ChainsInv
    <3>2. CASE v = w
      <4>1. todo'[w] = todo[w] /\ (at[w] = "follow" => todo[w] = <<>>)
        BY <1>0, <1>7, <2>1, <3>2
           DEF Work, Take, Exit, Check, Run, Load, Settle, Follow, Release, Goto
      <4> QED
        BY <4>1 DEF ChainsInv
    <3> QED
      BY <3>1, <3>2
  <2>2. CASE UNCHANGED <<at, todo>>
    BY <1>7, <2>2 DEF ChainsInv
  <2> QED
    BY <2>1, <2>2
       DEF Next, HandOff, Asked, LocationIndexed, LocationVisible, EnqueueVisible, RemoveLocation,
           ResetRows, Due, RequestStop, vars
<1> QED
  BY <1>4, <1>5, <1>6, <1>7 DEF ChainsInv

\* A chain is not lost: of a project none of whose jobs was dropped, while no transaction was
\* refused, whatever follows a job recorded as done has a row or is still coming, for any number
\* of workers, copies, stores, pushes and retries.
THEOREM ChainsAreKept == Spec => []ChainsGoOn
<1>1. IInv /\ ChainsInv /\ [Next]_vars => ChainsInv'
  BY ChainsStep
<1>2. ChainsInv => ChainsGoOn
  BY DEF ChainsInv
<1> QED
  BY <1>1, <1>2, ChainsInit, IInvariant, PTL DEF Spec
=============================================================================
