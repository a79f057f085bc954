---------------------- MODULE SyncAndRestore_proofs ----------------------
(***************************************************************************)
(* Proofs about two components that share no state, in two parts.          *)
(*                                                                         *)
(* SyncRunner: its types; that a row is running only while the thread      *)
(* holds it; that an account at rest has its token and a token its         *)
(* account; and that parks and refused tokens are kept.                    *)
(*                                                                         *)
(* Restore: for any paths, repositories, commits, exports and rebuilds,    *)
(* what was earned for a repository of its own is its project's, and a     *)
(* record of one waits no longer than until it is found.  Both speak of    *)
(* what is on disk now; RestoreInv says how the index and every record     *)
(* stand to it: a family's copies are in one project, a project has a      *)
(* copy and its lineage from one, and a repository of its own is the only  *)
(* copy of a project that is as the repository is.                         *)
(***************************************************************************)
EXTENDS SyncRunner, Restore, FiniteSetTheorems, SequenceTheorems, WellFoundedInduction, TLAPS

-----------------------------------------------------------------------------
(* The inductive invariants.                                               *)

States == InFlight \cup {"none", "ok", "old", "deferred", "blocked"}
RowSet == [st : States, fails : 0..3]
Answers == {"done", "not_found", "next_page", "throttled", "unauthorized", "transient"}

(* The types TypeOK leaves out, and what the connects leave room for.      *)
OthersTyped ==
    /\ secret \in BOOLEAN /\ outstanding \in BOOLEAN /\ work \in BOOLEAN
    /\ stopping \in BOOLEAN /\ crossed \in BOOLEAN
    /\ reader \in Accounts \cup {0} /\ outcome \in Answers \cup {"none"}
    /\ command \in {"none", "flag", "disconnect"}
    /\ pump \in [at : {"none", "polling", "stored"}, upgrades : Accounts \cup {0}]
    /\ connects \in 0..MaxConnects
    /\ pump.at # "none" /\ pump.upgrades = 0 => connects < MaxConnects
    /\ flows \in Nat /\ asks \in Nat /\ trouble \in Nat /\ restarts \in Nat
    /\ stuck \subseteq Tasks

(* What the thread holds, by where it is.                                  *)
HandFitsLoop ==
    /\ loop \in {"off", "top", "poll", "take"} => hand = NoTask
    /\ loop \in {"verdict", "token", "request", "settle"} => hand \in Tasks
    /\ loop \in {"token", "request"} => reader \in Accounts
    /\ loop = "settle" => outcome \in Answers

Typed == TypeOK /\ OthersTyped /\ HandFitsLoop

(* The row of the task in hand is as the take left it, or went.            *)
HeldIsRunning == hand \in Tasks => rows[hand].st \in {"running", "none"}

(* Where the secret is, between the two halves of a connect and those of a *)
(* disconnect.                                                             *)
SecretFollows ==
    /\ command = "disconnect" => ~secret /\ pump.at # "stored"
    /\ pump.at = "stored" => secret /\ (pump.upgrades # 0 => pump.upgrades = account)
    /\ command # "disconnect" /\ pump.at # "stored" => (secret <=> account # 0)

SecretInv == ~crossed => SecretFollows

-----------------------------------------------------------------------------
(* The operators on the rows.                                              *)

Rows == [Tasks -> RowSet]

(* A fresh row, and a queued one, are rows.                                *)
LEMMA FreshRows == NoRow \in RowSet /\ Queued \in RowSet
  BY DEF NoRow, Queued, Row, RowSet, States, InFlight

(* A row that changes its state only is a row.                             *)
LEMMA RowChanges ==
  ASSUME NEW r \in RowSet, NEW st \in States
  PROVE  Row(st, r.fails) \in RowSet /\ [r EXCEPT !.st = st] \in RowSet
         /\ Row(st, r.fails).st = st /\ [r EXCEPT !.st = st].st = st
  BY DEF Row, RowSet

(* The schedule queues a listing that was never run, or is an interval old.*)
LEMMA SweptMoves ==
  ASSUME NEW rs \in Rows
  PROVE  /\ Swept(rs) \in Rows
         /\ \A t \in Tasks : Swept(rs)[t] = rs[t]
                             \/ (rs[t].st \in {"none", "old"} /\ Swept(rs)[t].st = "queued")
  BY FreshRows DEF Swept, DueListings, Rows, Queued, Row

(* A start queues what ran, and leaves the rest.                           *)
LEMMA RequeuedMoves ==
  ASSUME NEW rs \in Rows
  PROVE  /\ Requeued(rs) \in Rows
         /\ \A t \in Tasks : Requeued(rs)[t].st = IF rs[t].st = "running" THEN "queued" ELSE rs[t].st
  <1>1. \A t \in Tasks : rs[t] \in RowSet /\ Row("queued", rs[t].fails) \in RowSet
                         /\ Row("queued", rs[t].fails).st = "queued"
    BY RowChanges DEF Rows, States, InFlight
  <1> QED BY <1>1 DEF Requeued, Rows

(* What an ask queues was neither in flight nor blocked.                   *)
LEMMA DrainedMoves ==
  ASSUME NEW rs \in Rows, NEW asked
  PROVE  /\ Drained(rs, asked) \in Rows
         /\ \A t \in Tasks : Drained(rs, asked)[t] = rs[t]
              \/ (rs[t].st \in {"none", "ok", "old", "deferred"} /\ Drained(rs, asked)[t].st = "queued")
  <1>1. \A t \in Tasks : rs[t].st \in States
    BY DEF Rows, RowSet
  <1>2. Queued.st = "queued"
    BY DEF Queued, Row
  <1> QED BY <1>1, <1>2, FreshRows DEF Drained, Rows, States

(* A promotion queues the parks whose clock has come.                      *)
LEMMA PromotedMoves ==
  ASSUME NEW rs \in Rows
  PROVE  /\ Promoted(rs) \in Rows
         /\ \A t \in Tasks : Promoted(rs)[t].st = IF rs[t].st = "due" THEN "queued" ELSE rs[t].st
  <1>1. \A t \in Tasks : rs[t] \in RowSet /\ Row("queued", rs[t].fails) \in RowSet
                         /\ Row("queued", rs[t].fails).st = "queued"
    BY RowChanges DEF Rows, States, InFlight
  <1> QED BY <1>1 DEF Promoted, Rows

(* What a take may run, against the rows it read.                          *)
LEMMA RunnableMoves ==
  ASSUME rows \in Rows
  PROVE  /\ Runnable \in Rows
         /\ \A t \in Tasks : Runnable[t].st = rows[t].st
              \/ (rows[t].st \in {"none", "ok", "old", "deferred", "due"} /\ Runnable[t].st = "queued")
  <1>1. Drained(rows, inbox) \in Rows
    BY DrainedMoves
  <1> QED BY <1>1, DrainedMoves, PromotedMoves DEF Runnable

(* What is picked is a queued task.                                        *)
LEMMA PicksAreQueued ==
  ASSUME NEW rs, NEW t \in Picks(rs) PROVE t \in Tasks /\ rs[t].st = "queued"
  BY DEF Picks

(* An outcome settles a row, and leaves it neither running nor a park that *)
(* was not asked for.                                                      *)
LEMMA SettledMoves ==
  ASSUME NEW r \in RowSet, NEW answer \in Answers
  PROVE  Settled(r, answer) \in RowSet /\ Settled(r, answer).st # "running"
  <1> USE DEF RowSet, States, InFlight, Row
  <1>1. CASE answer = "transient"
    <2>1. r.fails + 1 < 3 => r.fails + 1 \in 0..3
      OBVIOUS
    <2>2. Settled(r, answer) = IF r.fails + 1 >= 3 THEN Row("deferred", 3) ELSE Row("waiting", r.fails + 1)
      BY <1>1 DEF Settled
    <2> QED BY <2>1, <2>2
  <1>2. CASE answer # "transient"
    <2>1. Settled(r, answer) \in {Row("ok", 0), Row("ok", r.fails), Row("queued", 0),
                                  Row("parked", r.fails), Row("blocked", r.fails)}
      BY <1>2 DEF Settled, Answers
    <2> QED BY <2>1
  <1> QED BY <1>1, <1>2

(* A listing and a probe are of an account; no task is none.               *)
LEMMA TaskKinds ==
  /\ NoTask \notin Tasks /\ Remote \in Tasks
  /\ \A t \in Tasks : t = Remote \/ (t.key \in Accounts /\ t \in AccountTasks(t.key))
  /\ \A k \in Accounts : Probe(k) \in Tasks /\ Listing(k) \in Tasks
  /\ \A t \in Tasks : t.kind = "account_repos" => t.key \in Accounts
  <1> USE DEF AccountTasks, Listing, Probe, Remote
  <1>1. \A t \in Tasks : t = Remote \/ \E k \in Accounts : t = Listing(k) \/ t = Probe(k)
    BY DEF Tasks
  <1>2. NoTask \notin Tasks /\ Remote \in Tasks
    <2>1. \A t \in Tasks : t.kind # NoTask.kind
      BY <1>1 DEF NoTask
    <2>2. Remote \in Tasks
      BY Zenon DEF Tasks
    <2> QED BY <2>1, <2>2
  <1>3. \A k \in Accounts : Probe(k) \in Tasks /\ Listing(k) \in Tasks
    BY DEF Tasks
  <1> QED BY <1>1, <1>2, <1>3

(* What a request may come back with is an answer.                         *)
LEMMA OutcomesAreAnswers == ASSUME NEW t PROVE Outcomes(t) \subseteq Answers
  BY DEF Outcomes, Answers

-----------------------------------------------------------------------------
(* Types.                                                                  *)

(* The rows' type, by its name.                                            *)
LEMMA RowsTyped == ASSUME TypeOK PROVE rows \in Rows
  BY DEF TypeOK, Rows, RowSet, States

(* What a start and the end of a process do to the thread's memory.        *)
LEMMA BlankTypes ==
  ASSUME Typed, Blank, loop' = "off"
  PROVE  inbox' \subseteq Tasks /\ hand' = NoTask /\ HandFitsLoop'
         /\ outstanding' \in BOOLEAN /\ work' \in BOOLEAN /\ stopping' \in BOOLEAN
         /\ reader' = 0 /\ outcome' = "none"
  BY DEF Blank, HandFitsLoop

(* A step of the thread keeps the types.                                   *)
LEMMA ThreadTypes ==
  ASSUME Typed, Thread \/ Start \/ StartRefused \/ PollComes
  PROVE  Typed'
  <1> USE DEF Typed, OthersTyped, HandFitsLoop, Goto
  <1>a. rows \in Rows
    BY RowsTyped
  <1>b. ASSUME rows' \in Rows PROVE rows' \in [Tasks -> [st : InFlight \cup {"none", "ok", "old", "deferred", "blocked"}, fails : 0..3]]
    BY <1>b DEF Rows, RowSet, States
  <1>1. CASE Start
    <2>1. rows' \in Rows
      BY <1>1, <1>a, RequeuedMoves, SweptMoves DEF Start
    <2> QED BY <1>1, <1>b, <2>1 DEF Start, TypeOK, turn, actors, bounds, history, AnyOutstanding
  <1>2. CASE StartRefused
    BY <1>2 DEF StartRefused, TypeOK, turn, actors
  <1>3. CASE PollComes \/ Top
    BY <1>3 DEF PollComes, Top, TypeOK, turn, actors, bounds, history
  <1>4. CASE Exit
    BY <1>4, BlankTypes DEF Exit, TypeOK, NoFlow, bounds
  <1>5. CASE Poll
    <2>1. rows' \in Rows
      BY <1>5, <1>a, SweptMoves DEF Poll
    <2> QED BY <1>5, <1>b, <2>1 DEF Poll, TypeOK, turn, actors, bounds, history, AnyOutstanding
  <1>6. CASE TakeNone
    <2>1. rows' \in Rows
      BY <1>6, <1>a, RunnableMoves DEF TakeNone
    <2> QED BY <1>6, <1>b, <2>1 DEF TakeNone, TypeOK, turn, actors, bounds, history, AnyOutstanding
  <1>7. ASSUME NEW t \in Tasks, Take(t) PROVE Typed'
    <2>1. rows' \in Rows
      <3>1. Runnable \in Rows /\ "running" \in States
        BY <1>a, RunnableMoves DEF States, InFlight
      <3>2. [Runnable[t] EXCEPT !.st = "running"] \in RowSet
        BY <3>1, RowChanges DEF Rows
      <3> QED BY <1>7, <3>1, <3>2 DEF Take, Rows
    <2> QED BY <1>7, <1>b, <2>1 DEF Take, TypeOK, actors, bounds, history
  <1>8. CASE TakeRefused
    BY <1>8 DEF TakeRefused, TypeOK, turn, actors
  <1>9. CASE Look
    BY <1>9 DEF Look, TypeOK, turn, actors, bounds, history
  <1>10. CASE Store
    <2>1. hand \in Tasks \/ hand = NoTask
      BY DEF TypeOK
    <2>2. loop' \in {"verdict", "top"} /\ (loop' = "verdict" => hand \in Tasks) /\ (loop' = "top" => hand = NoTask)
      BY <1>10, <2>1, TaskKinds DEF Store
    <2>3. UNCHANGED <<rows, account, secret, budget, inbox, turn, stopping, actors, bounds, history>>
          /\ outstanding' = work /\ work' = FALSE
      BY <1>10 DEF Store
    <2>4. TypeOK'
      BY <2>2, <2>3 DEF TypeOK, turn
    <2>5. OthersTyped'
      BY <2>3 DEF turn, actors, bounds, history
    <2>6. HandFitsLoop'
      BY <2>2, <2>3 DEF turn
    <2> QED BY <2>4, <2>5, <2>6
  <1>11. CASE Verdict
    <2>1. HasAccount(hand) => account \in Accounts
      BY <1>11, TaskKinds DEF Verdict, HasAccount, TypeOK
    <2> QED BY <1>11, <2>1 DEF Verdict, TypeOK, Answers, actors, bounds, history
  <1>12. CASE ReadToken
    BY <1>12 DEF ReadToken, TypeOK, Answers, actors, bounds, history
  <1>13. ASSUME NEW answer \in Outcomes(hand), NEW rate \in Rates, Request(answer, rate) PROVE Typed'
    <2>1. answer \in Answers /\ "transient" \in Answers
      BY OutcomesAreAnswers DEF Answers
    <2>2. rate \in {"unknown", "plenty", "low", "stale", "empty", "spent"}
      BY SyncRunnerAssumption
    <2>3. reader \in Accounts /\ 0 \notin Accounts
      BY <1>13 DEF Request, Accounts
    <2>4. outcome' \in Answers
      BY <1>13, <2>1 DEF Request
    <2>5. budget' = budget \/ (account # 0 /\ budget' = rate)
      BY <1>13, <2>3 DEF Request
    <2>6. trouble' \in Nat
      BY <1>13 DEF Request
    <2> QED BY <1>13, <2>2, <2>4, <2>5, <2>6 DEF Request, TypeOK, actors, history
  <1>14. ASSUME Settling PROVE inbox' \subseteq Tasks /\ HandFitsLoop' /\ hand \in Tasks /\ outcome \in Answers
    <2>1. hand \in Tasks /\ (hand.kind = "account_repos" => Probe(hand.key) \in Tasks)
      BY <1>14, TaskKinds DEF Settling
    <2> QED BY <1>14, <2>1 DEF Settling, TypeOK
  <1>15. CASE Settle
    <2>1. rows' \in Rows
      <3>1. hand \in Tasks /\ Settled(rows[hand], outcome) \in RowSet
        BY <1>15, <1>14, <1>a, SettledMoves DEF Settle, Rows
      <3> QED BY <1>15, <1>a, <3>1 DEF Settle, Rows
    <2> QED BY <1>15, <1>14, <1>b, <2>1 DEF Settle, Settling, TypeOK, actors
  <1>16. CASE SettleRefused
    BY <1>16, <1>14 DEF SettleRefused, Settling, TypeOK, actors
  <1> QED BY <1>1, <1>2, <1>3, <1>4, <1>5, <1>6, <1>7, <1>8, <1>9, <1>10, <1>11, <1>12, <1>13, <1>15,
             <1>16 DEF Thread

(* A step of the others keeps them.                                        *)
LEMMA TypeStep ==
  ASSUME Typed, [Next]_vars
  PROVE  Typed'
  <1> USE DEF Typed, OthersTyped, HandFitsLoop, Goto
  <1>a. rows \in Rows
    BY RowsTyped
  <1>b. ASSUME rows' \in Rows PROVE rows' \in [Tasks -> [st : InFlight \cup {"none", "ok", "old", "deferred", "blocked"}, fails : 0..3]]
    BY <1>b DEF Rows, RowSet, States
  <1>c. Queued \in RowSet /\ NoRow \in RowSet
    BY FreshRows
  <1>d. MaxConnects \in Nat /\ Accounts = 1..MaxConnects
    BY SyncRunnerAssumption DEF Accounts
  <1>1. ASSUME NEW t \in Tasks, ClockComes(t) PROVE Typed'
    <2>1. PICK st \in States : rows' = [rows EXCEPT ![t].st = st]
      <3>1. rows[t].st \in {"parked", "waiting", "ok"}
        BY <1>1 DEF ClockComes
      <3> QED BY <1>1, <3>1 DEF ClockComes, States, InFlight
    <2>2. [rows[t] EXCEPT !.st = st] \in RowSet
      BY <1>a, RowChanges DEF Rows
    <2>3. rows' \in Rows
      BY <1>a, <2>1, <2>2 DEF Rows
    <2>4. UNCHANGED <<account, secret, budget, runner, actors, bounds, history>>
      BY <1>1 DEF ClockComes
    <2> QED BY <1>b, <2>3, <2>4 DEF TypeOK, runner, turn, actors, bounds, history
  <1>2. CASE BudgetResets
    BY <1>2 DEF BudgetResets, TypeOK, runner, turn, actors, bounds, history
  <1>3. CASE Ask
    BY <1>3, TaskKinds DEF Ask, TypeOK, turn, history
  <1>4. CASE SetFlag
    BY <1>4 DEF SetFlag, TypeOK, turn, bounds, history
  <1>5. CASE Requeue
    <2>1. rows' \in Rows
      BY <1>5, <1>a, <1>c DEF Requeue, Rows
    <2> QED BY <1>5, <1>b, <2>1 DEF Requeue, TypeOK, runner, turn, actors, bounds, history
  <1>6. CASE DeleteSecret
    <2>1. crossed' \in BOOLEAN
      BY <1>6 DEF DeleteSecret, Meets
    <2>2. UNCHANGED <<rows, account, budget, runner, pump, bounds, stuck>>
          /\ secret' = FALSE /\ command' = "disconnect"
      BY <1>6 DEF DeleteSecret
    <2>3. TypeOK' /\ HandFitsLoop'
      BY <2>2 DEF TypeOK, runner, turn
    <2>4. OthersTyped'
      BY <2>1, <2>2 DEF runner, turn, bounds
    <2> QED BY <2>3, <2>4
  <1>7. CASE DeleteRows
    <2>1. rows' \in Rows
      BY <1>7, <1>a, <1>c DEF DeleteRows, Rows
    <2> QED BY <1>7, <1>b, <2>1 DEF DeleteRows, TypeOK, runner, turn, bounds, history
  <1>8. CASE Stop
    BY <1>8 DEF Stop, TypeOK, turn, actors, history
  <1>9. CASE StartFlow
    <2>1. PICK k \in {0, account} : (k = 0 => connects < MaxConnects) /\ pump' = [at |-> "polling", upgrades |-> k]
      BY <1>9 DEF StartFlow
    <2> QED BY <1>9, <2>1 DEF StartFlow, TypeOK, runner, turn, history
  <1>10. CASE EndFlow
    BY <1>10 DEF EndFlow, NoFlow, TypeOK, runner, turn, bounds, history
  <1>11. CASE StoreGrant
    BY <1>11 DEF StoreGrant, Meets, TypeOK, runner, turn, bounds
  <1>12. CASE InsertGrant
    <2>1. account' \in Accounts \cup {0} /\ connects' \in 0..MaxConnects /\ (account' = 0 => account = 0)
      BY <1>12, <1>d DEF InsertGrant, Insert, TypeOK
    <2>2. pump' = NoFlow /\ pump' \in [at : {"none", "polling", "stored"}, upgrades : Accounts \cup {0}]
            /\ pump'.at = "none"
      BY <1>12 DEF InsertGrant, NoFlow
    <2> QED BY <1>12, <2>1, <2>2 DEF InsertGrant, TypeOK, runner, turn, history
  <1>13. CASE Crash
    BY <1>13, BlankTypes DEF Crash, Meets, NoFlow, TypeOK
  <1>14. CASE UNCHANGED vars
    BY <1>14 DEF vars, TypeOK, runner, turn, actors, bounds, history
  <1> QED BY <1>1, <1>2, <1>3, <1>4, <1>5, <1>6, <1>7, <1>8, <1>9, <1>10, <1>11, <1>12, <1>13, <1>14,
             ThreadTypes DEF Next

(* The program starts with an empty table and no account.                  *)
LEMMA InitTypes == ASSUME Init PROVE Typed
  <1>1. NoRow \in [st : InFlight \cup {"none", "ok", "old", "deferred", "blocked"}, fails : 0..3]
    BY DEF NoRow, Row
  <1>2. TypeOK /\ HandFitsLoop
    BY <1>1 DEF Init, TypeOK, HandFitsLoop
  <1>3. flows \in Nat /\ asks \in Nat /\ trouble \in Nat /\ restarts \in Nat /\ 0 \in 0..MaxConnects
    BY SyncRunnerAssumption DEF Init
  <1> QED BY <1>2, <1>3 DEF Init, Typed, OthersTyped, NoFlow

(* Every variable holds a value of its kind: above all a mirrored budget   *)
(* is some account's, and the thread holds a task wherever it uses one.    *)
THEOREM SpecTypeOK == Spec => [](TypeOK /\ OthersTyped /\ HandFitsLoop)
  BY InitTypes, TypeStep, PTL DEF Spec, Typed

-----------------------------------------------------------------------------
(* Who holds a running row.                                                *)

(* What a step does to the state of a row, and to who answers for it.  A   *)
(* row starts to run in hand; it stops by the settle of what is in hand,   *)
(* by a start, or with its account; and a step that lets go of a row that  *)
(* still runs counts it as stuck.                                          *)
LEMMA RunningMoves ==
  ASSUME Typed, RunningIsHeld, HeldIsRunning, [Next]_vars
  PROVE  RunningIsHeld' /\ HeldIsRunning'
  <1> USE DEF RunningIsHeld, HeldIsRunning, Goto
  <1>a. /\ rows \in Rows /\ NoTask \notin Tasks
        /\ loop \in {"off", "top", "poll", "take"} => hand = NoTask
    BY RowsTyped, TaskKinds DEF Typed, HandFitsLoop
  <1>1. CASE Start
    BY <1>1, <1>a, RequeuedMoves, SweptMoves DEF Start, turn, history
  <1>2. CASE StartRefused
    BY <1>2, <1>a DEF StartRefused, turn
  <1>3. CASE PollComes \/ Top
    BY <1>3, <1>a DEF PollComes, Top, turn, history
  <1>4. CASE Exit
    BY <1>4, <1>a DEF Exit, Blank
  <1>5. CASE Poll
    BY <1>5, <1>a, SweptMoves DEF Poll, turn, history
  <1>6. CASE TakeNone
    <2>1. \A t \in Tasks : rows'[t].st = "running" => rows[t].st = "running"
      BY <1>6, <1>a, RunnableMoves DEF TakeNone
    <2> QED BY <1>6, <1>a, <2>1 DEF TakeNone, turn, history
  <1>7. ASSUME NEW t \in Tasks, Take(t) PROVE RunningIsHeld' /\ HeldIsRunning'
    <2>1. /\ Runnable \in Rows /\ hand' = t /\ hand = NoTask /\ stuck' = stuck /\ loop # "off"
          /\ rows' = [Runnable EXCEPT ![t].st = "running"]
      BY <1>7, <1>a, RunnableMoves DEF Take, history
    <2>2. \A u \in Tasks : u # t => rows'[u] = Runnable[u]
      BY <2>1 DEF Rows
    <2>3. \A u \in Tasks : u # t /\ rows'[u].st = "running" => u \in stuck
      BY <1>a, <2>1, <2>2, RunnableMoves
    <2>4. rows'[t].st = "running"
      <3>1. "running" \in States
        BY DEF States, InFlight
      <3> QED BY <2>1, <3>1, RowChanges DEF Rows
    <2> QED BY <2>1, <2>3, <2>4
  <1>8. CASE TakeRefused
    BY <1>8 DEF TakeRefused, turn
  <1>9. CASE Look \/ Store \/ Verdict \/ ReadToken
    BY <1>9 DEF Look, Store, Verdict, ReadToken, turn, history
  <1>10. ASSUME NEW answer, NEW rate, Request(answer, rate) PROVE RunningIsHeld' /\ HeldIsRunning'
    BY <1>10 DEF Request, history
  <1>11. CASE Settle
    <2>1. /\ hand \in Tasks /\ outcome \in Answers /\ hand' = NoTask /\ stuck' = stuck /\ loop # "off"
          /\ rows' = [rows EXCEPT ![hand] = Settled(rows[hand], outcome)]
      BY <1>11 DEF Settle, Settling, Typed, HandFitsLoop
    <2>2. Settled(rows[hand], outcome).st # "running"
      BY <1>a, <2>1, SettledMoves DEF Rows
    <2> QED BY <1>a, <2>1, <2>2 DEF Rows
  <1>12. CASE SettleRefused
    BY <1>12, <1>a DEF SettleRefused, Settling
  <1>13. ASSUME NEW t \in Tasks, ClockComes(t) PROVE RunningIsHeld' /\ HeldIsRunning'
    <2>1. /\ rows[t].st \in {"parked", "waiting", "ok"}
          /\ \E st \in {"due", "queued", "old"} : rows' = [rows EXCEPT ![t].st = st]
          /\ UNCHANGED <<loop, hand, stuck>>
      BY <1>13 DEF ClockComes, runner, turn, history
    <2>2. t # hand
      BY <2>1
    <2>3. \A u \in Tasks : u # t => rows'[u] = rows[u]
      BY <1>a, <2>1 DEF Rows
    <2>4. rows'[t].st # "running"
      BY <1>a, <2>1 DEF Rows, RowSet
    <2> QED BY <2>1, <2>2, <2>3, <2>4
  <1>14. CASE BudgetResets \/ Ask \/ SetFlag \/ DeleteSecret \/ Stop \/ StartFlow \/ EndFlow \/ StoreGrant
              \/ InsertGrant
    BY <1>14 DEF BudgetResets, Ask, SetFlag, DeleteSecret, Stop, StartFlow, EndFlow, StoreGrant,
                 InsertGrant, runner, turn, history
  <1>15. CASE Requeue
    <2>1. /\ \A t \in Tasks : rows'[t] = rows[t] \/ (rows[t].st = "deferred" /\ rows'[t] = Queued)
          /\ UNCHANGED <<loop, hand, stuck>> /\ Queued.st = "queued"
      BY <1>15 DEF Requeue, runner, turn, history, Queued, Row
    <2> QED BY <2>1
  <1>16. CASE DeleteRows
    <2>1. /\ \A t \in Tasks : rows'[t] = rows[t] \/ rows'[t] = NoRow
          /\ UNCHANGED <<loop, hand, stuck>> /\ NoRow.st = "none"
      BY <1>16 DEF DeleteRows, runner, turn, history, NoRow, Row
    <2> QED BY <2>1
  <1>17. CASE Crash
    BY <1>17, <1>a DEF Crash, Blank
  <1>18. CASE UNCHANGED vars
    BY <1>18 DEF vars, runner, turn, history
  <1> QED BY <1>1, <1>2, <1>3, <1>4, <1>5, <1>6, <1>7, <1>8, <1>9, <1>10, <1>11, <1>12, <1>13, <1>14,
             <1>15, <1>16, <1>17, <1>18 DEF Next, Thread

(* The program starts with nothing running.                                *)
LEMMA InitHolds == ASSUME Init PROVE RunningIsHeld /\ HeldIsRunning
  BY TaskKinds DEF Init, RunningIsHeld, HeldIsRunning

(* A row is running only while the thread holds it, but for the rows whose *)
(* write was refused: whatever the order of takes, settles, disconnects,   *)
(* starts and deaths, the loop keeps polling for no row nobody will settle.*)
THEOREM SpecRunningIsHeld == Spec => []RunningIsHeld
  <1>1. Typed /\ Typed' /\ RunningIsHeld /\ HeldIsRunning /\ [Next]_vars
          => RunningIsHeld' /\ HeldIsRunning'
    BY RunningMoves
  <1>2. Spec => []Typed
    BY SpecTypeOK DEF Typed
  <1> QED BY <1>1, <1>2, InitHolds, PTL DEF Spec

-----------------------------------------------------------------------------
(* The secret and its account.                                             *)

(* A step that touches neither and starts or ends no half of either.       *)
LEMMA SecretKept ==
  ASSUME SecretInv, UNCHANGED <<account, secret, crossed>>,
         command' = command \/ (command # "disconnect" /\ command' # "disconnect"),
         pump' = pump \/ (pump.at # "stored" /\ pump'.at # "stored")
  PROVE  SecretInv'
  BY DEF SecretInv, SecretFollows

(* A step keeps the two together, unless it lets them cross.               *)
LEMMA SecretStep ==
  ASSUME Typed, SecretInv, [Next]_vars
  PROVE  SecretInv'
  <1>1. CASE Start \/ StartRefused \/ PollComes \/ Top \/ Poll \/ TakeNone \/ TakeRefused \/ Look
             \/ Store \/ Verdict \/ ReadToken
    BY <1>1, SecretKept DEF Start, StartRefused, PollComes, Top, Poll, TakeNone, TakeRefused, Look,
                            Store, Verdict, ReadToken, actors, history
  <1>2. CASE Settle \/ SettleRefused
    BY <1>2, SecretKept DEF Settle, SettleRefused, Settling, actors
  <1>3. ASSUME NEW t, Take(t) \/ ClockComes(t) PROVE SecretInv'
    BY <1>3, SecretKept DEF Take, ClockComes, actors, history
  <1>4. ASSUME NEW answer, NEW rate, Request(answer, rate) PROVE SecretInv'
    BY <1>4, SecretKept DEF Request, actors, history
  <1>5. CASE Exit
    BY <1>5, SecretKept DEF Exit, NoFlow
  <1>6. CASE BudgetResets \/ Ask \/ SetFlag \/ Requeue \/ Stop
    BY <1>6, SecretKept DEF BudgetResets, Ask, SetFlag, Requeue, Stop, actors, history
  <1>7. CASE StartFlow \/ EndFlow
    <2>1. pump.at # "stored" /\ pump'.at # "stored"
      BY <1>7 DEF StartFlow, EndFlow, NoFlow
    <2> QED BY <1>7, <2>1, SecretKept DEF StartFlow, EndFlow, history
  <1>8. CASE DeleteSecret
    BY <1>8 DEF DeleteSecret, Meets, SecretInv, SecretFollows
  <1>9. CASE DeleteRows
    BY <1>9 DEF DeleteRows, history, SecretInv, SecretFollows
  <1>10. CASE StoreGrant
    <2>1. /\ secret' /\ pump'.at = "stored" /\ pump'.upgrades = pump.upgrades
          /\ UNCHANGED <<account, command>>
          /\ crossed' = (crossed \/ (command = "disconnect" \/ (pump.upgrades # 0 /\ pump.upgrades # account)))
      BY <1>10 DEF StoreGrant, Meets, Typed, OthersTyped
    <2> QED BY <2>1 DEF SecretInv, SecretFollows
  <1>11. CASE InsertGrant
    <2>1. pump.at = "stored" /\ pump'.at = "none" /\ UNCHANGED <<secret, command, crossed>>
      BY <1>11 DEF InsertGrant, NoFlow, history
    <2>2. /\ pump.upgrades # 0 => account' = account
          /\ pump.upgrades = 0 => account' # 0
      BY <1>11 DEF InsertGrant, Insert, Typed, OthersTyped
    <2> QED BY <2>1, <2>2 DEF SecretInv, SecretFollows
  <1>12. CASE Crash
    <2>1. /\ crossed' = (crossed \/ (command = "disconnect" \/ pump.at = "stored"))
          /\ command' = "none" /\ pump'.at = "none" /\ UNCHANGED <<account, secret>>
      BY <1>12 DEF Crash, Meets, NoFlow
    <2> QED BY <2>1 DEF SecretInv, SecretFollows
  <1>13. CASE UNCHANGED vars
    BY <1>13, SecretKept DEF vars, actors, history
  <1> QED BY <1>1, <1>2, <1>3, <1>4, <1>5, <1>6, <1>7, <1>8, <1>9, <1>10, <1>11, <1>12, <1>13
          DEF Next, Thread

(* An account at rest has its token and a token its account: connect stores*)
(* the secret before the row and disconnect removes it before, so only a   *)
(* disconnect that meets a connect, or a death inside one, parts them.     *)
THEOREM SpecSecretIsTheAccounts == Spec => []SecretIsTheAccounts
  <1>1. Init => SecretInv
    BY DEF Init, SecretInv, SecretFollows, NoFlow
  <1>2. Typed /\ SecretInv /\ [Next]_vars => SecretInv'
    BY SecretStep
  <1>3. SecretInv => SecretIsTheAccounts
    BY DEF SecretInv, SecretFollows, SecretIsTheAccounts
  <1>4. Spec => []Typed
    BY SpecTypeOK DEF Typed
  <1> QED BY <1>1, <1>2, <1>3, <1>4, PTL DEF Spec

-----------------------------------------------------------------------------
(* Parks and refused tokens.                                               *)

KeepsParks ==
    \A t \in Tasks :
        /\ rows[t].st = "parked" => rows'[t].st \in {"parked", "due", "none"}
        /\ rows[t].st = "blocked" => rows'[t].st \in {"blocked", "none"}

(* A step moves a park only to its due time or away, a blocked row only    *)
(* away: what is settled is the row in hand, which is neither.             *)
LEMMA ParksStep ==
  ASSUME Typed, HeldIsRunning, [Next]_vars
  PROVE  KeepsParks
  <1> USE DEF KeepsParks
  <1>a. rows \in Rows
    BY RowsTyped DEF Typed
  <1>1. CASE Start
    BY <1>1, <1>a, RequeuedMoves, SweptMoves DEF Start
  <1>2. CASE Poll
    BY <1>2, <1>a, SweptMoves DEF Poll
  <1>3. CASE TakeNone
    BY <1>3, <1>a, RunnableMoves DEF TakeNone
  <1>4. ASSUME NEW t \in Tasks, Take(t) PROVE KeepsParks
    <2>1. /\ Runnable \in Rows /\ Runnable[t].st = "queued"
          /\ rows' = [Runnable EXCEPT ![t].st = "running"]
      BY <1>4, <1>a, RunnableMoves, PicksAreQueued DEF Take
    <2>2. \A u \in Tasks : u # t => rows'[u] = Runnable[u]
      BY <2>1 DEF Rows
    <2>3. rows[t].st \notin {"parked", "blocked"}
      BY <1>a, <2>1, RunnableMoves
    <2> QED BY <1>a, <2>2, <2>3, RunnableMoves
  <1>5. CASE Settle
    <2>1. /\ hand \in Tasks /\ \A u \in Tasks : u # hand => rows'[u] = rows[u]
          /\ rows[hand].st \notin {"parked", "blocked"}
      BY <1>5, <1>a DEF Settle, Settling, Typed, HandFitsLoop, HeldIsRunning, Rows
    <2> QED BY <2>1
  <1>6. ASSUME NEW t \in Tasks, ClockComes(t) PROVE KeepsParks
    <2>1. \A u \in Tasks : u # t => rows'[u] = rows[u]
      BY <1>6, <1>a DEF ClockComes, Rows
    <2>2. rows[t].st # "blocked" /\ (rows[t].st = "parked" => rows'[t].st = "due")
      BY <1>6, <1>a DEF ClockComes, Rows, RowSet
    <2> QED BY <2>1, <2>2
  <1>7. CASE Requeue
    <2>1. \A t \in Tasks : rows'[t] = rows[t] \/ rows[t].st = "deferred"
      BY <1>7 DEF Requeue
    <2> QED BY <2>1
  <1>8. CASE DeleteRows
    <2>1. \A t \in Tasks : rows'[t] = rows[t] \/ rows'[t].st = "none"
      BY <1>8 DEF DeleteRows, NoRow, Row
    <2> QED BY <2>1
  <1>9. ASSUME UNCHANGED rows PROVE KeepsParks
    BY <1>9
  <1>10. CASE StartRefused \/ PollComes \/ Top \/ Exit \/ TakeRefused \/ Look \/ Store \/ Verdict \/ ReadToken
              \/ SettleRefused \/ BudgetResets \/ Ask \/ SetFlag \/ DeleteSecret \/ Stop \/ StartFlow
              \/ EndFlow \/ StoreGrant \/ InsertGrant \/ Crash \/ UNCHANGED vars
    BY <1>9, <1>10 DEF StartRefused, PollComes, Top, Exit, TakeRefused, Look, Store, Verdict, ReadToken,
                       SettleRefused, BudgetResets, Ask, SetFlag, DeleteSecret, Stop, StartFlow,
                       EndFlow, StoreGrant, InsertGrant, Crash, vars
  <1>11. ASSUME NEW answer, NEW rate, Request(answer, rate) PROVE KeepsParks
    BY <1>9, <1>11 DEF Request
  <1> QED BY <1>1, <1>2, <1>3, <1>4, <1>5, <1>6, <1>7, <1>8, <1>10, <1>11 DEF Next, Thread

(* The instant a server named is kept, and so is its refusal of the token: *)
(* no ask, sweep, requeue, settle or restart moves either.                 *)
THEOREM SpecParksAreKept == Spec => ParksAreKept
  <1>1. Typed /\ HeldIsRunning /\ [Next]_vars => [KeepsParks]_vars
    BY ParksStep
  <1>2. Typed /\ RunningIsHeld /\ HeldIsRunning /\ [Next]_vars => RunningIsHeld' /\ HeldIsRunning'
    BY RunningMoves
  <1>3. Spec => []Typed
    BY SpecTypeOK DEF Typed
  <1>4. Spec => []HeldIsRunning
    BY <1>2, <1>3, InitHolds, PTL DEF Spec
  <1>5. Spec => [][KeepsParks]_vars
    BY <1>1, <1>3, <1>4, PTL DEF Spec
  <1> QED BY <1>5 DEF ParksAreKept, KeepsParks

-----------------------------------------------------------------------------
(* Restore: the inductive invariant.                                       *)

\* What a repository is known by, as it is on disk.
SubjectOf(q) ==
    IF disk[q].lineage # None THEN <<"lineage", disk[q].lineage, disk[q].remote>>
    ELSE <<"path", q>>

\* A copy is of a repository that is there, in its family, and one of its path.
CopiesStand(d) ==
    /\ \A l \in DOMAIN d.locations :
          /\ d.locations[l].project \in DOMAIN d.projects
          /\ disk[d.locations[l].key] # None
          /\ d.locations[l].common = disk[d.locations[l].key].common
    /\ \A l, m \in DOMAIN d.locations : d.locations[l].key = d.locations[m].key => l = m

\* The copies of one family are in one project.
FamiliesTogether(d) ==
    \A l, m \in DOMAIN d.locations :
        d.locations[l].common = d.locations[m].common
            => d.locations[l].project = d.locations[m].project

\* Every project has a copy, and a lineage from one of its own.
ProjectsAreHeld(d) ==
    \A p \in DOMAIN d.projects :
        /\ Copies(d, p) # {}
        /\ d.projects[p].lineage # None
              => \E l \in Copies(d, p) : disk[d.locations[l].key].lineage = d.projects[p].lineage

\* A repository of its own is alone in its project, which is as it is.
AloneStandAlone(d) ==
    \A l \in DOMAIN d.locations :
        Alone(d.locations[l].key) =>
            /\ Copies(d, d.locations[l].project) = {l}
            /\ d.projects[d.locations[l].project].lineage = disk[d.locations[l].key].lineage
            /\ d.projects[d.locations[l].project].remote = disk[d.locations[l].key].remote

Home(d) == CopiesStand(d) /\ FamiliesTogether(d) /\ ProjectsAreHeld(d) /\ AloneStandAlone(d)

\* p has the copy of q.
HasCopy(d, q, p) == \E l \in At(d, q) : d.locations[l].project = p

\* What was earned for a repository of its own is the project's that has its copy.
EarnedInv ==
    \A x \in xpEvents :
        disk[x.of] # None /\ (Alone(x.of) => HasCopy(db, x.of, x.project))

\* A record of a repository of its own is of it alone, and on its subject.
RecordFits(r) ==
    /\ r.keys # {}
    /\ \A q \in r.keys : disk[q] # None /\ (Alone(q) => r.keys = {q} /\ r.subject = SubjectOf(q))
    /\ \A e \in r.rows : disk[e.of] # None /\ (Alone(e.of) => e.of \in r.keys)

RecordsFit == \A r \in pending \cup sidecar.projects \cup sidecar.pending : RecordFits(r)

\* What waits is of no repository of its own that was found.
WaitingInv == \A r \in pending : \A q \in r.keys : Alone(q) => At(db, q) = {}

RestoreInv == RestoreTypeOK /\ Families(disk) /\ Home(db) /\ EarnedInv /\ RecordsFit /\ WaitingInv

-----------------------------------------------------------------------------
(* Naturals and sequences.                                                 *)

\* A set of naturals that has a member has a least one.
LEMMA LeastMember ==
    ASSUME NEW T, T \subseteq Nat, T # {}
    PROVE  First(T) \in T
<1> DEFINE R == OpToRel(<, Nat)
<1>1. IsWellFoundedOn(R, Nat)
  BY NatLessThanWellFounded, Zenon
<1>2. ASSUME NEW x \in Nat, NEW y \in Nat, <<y, x>> \notin R
      PROVE  x <= y
  BY <1>2 DEF OpToRel
<1> HIDE DEF R
<1>3. PICK x \in T : \A y \in T : ~(<<y, x>> \in R)
  BY <1>1, WFMin, Zenon
<1>4. \A y \in T : x <= y
  BY <1>2, <1>3, Zenon
<1> QED
  BY <1>4 DEF First

\* The parts of an index.
LEMMA PartsOf ==
    ASSUME NEW d \in Index
    PROVE  /\ d.projects \in Seq(Project) /\ d.locations \in Seq(Location)
           /\ DOMAIN d.projects = 1..Len(d.projects) /\ Len(d.projects) \in Nat
           /\ DOMAIN d.locations = 1..Len(d.locations) /\ Len(d.locations) \in Nat
           /\ \A p \in DOMAIN d.projects : d.projects[p] \in Project
           /\ \A l \in DOMAIN d.locations : d.locations[l] \in Location
<1>1. d.projects \in Seq(Project) /\ d.locations \in Seq(Location)
  BY DEF Index
<1>2. /\ DOMAIN d.projects = 1..Len(d.projects) /\ Len(d.projects) \in Nat
      /\ DOMAIN d.locations = 1..Len(d.locations) /\ Len(d.locations) \in Nat
  BY <1>1, LenProperties
<1> QED
  BY <1>1, <1>2, ElementOfSeq

\* Here every project is live.
LEMMA AllLive == ASSUME NEW d \in Index PROVE Live(d) = DOMAIN d.projects
BY PartsOf DEF Live, Project

-----------------------------------------------------------------------------
(* What identity decides.                                                  *)

\* The same copies and projects; flags aside.
SameRows(d, e) ==
    /\ e \in Index /\ e.locations = d.locations /\ Len(e.projects) = Len(d.projects)
    /\ \A p \in DOMAIN d.projects : /\ e.projects[p].lineage = d.projects[p].lineage
                                    /\ e.projects[p].remote = d.projects[p].remote

\* One more project, of what was found.
OneMore(d, e, f) ==
    /\ e \in Index /\ e.locations = d.locations /\ Len(e.projects) = Len(d.projects) + 1
    /\ \A p \in DOMAIN d.projects : /\ e.projects[p].lineage = d.projects[p].lineage
                                    /\ e.projects[p].remote = d.projects[p].remote
    /\ e.projects[Len(d.projects) + 1].lineage = f.lineage
    /\ e.projects[Len(d.projects) + 1].remote = f.remote

LEMMA SameAfterOneMore ==
    ASSUME NEW d \in Index, NEW e, NEW f, NEW g, OneMore(d, e, f), SameRows(e, g)
    PROVE  OneMore(d, g, f)
<1>1. DOMAIN d.projects = 1..Len(d.projects) /\ Len(d.projects) \in Nat
  BY PartsOf
<1>2. e \in Index /\ DOMAIN e.projects = 1..(Len(d.projects) + 1)
  BY PartsOf DEF OneMore
<1>3. DOMAIN d.projects \subseteq DOMAIN e.projects /\ Len(d.projects) + 1 \in DOMAIN e.projects
  BY <1>1, <1>2
<1> QED
  BY <1>3 DEF OneMore, SameRows

LEMMA SameSelf == \A d \in Index : SameRows(d, d)
BY DEF SameRows

LEMMA MarkSame ==
    ASSUME NEW d \in Index, NEW ps, NEW field \in {"fork", "ambiguous"}
    PROVE  SameRows(d, Mark(d, ps, field))
<1> DEFINE s == [p \in DOMAIN d.projects |->
                    IF p \in ps THEN [d.projects[p] EXCEPT ![field] = TRUE] ELSE d.projects[p]]
<1>1. ASSUME NEW p \in DOMAIN d.projects
      PROVE  s[p] \in Project /\ s[p].lineage = d.projects[p].lineage
                              /\ s[p].remote = d.projects[p].remote
  <2>1. d.projects[p] \in Project
    BY PartsOf
  <2>2. CASE field = "fork"
    BY <2>1, <2>2 DEF Project
  <2>3. CASE field = "ambiguous"
    BY <2>1, <2>3 DEF Project
  <2> QED
    BY <2>2, <2>3
<1>2. DOMAIN d.projects = 1..Len(d.projects) /\ Len(d.projects) \in Nat
  BY PartsOf
<1>3. s \in Seq(Project) /\ Len(s) = Len(d.projects)
  <2>1. s \in [1..Len(d.projects) -> Project]
    BY <1>1, <1>2
  <2> HIDE DEF s
  <2>2. s \in Seq(Project)
    BY <1>2, <2>1, SeqDef
  <2> QED
    BY <1>2, <2>1, <2>2, LenProperties
<1>4. Mark(d, ps, field) = [d EXCEPT !.projects = s]
  BY DEF Mark
<1> HIDE DEF s
<1>5. [d EXCEPT !.projects = s] \in Index /\ [d EXCEPT !.projects = s].projects = s
      /\ [d EXCEPT !.projects = s].locations = d.locations
  BY <1>3 DEF Index
<1> QED
  BY <1>1, <1>3, <1>4, <1>5 DEF SameRows

LEMMA FlagRemotelessSame ==
    ASSUME NEW d \in Index, NEW lineage
    PROVE  SameRows(d, FlagRemoteless(d, lineage))
<1> DEFINE on == {p \in Live(d) : lineage # None /\ d.projects[p].lineage = lineage}
           remoteless == {p \in on : d.projects[p].remote = None}
<1>1. FlagRemoteless(d, lineage) \in {d, Mark(d, remoteless, "ambiguous")}
  BY DEF FlagRemoteless
<1> HIDE DEF remoteless
<1> QED
  BY <1>1, MarkSame, SameSelf

LEMMA CreateOneMore ==
    ASSUME NEW d \in Index, NEW f \in Found, NEW fork \in BOOLEAN, NEW ambiguous \in BOOLEAN
    PROVE  OneMore(d, Create(d, f, fork, ambiguous), f)
<1> DEFINE row == [lineage |-> f.lineage, remote |-> f.remote, bound |-> None, basis |-> None,
                   fork |-> fork, ambiguous |-> ambiguous]
           s == Append(d.projects, row)
<1>1. row \in Project /\ row.lineage = f.lineage /\ row.remote = f.remote
  BY DEF Project, Found
<1>2. Create(d, f, fork, ambiguous) = [d EXCEPT !.projects = s]
  BY DEF Create
<1> HIDE DEF row
<1>3. d.projects \in Seq(Project) /\ DOMAIN d.projects = 1..Len(d.projects) /\ Len(d.projects) \in Nat
  BY PartsOf
<1>4. /\ s \in Seq(Project) /\ Len(s) = Len(d.projects) + 1
      /\ \A p \in 1..Len(d.projects) : s[p] = d.projects[p]
      /\ s[Len(d.projects) + 1] = row
  BY <1>1, <1>3, AppendProperties
<1> HIDE DEF s
<1>5. [d EXCEPT !.projects = s] \in Index /\ [d EXCEPT !.projects = s].projects = s
      /\ [d EXCEPT !.projects = s].locations = d.locations
  BY <1>4 DEF Index
<1> QED
  BY <1>1, <1>2, <1>3, <1>4, <1>5 DEF OneMore

\* As every project has a copy, none is hydrated.
LEMMA NoneHydrated ==
    ASSUME NEW d \in Index, ProjectsAreHeld(d), NEW f \in Found, NEW fork \in BOOLEAN,
           NEW r, r = CreateOrHydrate(d, f, fork)
    PROVE  OneMore(d, r.db, f) /\ r.project = Len(d.projects) + 1
<1> DEFINE targets == HydrationTargets(d, f)
           c == Create(d, f, fork, targets # {})
<1>1. targets = {}
  BY DEF HydrationTargets, ProjectsAreHeld, Live
<1>2. Cardinality(targets) # 1
  BY <1>1, FS_EmptySet
<1>3. r.db = Mark(c, targets, "ambiguous") /\ r.project = Len(d.projects) + 1
  BY <1>2 DEF CreateOrHydrate
<1>4. OneMore(d, c, f)
  BY CreateOneMore
<1> HIDE DEF c, targets
<1>5. c \in Index
  BY <1>4 DEF OneMore
<1>6. SameRows(c, r.db)
  BY <1>3, <1>5, MarkSame
<1> QED
  BY <1>3, <1>4, <1>6, SameAfterOneMore

\* What is attached to: a family's project, or one on the lineage found.
LEMMA DecideFinds ==
    ASSUME NEW d \in Index, NEW f \in Found
    PROVE  /\ Decide(d, f).is \in {"attach", "new", "ambiguous", "fork"}
           /\ \/ \E l \in DOMAIN d.locations :
                    /\ d.locations[l].common = f.common
                    /\ Decide(d, f) = [is |-> "attach", to |-> d.locations[l].project]
              \/ /\ \A l \in DOMAIN d.locations : d.locations[l].common # f.common
                 /\ Decide(d, f).is = "attach" =>
                       /\ Decide(d, f).to \in DOMAIN d.projects /\ f.lineage # None
                       /\ d.projects[Decide(d, f).to].lineage = f.lineage
<1> DEFINE owners == WorktreeOwners(d, f)
           cands == Candidates(d, f)
           remoted == {p \in cands : d.projects[p].remote # None}
           same == Same(d, f)
           On(p) == p \in DOMAIN d.projects /\ f.lineage # None /\ d.projects[p].lineage = f.lineage
<1>1. /\ owners \subseteq DOMAIN d.locations /\ DOMAIN d.locations \subseteq Nat
      /\ owners = {l \in DOMAIN d.locations : d.locations[l].common = f.common}
  <2>1. \A l \in DOMAIN d.locations : ~d.locations[l].removed
    BY PartsOf DEF Location
  <2>2. DOMAIN d.locations \subseteq Nat
    BY PartsOf
  <2> QED
    BY <2>1, <2>2 DEF WorktreeOwners
<1>2. owners # {} => First(owners) \in owners
  BY <1>1, LeastMember
<1>3. \A p \in cands : On(p) /\ p \in Nat
  BY PartsOf DEF Candidates, Live
<1>4. remoted \subseteq cands /\ same \subseteq cands
  BY DEF Same
<1>5. /\ same # {} => On(First(same))
      /\ remoted # {} => On(First(remoted))
      /\ cands # {} => On(First(cands))
  <2>1. cands \subseteq Nat /\ remoted \subseteq Nat /\ same \subseteq Nat
    BY <1>3, <1>4
  <2>2. /\ same # {} => First(same) \in same
        /\ remoted # {} => First(remoted) \in remoted
        /\ cands # {} => First(cands) \in cands
    BY <2>1, LeastMember
  <2> HIDE DEF On, same, remoted, cands
  <2> QED
    BY <1>3, <1>4, <2>2
<1>6. \/ owners # {} /\ Decide(d, f) = [is |-> "attach", to |-> d.locations[First(owners)].project]
      \/ owners = {} /\ Decide(d, f).is \in {"new", "ambiguous", "fork"}
      \/ owners = {} /\ same # {} /\ Decide(d, f) = [is |-> "attach", to |-> First(same)]
      \/ owners = {} /\ remoted # {} /\ Decide(d, f) = [is |-> "attach", to |-> First(remoted)]
      \/ owners = {} /\ cands # {} /\ Decide(d, f) = [is |-> "attach", to |-> First(cands)]
  BY DEF Decide
<1> HIDE DEF owners, cands, remoted, same
<1>7. CASE owners # {}
  <2>1. First(owners) \in DOMAIN d.locations /\ d.locations[First(owners)].common = f.common
    BY <1>1, <1>2, <1>7
  <2>2. Decide(d, f) = [is |-> "attach", to |-> d.locations[First(owners)].project]
    BY <1>6, <1>7
  <2> QED
    BY <2>1, <2>2
<1>8. CASE owners = {}
  <2>1. \A l \in DOMAIN d.locations : d.locations[l].common # f.common
    BY <1>1, <1>8
  <2>2. /\ Decide(d, f).is \in {"attach", "new", "ambiguous", "fork"}
        /\ Decide(d, f).is = "attach" => On(Decide(d, f).to)
    <3> HIDE DEF On
    <3> QED
      BY <1>5, <1>6, <1>8
  <2> QED
    BY <2>1, <2>2
<1> QED
  BY <1>7, <1>8

\* Where a find lands: in its family's project, in one on its lineage, or in a new one.
LEMMA ResolveFinds ==
    ASSUME NEW d \in Index, ProjectsAreHeld(d), NEW f \in Found, NEW r, r = ResolveIdentity(d, f)
    PROVE  \/ /\ r.db = d
              /\ \E l \in DOMAIN d.locations :
                    d.locations[l].common = f.common /\ r.project = d.locations[l].project
           \/ /\ \A l \in DOMAIN d.locations : d.locations[l].common # f.common
              /\ \/ /\ r.db = d /\ r.project \in DOMAIN d.projects
                    /\ f.lineage # None /\ d.projects[r.project].lineage = f.lineage
                 \/ OneMore(d, r.db, f) /\ r.project = Len(d.projects) + 1
<1> DEFINE verdict == Decide(d, f)
           Apart == \A l \in DOMAIN d.locations : d.locations[l].common # f.common
<1>1. verdict.is \in {"attach", "new", "ambiguous", "fork"}
  BY DecideFinds
<1>2. verdict.is # "attach" => Apart
  BY DecideFinds
<1>3. ASSUME verdict.is # "attach"
      PROVE  OneMore(d, r.db, f) /\ r.project = Len(d.projects) + 1
  <2>1. CASE verdict.is = "new"
    <3>1. r = CreateOrHydrate(d, f, FALSE)
      BY <2>1 DEF ResolveIdentity
    <3> QED
      BY <3>1, NoneHydrated
  <2>2. CASE verdict.is = "ambiguous"
    <3>1. r.db = Create(d, f, FALSE, TRUE) /\ r.project = Len(d.projects) + 1
      BY <2>2 DEF ResolveIdentity
    <3>2. FALSE \in BOOLEAN /\ TRUE \in BOOLEAN
      OBVIOUS
    <3>3. OneMore(d, Create(d, f, FALSE, TRUE), f)
      BY <3>2, CreateOneMore
    <3> QED
      BY <3>1, <3>3
  <2>3. CASE verdict.is = "fork"
    <3> DEFINE landed == CreateOrHydrate(d, f, TRUE)
               m == Mark(landed.db, verdict.related, "fork")
    <3>1. OneMore(d, landed.db, f) /\ landed.project = Len(d.projects) + 1
      BY NoneHydrated
    <3>2. r = [landed EXCEPT !.db = FlagRemoteless(Mark(@, verdict.related, "fork"), f.lineage)]
      BY <2>3 DEF ResolveIdentity
    <3>3. landed = [db |-> landed.db, project |-> landed.project]
      BY DEF CreateOrHydrate
    <3>4. r.db = FlagRemoteless(m, f.lineage) /\ r.project = landed.project
      BY <3>2, <3>3
    <3> HIDE DEF landed, m
    <3>5. landed.db \in Index
      BY <3>1 DEF OneMore
    <3>6. SameRows(landed.db, m) /\ m \in Index
      BY <3>5, MarkSame DEF SameRows, m
    <3>7. SameRows(m, r.db)
      BY <3>4, <3>6, FlagRemotelessSame
    <3>8. OneMore(d, m, f)
      BY <3>1, <3>6, SameAfterOneMore
    <3> QED
      BY <3>1, <3>4, <3>7, <3>8, SameAfterOneMore
  <2> QED
    BY <1>1, <1>3, <2>1, <2>2, <2>3
<1>4. ASSUME verdict.is = "attach"
      PROVE  r.db = d /\ r.project = verdict.to
  BY <1>4 DEF ResolveIdentity
<1>5. CASE verdict.is = "attach"
  BY <1>4, <1>5, DecideFinds
<1> HIDE DEF Apart
<1>6. CASE verdict.is # "attach"
  BY <1>2, <1>3, <1>6 DEF Apart
<1> QED
  BY <1>5, <1>6

\* As no copy is removed, the path claims none.
LEMMA NoneClaimed ==
    ASSUME NEW d \in Index, NEW p, NEW f, NEW path
    PROVE  ClaimRemovedRow(d, p, f, path) = d
<1> DEFINE s == [l \in DOMAIN d.locations |-> d.locations[l]]
<1>1. \A l \in DOMAIN d.locations : ~d.locations[l].removed
  BY PartsOf DEF Location
<1>2. ClaimRemovedRow(d, p, f, path) = [d EXCEPT !.locations = s]
  BY <1>1 DEF ClaimRemovedRow
<1>3. s = d.locations
  BY PartsOf
<1>4. [d EXCEPT !.locations = d.locations] = d
  BY DEF Index
<1> QED
  BY <1>2, <1>3, <1>4

\* A copy found where none was: a row for it.
Landed(d, e, q, p) ==
    /\ Len(e.locations) = Len(d.locations) + 1
    /\ \A l \in DOMAIN d.locations : e.locations[l] = d.locations[l]
    /\ e.locations[Len(d.locations) + 1].key = q
    /\ e.locations[Len(d.locations) + 1].project = p
    /\ e.locations[Len(d.locations) + 1].common = disk[q].common

LEMMA UpsertLands ==
    ASSUME NEW d \in Index, NEW f \in Found, NEW q \in Paths, NEW p \in Nat, f = disk[q],
           At(d, q) = {}, NEW e, e = UpsertLocation(d, p, f, q, 0)
    PROVE  e \in Index /\ e.projects = d.projects /\ Landed(d, e, q, p)
<1> DEFINE row == [key |-> q, path |-> q, project |-> p, common |-> f.common,
                   presence |-> "present", generation |-> 0, removed |-> FALSE]
           s == Append(d.locations, row)
<1>1. row \in Location /\ row.key = q /\ row.project = p /\ row.common = f.common
  BY DEF Location, Found
<1>2. e = [d EXCEPT !.locations = s]
  BY DEF UpsertLocation
<1> HIDE DEF row
<1>3. /\ d.locations \in Seq(Location) /\ DOMAIN d.locations = 1..Len(d.locations)
      /\ Len(d.locations) \in Nat
  BY PartsOf
<1>4. /\ s \in Seq(Location) /\ Len(s) = Len(d.locations) + 1
      /\ \A l \in 1..Len(d.locations) : s[l] = d.locations[l]
      /\ s[Len(d.locations) + 1] = row
  BY <1>1, <1>3, AppendProperties
<1> HIDE DEF s
<1>5. e \in Index /\ e.locations = s /\ e.projects = d.projects
  BY <1>2, <1>4 DEF Index
<1> QED
  BY <1>1, <1>3, <1>4, <1>5 DEF Landed

\* A copy found again where it was, in the project it was in: nothing.
LEMMA UpsertAgain ==
    ASSUME NEW d \in Index, NEW f \in Found, NEW q \in Paths, NEW p, At(d, q) # {},
           \A l \in At(d, q) : d.locations[l].project = p /\ d.locations[l].common = f.common
    PROVE  UpsertLocation(d, p, f, q, 0) = d
<1> DEFINE k == First(At(d, q))
           row == [d.locations[k] EXCEPT !.project = p, !.common = f.common, !.presence = "present",
                                         !.generation = 0]
<1>1. At(d, q) \subseteq Nat
  BY PartsOf DEF At
<1>2. k \in At(d, q)
  BY <1>1, LeastMember
<1>3. k \in DOMAIN d.locations
  BY <1>2 DEF At
<1>4. d.locations[k] \in Location /\ d.locations[k].project = p /\ d.locations[k].common = f.common
  BY <1>2, <1>3, PartsOf
<1>5. UpsertLocation(d, p, f, q, 0) = [d EXCEPT !.locations = [d.locations EXCEPT ![k] = row]]
  BY DEF UpsertLocation
<1> HIDE DEF k
<1>6. row = d.locations[k]
  BY <1>4 DEF Location
<1> HIDE DEF row
<1>7. [d.locations EXCEPT ![k] = row] = d.locations
  BY <1>3, <1>6, PartsOf
<1>8. [d EXCEPT !.locations = d.locations] = d
  BY DEF Index
<1> QED
  BY <1>5, <1>7, <1>8

-----------------------------------------------------------------------------
(* A hand-off.                                                             *)

\* Into a project there is: its family's, or one on its lineage.
Joins(d, e, q, p) ==
    /\ e.projects = d.projects
    /\ \/ \E l \in DOMAIN d.locations :
             d.locations[l].common = disk[q].common /\ d.locations[l].project = p
       \/ /\ \A l \in DOMAIN d.locations : d.locations[l].common # disk[q].common
          /\ p \in DOMAIN d.projects
          /\ disk[q].lineage # None /\ d.projects[p].lineage = disk[q].lineage

\* Into one of its own.
Founds(d, e, q, p) ==
    /\ \A l \in DOMAIN d.locations : d.locations[l].common # disk[q].common
    /\ p = Len(d.projects) + 1 /\ Len(e.projects) = p
    /\ \A x \in DOMAIN d.projects : /\ e.projects[x].lineage = d.projects[x].lineage
                                    /\ e.projects[x].remote = d.projects[x].remote
    /\ e.projects[p].lineage = disk[q].lineage
    /\ e.projects[p].remote = disk[q].remote

LEMMA HandOffLands ==
    ASSUME NEW d \in Index, CopiesStand(d), FamiliesTogether(d), ProjectsAreHeld(d),
           NEW q \in Paths, disk[q] \in Found, disk[q] # None,
           NEW e, e = HandOff(d, disk[q], q, 0)
    PROVE  \/ At(d, q) # {} /\ e = d
           \/ /\ At(d, q) = {} /\ e \in Index
              /\ \E p \in Nat : Landed(d, e, q, p) /\ (Joins(d, e, q, p) \/ Founds(d, e, q, p))
<1> DEFINE f == disk[q]
           r == ResolveIdentity(d, f)
<1>1. \/ /\ r.db = d
         /\ \E l \in DOMAIN d.locations :
               d.locations[l].common = f.common /\ r.project = d.locations[l].project
      \/ /\ \A l \in DOMAIN d.locations : d.locations[l].common # f.common
         /\ \/ /\ r.db = d /\ r.project \in DOMAIN d.projects
               /\ f.lineage # None /\ d.projects[r.project].lineage = f.lineage
            \/ OneMore(d, r.db, f) /\ r.project = Len(d.projects) + 1
  BY ResolveFinds
<1>2. e = UpsertLocation(ClaimRemovedRow(r.db, r.project, f, q), r.project, f, q, 0)
  BY DEF HandOff
<1> HIDE DEF r
<1>3. r.db \in Index
  BY <1>1 DEF OneMore
<1>4. e = UpsertLocation(r.db, r.project, f, q, 0)
  BY <1>2, <1>3, NoneClaimed
<1>5. DOMAIN d.projects \subseteq Nat /\ Len(d.projects) + 1 \in Nat
  BY PartsOf
<1>6. r.project \in Nat
  BY <1>1, <1>5 DEF CopiesStand
<1>7. CASE At(d, q) # {}
  <2>1. \A l \in At(d, q) : l \in DOMAIN d.locations /\ d.locations[l].common = f.common
    BY DEF At, CopiesStand
  <2>2. /\ r.db = d
        /\ \E l \in DOMAIN d.locations :
              d.locations[l].common = f.common /\ r.project = d.locations[l].project
    BY <1>1, <1>7, <2>1
  <2>3. \A l \in At(d, q) : d.locations[l].project = r.project
    BY <2>1, <2>2 DEF FamiliesTogether
  <2> QED
    BY <1>4, <1>7, <2>1, <2>2, <2>3, UpsertAgain
<1>8. CASE At(d, q) = {}
  <2>1. r.db.locations = d.locations
    BY <1>1 DEF OneMore
  <2>2. At(r.db, q) = {}
    BY <1>8, <2>1 DEF At
  <2>3. e \in Index /\ e.projects = r.db.projects /\ Landed(r.db, e, q, r.project)
    BY <1>3, <1>4, <1>6, <2>2, UpsertLands
  <2>4. Landed(d, e, q, r.project)
    BY <2>1, <2>3 DEF Landed
  <2>5. CASE r.db = d
    <3>1. Joins(d, e, q, r.project)
      <4>1. e.projects = d.projects
        BY <2>3, <2>5
      <4>2. CASE \E l \in DOMAIN d.locations :
                    d.locations[l].common = f.common /\ r.project = d.locations[l].project
        BY <4>1, <4>2 DEF Joins
      <4>3. CASE /\ \A l \in DOMAIN d.locations : d.locations[l].common # f.common
                 /\ r.project \in DOMAIN d.projects
                 /\ f.lineage # None /\ d.projects[r.project].lineage = f.lineage
        BY <4>1, <4>3 DEF Joins
      <4>4. ~OneMore(d, r.db, f)
        BY <1>5, <2>5, PartsOf DEF OneMore
      <4> QED
        BY <1>1, <4>2, <4>3, <4>4
    <3> QED
      BY <1>6, <1>8, <2>3, <2>4, <3>1
  <2>6. CASE r.db # d
    <3>1. OneMore(d, r.db, f) /\ r.project = Len(d.projects) + 1
          /\ \A l \in DOMAIN d.locations : d.locations[l].common # f.common
      BY <1>1, <2>6
    <3>2. Founds(d, e, q, r.project)
      BY <2>3, <3>1 DEF Founds, OneMore
    <3> QED
      BY <1>6, <1>8, <2>3, <2>4, <3>2
  <2> QED
    BY <2>5, <2>6
<1> QED
  BY <1>7, <1>8

\* What a landing leaves: the copies there were, in the projects they were in, and one more.
LEMMA LandingKeeps ==
    ASSUME NEW d \in Index, NEW e \in Index, CopiesStand(d), NEW q \in Paths, NEW p \in Nat,
           Landed(d, e, q, p), Joins(d, e, q, p) \/ Founds(d, e, q, p),
           NEW n, n = Len(d.locations) + 1
    PROVE  /\ DOMAIN e.locations = DOMAIN d.locations \cup {n} /\ n \notin DOMAIN d.locations
           /\ \A l \in DOMAIN d.locations : e.locations[l] = d.locations[l]
           /\ e.locations[n].key = q /\ e.locations[n].project = p
           /\ e.locations[n].common = disk[q].common
           /\ DOMAIN e.projects = DOMAIN d.projects \cup {p}
           /\ \A x \in DOMAIN d.projects : /\ e.projects[x].lineage = d.projects[x].lineage
                                           /\ e.projects[x].remote = d.projects[x].remote
<1>1. /\ DOMAIN d.locations = 1..Len(d.locations) /\ Len(d.locations) \in Nat
      /\ DOMAIN e.locations = 1..Len(e.locations) /\ Len(e.locations) \in Nat
      /\ DOMAIN d.projects = 1..Len(d.projects) /\ Len(d.projects) \in Nat
      /\ DOMAIN e.projects = 1..Len(e.projects) /\ Len(e.projects) \in Nat
  BY PartsOf
<1>2. /\ Len(e.locations) = n
      /\ \A l \in DOMAIN d.locations : e.locations[l] = d.locations[l]
      /\ e.locations[n].key = q /\ e.locations[n].project = p
      /\ e.locations[n].common = disk[q].common
  BY DEF Landed
<1>3. DOMAIN e.locations = DOMAIN d.locations \cup {n} /\ n \notin DOMAIN d.locations
  BY <1>1, <1>2
<1>4. CASE Joins(d, e, q, p)
  <2>1. p \in DOMAIN d.projects /\ e.projects = d.projects
    BY <1>4 DEF Joins, CopiesStand
  <2> QED
    BY <1>2, <1>3, <2>1
<1>5. CASE Founds(d, e, q, p)
  <2>1. DOMAIN e.projects = DOMAIN d.projects \cup {p}
    BY <1>1, <1>5 DEF Founds
  <2> QED
    BY <1>2, <1>3, <1>5, <2>1 DEF Founds
<1> QED
  BY <1>4, <1>5

\* A landing keeps the index at home.
LEMMA LandingHome ==
    ASSUME NEW d \in Index, NEW e \in Index, Home(d), NEW q \in Paths, NEW p \in Nat,
           disk[q] # None, At(d, q) = {},
           \A l \in DOMAIN d.locations : d.locations[l].key \in Paths,
           Landed(d, e, q, p), Joins(d, e, q, p) \/ Founds(d, e, q, p)
    PROVE  Home(e)
<1> DEFINE n == Len(d.locations) + 1
<1>1. /\ DOMAIN e.locations = DOMAIN d.locations \cup {n} /\ n \notin DOMAIN d.locations
      /\ \A l \in DOMAIN d.locations : e.locations[l] = d.locations[l]
      /\ e.locations[n].key = q /\ e.locations[n].project = p
      /\ e.locations[n].common = disk[q].common
      /\ DOMAIN e.projects = DOMAIN d.projects \cup {p}
      /\ \A x \in DOMAIN d.projects : /\ e.projects[x].lineage = d.projects[x].lineage
                                      /\ e.projects[x].remote = d.projects[x].remote
  BY LandingKeeps DEF Home
<1> HIDE DEF n
<1>2. \A l \in DOMAIN d.locations : d.locations[l].key # q
  BY DEF At
<1>3. \A x \in DOMAIN d.projects : Copies(d, x) \subseteq Copies(e, x)
  BY <1>1 DEF Copies
<1>4. CopiesStand(e)
  <2>1. \A l \in DOMAIN d.locations : e.locations[l].project \in DOMAIN e.projects
    BY <1>1 DEF Home, CopiesStand
  <2>2. \A l \in DOMAIN e.locations :
           disk[e.locations[l].key] # None /\ e.locations[l].common = disk[e.locations[l].key].common
    BY <1>1 DEF Home, CopiesStand
  <2>3. ASSUME NEW l \in DOMAIN e.locations, NEW m \in DOMAIN e.locations,
               e.locations[l].key = e.locations[m].key
        PROVE  l = m
    BY <1>1, <1>2, <2>3 DEF Home, CopiesStand
  <2> QED
    BY <1>1, <2>1, <2>2, <2>3 DEF CopiesStand
<1>5. FamiliesTogether(e)
  <2>1. ASSUME NEW l \in DOMAIN d.locations, d.locations[l].common = disk[q].common
        PROVE  d.locations[l].project = p
    <3>1. PICK m \in DOMAIN d.locations :
             d.locations[m].common = disk[q].common /\ d.locations[m].project = p
      BY <2>1 DEF Joins, Founds
    <3> QED
      BY <2>1, <3>1 DEF Home, FamiliesTogether
  <2> QED
    BY <1>1, <2>1 DEF Home, FamiliesTogether
<1>6. ProjectsAreHeld(e)
  <2> SUFFICES ASSUME NEW x \in DOMAIN e.projects
               PROVE  /\ Copies(e, x) # {}
                      /\ e.projects[x].lineage # None => \E l \in Copies(e, x) :
                            disk[e.locations[l].key].lineage = e.projects[x].lineage
    BY DEF ProjectsAreHeld
  <2>1. CASE x \in DOMAIN d.projects
    <3>1. /\ Copies(d, x) # {}
          /\ d.projects[x].lineage # None => \E l \in Copies(d, x) :
                disk[d.locations[l].key].lineage = d.projects[x].lineage
      BY <2>1 DEF Home, ProjectsAreHeld
    <3>2. \A l \in Copies(d, x) : l \in DOMAIN d.locations
      BY DEF Copies
    <3> QED
      BY <1>1, <1>3, <2>1, <3>1, <3>2
  <2>2. CASE x \notin DOMAIN d.projects
    <3>1. x = p /\ n \in Copies(e, x)
      BY <1>1, <2>2 DEF Copies
    <3>2. Founds(d, e, q, p)
      BY <2>2, <3>1 DEF Joins, Home, CopiesStand
    <3>3. e.projects[x].lineage = disk[e.locations[n].key].lineage
      BY <1>1, <3>1, <3>2 DEF Founds
    <3> QED
      BY <3>1, <3>3
  <2> QED
    BY <2>1, <2>2
<1>7. AloneStandAlone(e)
  <2> SUFFICES ASSUME NEW l \in DOMAIN e.locations, Alone(e.locations[l].key)
               PROVE  /\ Copies(e, e.locations[l].project) = {l}
                      /\ e.projects[e.locations[l].project].lineage = disk[e.locations[l].key].lineage
                      /\ e.projects[e.locations[l].project].remote = disk[e.locations[l].key].remote
    BY DEF AloneStandAlone
  <2> DEFINE k == e.locations[l].key
             o == e.locations[l].project
  <2>1. CASE l \in DOMAIN d.locations
    <3>1. /\ Copies(d, o) = {l} /\ o \in DOMAIN d.projects
          /\ d.projects[o].lineage = disk[k].lineage /\ d.projects[o].remote = disk[k].remote
      BY <1>1, <2>1 DEF Home, AloneStandAlone, CopiesStand
    <3>2. k \in Paths /\ k # q /\ disk[k].common = k /\ d.locations[l].common = disk[k].common
      BY <1>1, <1>2, <2>1 DEF Alone, Home, CopiesStand
    <3>3. disk[q].common # k /\ (disk[q].lineage # disk[k].lineage \/ disk[k].lineage = None)
      BY <3>2 DEF Alone
    <3>4. p # o
      <4>1. ASSUME Joins(d, e, q, p), p = o PROVE FALSE
        <5>1. CASE \E m \in DOMAIN d.locations :
                      d.locations[m].common = disk[q].common /\ d.locations[m].project = p
          <6>1. PICK m \in DOMAIN d.locations :
                   d.locations[m].common = disk[q].common /\ d.locations[m].project = p
            BY <5>1
          <6>2. m = l
            BY <3>1, <4>1, <6>1 DEF Copies
          <6> QED
            BY <3>2, <3>3, <6>1, <6>2
        <5>2. CASE disk[q].lineage # None /\ d.projects[p].lineage = disk[q].lineage
          BY <3>1, <3>3, <4>1, <5>2
        <5> QED
          BY <4>1, <5>1, <5>2 DEF Joins
      <4>2. ASSUME Founds(d, e, q, p), p = o PROVE FALSE
        BY <3>1, <4>2, PartsOf DEF Founds
      <4> QED
        BY <4>1, <4>2
    <3>5. Copies(e, o) = Copies(d, o)
      BY <1>1, <3>4 DEF Copies
    <3> QED
      BY <1>1, <3>1, <3>5
  <2>2. CASE l \notin DOMAIN d.locations
    <3>1. l = n /\ k = q /\ o = p
      BY <1>1, <2>2
    <3>2. /\ disk[q].common = q
          /\ \A x \in Paths \ {q} : disk[x] # None =>
                disk[x].common # q /\ (disk[x].lineage # disk[q].lineage \/ disk[q].lineage = None)
      BY <3>1 DEF Alone
    <3>3. \A m \in DOMAIN d.locations : /\ d.locations[m].key \in Paths \ {q}
                                        /\ disk[d.locations[m].key] # None
                                        /\ d.locations[m].common = disk[d.locations[m].key].common
      BY <1>2 DEF Home, CopiesStand
    <3>4. ~Joins(d, e, q, p)
      <4>1. \A m \in DOMAIN d.locations : d.locations[m].common # disk[q].common
        BY <3>2, <3>3
      <4>2. ASSUME p \in DOMAIN d.projects, disk[q].lineage # None,
                   d.projects[p].lineage = disk[q].lineage
            PROVE  FALSE
        <5>1. PICK m \in Copies(d, p) : disk[d.locations[m].key].lineage = disk[q].lineage
          BY <4>2 DEF Home, ProjectsAreHeld
        <5>2. m \in DOMAIN d.locations
          BY DEF Copies
        <5> QED
          BY <3>2, <3>3, <4>2, <5>1, <5>2
      <4> QED
        BY <4>1, <4>2 DEF Joins
    <3>5. Founds(d, e, q, p)
      BY <3>4
    <3>6. p \notin DOMAIN d.projects
      BY <3>5, PartsOf DEF Founds
    <3>7. Copies(e, p) = {n}
      BY <1>1, <3>6 DEF Copies, Home, CopiesStand
    <3> QED
      BY <3>1, <3>5, <3>7 DEF Founds
  <2> QED
    BY <2>1, <2>2
<1> QED
  BY <1>4, <1>5, <1>6, <1>7 DEF Home

-----------------------------------------------------------------------------
(* Subjects.                                                               *)

\* The lowest copy is one of the project's.
LEMMA LowestIsOne ==
    ASSUME NEW d \in Index, NEW p, Copies(d, p) # {}
    PROVE  \E l \in Copies(d, p) : l \in DOMAIN d.locations /\ LowestCopy(d, p) = d.locations[l]
<1>1. Copies(d, p) \subseteq DOMAIN d.locations
  BY DEF Copies
<1>2. Copies(d, p) \subseteq Nat
  BY <1>1, PartsOf
<1>3. First(Copies(d, p)) \in Copies(d, p)
  BY <1>2, LeastMember
<1> QED
  BY <1>1, <1>3 DEF LowestCopy

\* A project's subject is a subject.
LEMMA SubjectTypes ==
    ASSUME NEW d \in Index, ProjectsAreHeld(d), NEW p \in DOMAIN d.projects
    PROVE  Subject(d, p) \in Subjects
<1>1. CASE d.projects[p].lineage # None
  <2>1. d.projects[p].lineage \in AllLineages /\ d.projects[p].remote \in AllRemotes
    BY PartsOf DEF Project
  <2>2. Subject(d, p) = <<"lineage", d.projects[p].lineage, d.projects[p].remote>>
    BY <1>1 DEF Subject
  <2> QED
    BY <2>1, <2>2 DEF Subjects
<1>2. CASE d.projects[p].lineage = None
  <2>1. PICK l \in DOMAIN d.locations : LowestCopy(d, p) = d.locations[l]
    BY LowestIsOne DEF ProjectsAreHeld
  <2>2. LowestCopy(d, p).key \in Paths
    BY <2>1, PartsOf DEF Location
  <2>3. Subject(d, p) = <<"path", LowestCopy(d, p).key>>
    BY <1>2 DEF Subject
  <2> QED
    BY <2>2, <2>3 DEF Subjects
<1> QED
  BY <1>1, <1>2

\* A project on the subject of a repository of its own has its copy.
LEMMA SubjectFinds ==
    ASSUME NEW d \in Index, Home(d), NEW p \in DOMAIN d.projects, NEW q \in Paths, Alone(q),
           Subject(d, p) = SubjectOf(q)
    PROVE  HasCopy(d, q, p)
<1>1. CASE d.projects[p].lineage # None
  <2>1. Subject(d, p) = <<"lineage", d.projects[p].lineage, d.projects[p].remote>>
    BY <1>1 DEF Subject
  <2>2. disk[q].lineage # None /\ disk[q].lineage = d.projects[p].lineage
    BY <2>1 DEF SubjectOf
  <2>3. PICK l \in Copies(d, p) : disk[d.locations[l].key].lineage = disk[q].lineage
    BY <2>2 DEF Home, ProjectsAreHeld
  <2>4. l \in DOMAIN d.locations /\ d.locations[l].project = p
    BY DEF Copies
  <2>5. d.locations[l].key \in Paths /\ disk[d.locations[l].key] # None
    BY <2>4, PartsOf DEF Home, CopiesStand, Location
  <2>6. d.locations[l].key = q
    BY <2>2, <2>3, <2>5 DEF Alone
  <2> QED
    BY <2>4, <2>6 DEF HasCopy, At
<1>2. CASE d.projects[p].lineage = None
  <2>1. Subject(d, p) = <<"path", LowestCopy(d, p).key>>
    BY <1>2 DEF Subject
  <2>2. LowestCopy(d, p).key = q
    BY <2>1 DEF SubjectOf
  <2>3. PICK l \in Copies(d, p) : l \in DOMAIN d.locations /\ LowestCopy(d, p) = d.locations[l]
    BY LowestIsOne DEF Home, ProjectsAreHeld
  <2> QED
    BY <2>2, <2>3 DEF HasCopy, At, Copies
<1> QED
  BY <1>1, <1>2

\* And the other way round: its project is on its subject, and no other is.
LEMMA AloneHolds ==
    ASSUME NEW d \in Index, Home(d), NEW q \in Paths, Alone(q), NEW p, HasCopy(d, q, p)
    PROVE  p \in DOMAIN d.projects /\ Subject(d, p) = SubjectOf(q) /\ Holders(d, SubjectOf(q)) = {p}
<1>1. PICK l \in DOMAIN d.locations : d.locations[l].key = q /\ d.locations[l].project = p
  BY DEF HasCopy, At
<1>2. /\ p \in DOMAIN d.projects /\ Copies(d, p) = {l}
      /\ d.projects[p].lineage = disk[q].lineage /\ d.projects[p].remote = disk[q].remote
  BY <1>1 DEF Home, CopiesStand, AloneStandAlone
<1>3. At(d, q) = {l}
  BY <1>1 DEF Home, CopiesStand, At
<1>4. Subject(d, p) = SubjectOf(q)
  <2>1. LowestCopy(d, p).key = q
    BY <1>1, <1>2, LowestIsOne
  <2> QED
    BY <1>2, <2>1 DEF Subject, SubjectOf
<1>5. CASE disk[q].lineage = None
  <2>1. SubjectOf(q) = <<"path", q>> /\ SubjectOf(q)[1] = "path" /\ SubjectOf(q)[2] = q
    BY <1>5 DEF SubjectOf
  <2>2. Holders(d, SubjectOf(q)) = {d.locations[m].project : m \in At(d, q)}
    BY <2>1 DEF Holders
  <2> QED
    BY <1>1, <1>2, <1>3, <1>4, <2>2
<1>6. CASE disk[q].lineage # None
  <2> DEFINE On(x) == <<"lineage", d.projects[x].lineage, d.projects[x].remote>>
  <2>1. SubjectOf(q) = <<"lineage", disk[q].lineage, disk[q].remote>> /\ SubjectOf(q)[1] = "lineage"
    BY <1>6 DEF SubjectOf
  <2>2. Holders(d, SubjectOf(q)) = {x \in DOMAIN d.projects : On(x) = SubjectOf(q)}
    BY <2>1, AllLive DEF Holders
  <2>3. On(p) = SubjectOf(q)
    BY <1>2, <2>1
  <2>4. ASSUME NEW x \in DOMAIN d.projects, On(x) = SubjectOf(q)
        PROVE  x = p
    <3>1. d.projects[x].lineage = disk[q].lineage
      BY <2>1, <2>4
    <3>2. Subject(d, x) = SubjectOf(q)
      BY <1>6, <2>4, <3>1 DEF Subject
    <3>3. HasCopy(d, q, x)
      BY <3>2, SubjectFinds
    <3> QED
      BY <1>1, <1>3, <3>3 DEF HasCopy
  <2> HIDE DEF On
  <2> QED
    BY <1>2, <1>4, <2>2, <2>3, <2>4
<1> QED
  BY <1>2, <1>4, <1>5, <1>6

\* A record of a repository of its own is claimed by the project that has its copy.
LEMMA AloneClaims ==
    ASSUME NEW d \in Index, Home(d), NEW q \in Paths, Alone(q), NEW p, HasCopy(d, q, p),
           NEW staged, NEW r \in staged, r.subject = SubjectOf(q)
    PROVE  r \in Claimed(d, p, staged)
<1>1. Subject(d, p) = SubjectOf(q) /\ Holders(d, r.subject) = {p}
  BY AloneHolds
<1>2. Cardinality({p}) = 1
  BY FS_Singleton
<1>3. Owners(d, r) = {p}
  BY <1>1, <1>2 DEF Owners
<1> QED
  BY <1>1, <1>3 DEF Claimed

-----------------------------------------------------------------------------
(* The user's steps.                                                       *)

\* A repository changes only by getting a lineage or a remote; nothing becomes
\* one of its own, and what is known and still is one has not changed.
DiskMoves ==
    /\ \A q \in Paths :
          disk[q] # None =>
             /\ disk'[q] # None /\ disk'[q].common = disk[q].common
             /\ disk[q].lineage # None => disk'[q].lineage = disk[q].lineage
             /\ Alone(q)' => Alone(q) /\ (Known(q) => disk'[q] = disk[q])
    /\ UNCHANGED <<db, concluded, xpEvents, pending, sidecar>>

LEMMA UserMoves ==
    ASSUME RestoreTypeOK, Families(disk), NEW x \in Paths, Commit(x) \/ AddRemote(x)
    PROVE  DiskMoves /\ RestoreTypeOK' /\ Families(disk)'
<1>1. disk \in [Paths -> Found \cup {None}] /\ moved \subseteq Paths
  BY DEF RestoreTypeOK
<1>2. \A q \in Paths : disk[q] # None => disk[q] \in Found
  BY <1>1
<1>3. Lineages[x] \in AllLineages /\ Remotes[x] \in AllRemotes /\ None \notin Found
  BY RestoreAssumption DEF AllLineages, AllRemotes
<1>4. moved \subseteq moved' /\ moved' \subseteq Paths /\ (Known(x) => x \in moved')
  BY <1>1 DEF Commit, AddRemote
<1>5. disk[x] # None /\ disk[x].common = x
  BY DEF Commit, AddRemote
<1>6. UNCHANGED <<db, concluded, xpEvents, pending, sidecar>>
  BY DEF Commit, AddRemote
<1>7. ASSUME NEW q \in Paths, disk[q] = None
      PROVE  disk'[q] = None
  BY <1>7 DEF Commit, AddRemote
<1>8. ASSUME NEW q \in Paths, disk[q] # None
      PROVE  /\ disk'[q] \in Found /\ disk'[q].common = disk[q].common
             /\ disk[q].lineage # None => disk'[q].lineage = disk[q].lineage
             /\ disk[q].common # x => disk'[q] = disk[q]
  <2>1. CASE disk[q].common # x
    BY <1>2, <1>8, <2>1 DEF Commit, AddRemote
  <2>2. CASE disk[q].common = x /\ Commit(x)
    <3>1. disk'[q] = [disk[q] EXCEPT !.lineage = Lineages[x]]
      BY <1>8, <2>2 DEF Commit
    <3>2. disk'[q] \in Found /\ disk'[q].common = disk[q].common
      BY <1>2, <1>3, <1>8, <3>1 DEF Found
    <3>3. disk[q].lineage = None
      <4>1. disk[x] # None /\ disk[x].lineage = None
        BY <2>2 DEF Commit
      <4> QED
        BY <1>8, <2>2, <4>1 DEF Families
    <3> QED
      BY <2>2, <3>2, <3>3
  <2>3. CASE disk[q].common = x /\ AddRemote(x)
    <3>1. disk'[q] = [disk[q] EXCEPT !.remote = Remotes[x]]
      BY <1>8, <2>3 DEF AddRemote
    <3>2. /\ disk'[q] \in Found /\ disk'[q].common = disk[q].common
          /\ disk'[q].lineage = disk[q].lineage
      BY <1>2, <1>3, <1>8, <3>1 DEF Found
    <3> QED
      BY <2>3, <3>2
  <2> QED
    BY <2>1, <2>2, <2>3
<1>9. disk' \in [Paths -> Found \cup {None}]
  <2>1. \E F : disk' = [q \in Paths |-> F[q]]
    <3>1. CASE Commit(x)
      <4> DEFINE F == [q \in Paths |-> IF disk[q] # None /\ disk[q].common = x
                                       THEN [disk[q] EXCEPT !.lineage = Lineages[x]] ELSE disk[q]]
      <4>1. disk' = F
        BY <3>1 DEF Commit
      <4> QED
        BY <4>1
    <3>2. CASE AddRemote(x)
      <4> DEFINE F == [q \in Paths |-> IF disk[q] # None /\ disk[q].common = x
                                       THEN [disk[q] EXCEPT !.remote = Remotes[x]] ELSE disk[q]]
      <4>1. disk' = F
        BY <3>2 DEF AddRemote
      <4> QED
        BY <4>1
    <3> QED
      BY <3>1, <3>2
  <2> QED
    BY <1>7, <1>8, <2>1
<1>10. RestoreTypeOK'
  BY <1>4, <1>6, <1>9 DEF RestoreTypeOK
<1>11. \A q \in Paths : disk[q] # None => disk'[q] # None
  BY <1>3, <1>8
<1>12. ASSUME NEW q \in Paths, disk[q] # None, Alone(q)'
       PROVE  Alone(q) /\ (Known(q) => disk'[q] = disk[q])
  <2>1. q \notin moved /\ disk[q].common = q
    BY <1>4, <1>8, <1>12 DEF Alone
  <2>2. ASSUME NEW y \in Paths \ {q}, disk[y] # None
        PROVE  /\ disk[y].common # q
               /\ disk[y].lineage # disk[q].lineage \/ disk[q].lineage = None
    <3>1. /\ disk'[y].common # q
          /\ disk'[y].lineage # disk'[q].lineage \/ disk'[q].lineage = None
      BY <1>11, <1>12, <2>2 DEF Alone
    <3>2. disk'[y].common = disk[y].common
          /\ (disk[y].lineage # None => disk'[y].lineage = disk[y].lineage)
      BY <1>8, <2>2
    <3>3. disk[q].lineage # None => disk'[q].lineage = disk[q].lineage
      BY <1>8, <1>12
    <3> QED
      BY <3>1, <3>2, <3>3
  <2>3. Known(q) => disk'[q] = disk[q]
    <3>1. CASE x = q
      BY <1>4, <1>12, <3>1 DEF Alone
    <3>2. CASE x # q
      BY <1>8, <1>12, <2>1, <3>2
    <3> QED
      BY <3>1, <3>2
  <2> QED
    BY <2>1, <2>2, <2>3 DEF Alone
<1>13. DiskMoves
  BY <1>6, <1>8, <1>11, <1>12 DEF DiskMoves
<1>14. Families(disk)'
  <2> SUFFICES ASSUME NEW q \in Paths, disk'[q] # None, disk'[disk'[q].common] # None
               PROVE  /\ disk'[disk'[q].common].common = disk'[q].common
                      /\ disk'[disk'[q].common].lineage = disk'[q].lineage
    BY DEF Families
  <2> DEFINE c == disk[q].common
  <2>1. disk[q] # None /\ disk'[q].common = c /\ c \in Paths
    BY <1>2, <1>7, <1>8 DEF Found
  <2>2. disk[c] # None /\ disk[c].common = c /\ disk[c].lineage = disk[q].lineage
    BY <1>7, <2>1 DEF Families
  <2>3. disk'[c].common = c
    BY <1>8, <2>1, <2>2
  <2>4. CASE c # x
    BY <1>8, <2>1, <2>2, <2>4
  <2>5. CASE c = x /\ Commit(x)
    <3>1. disk'[q] = [disk[q] EXCEPT !.lineage = Lineages[x]]
          /\ disk'[c] = [disk[c] EXCEPT !.lineage = Lineages[x]]
      BY <2>1, <2>2, <2>5 DEF Commit
    <3>2. disk[q] \in Found /\ disk[c] \in Found
      BY <1>2, <2>1, <2>2
    <3>3. disk'[q].lineage = Lineages[x] /\ disk'[c].lineage = Lineages[x]
      BY <3>1, <3>2 DEF Found
    <3> QED
      BY <2>1, <2>3, <3>3
  <2>6. CASE c = x /\ AddRemote(x)
    <3>1. disk'[q] = [disk[q] EXCEPT !.remote = Remotes[x]]
          /\ disk'[c] = [disk[c] EXCEPT !.remote = Remotes[x]]
      BY <2>1, <2>2, <2>6 DEF AddRemote
    <3>2. disk[q] \in Found /\ disk[c] \in Found
      BY <1>2, <2>1, <2>2
    <3>3. disk'[q].lineage = disk[q].lineage /\ disk'[c].lineage = disk[c].lineage
      BY <3>1, <3>2 DEF Found
    <3> QED
      BY <2>1, <2>2, <2>3, <3>3
  <2> QED
    BY <2>4, <2>5, <2>6
<1> QED
  BY <1>10, <1>13, <1>14

LEMMA UserInv ==
    ASSUME RestoreInv, NEW x \in Paths, Commit(x) \/ AddRemote(x)
    PROVE  RestoreInv'
<1>1. DiskMoves /\ RestoreTypeOK' /\ Families(disk)'
  BY UserMoves DEF RestoreInv
<1>2. db' = db /\ xpEvents' = xpEvents /\ pending' = pending /\ sidecar' = sidecar
  BY <1>1 DEF DiskMoves
<1>3. \A q \in Paths : disk[q] # None =>
         /\ disk'[q] # None /\ disk'[q].common = disk[q].common
         /\ disk[q].lineage # None => disk'[q].lineage = disk[q].lineage
         /\ Alone(q)' => Alone(q) /\ (Known(q) => disk'[q] = disk[q])
  BY <1>1 DEF DiskMoves
<1>4. db \in Index /\ xpEvents \subseteq [project : DOMAIN db.projects, key : Subjects, of : Paths]
  BY DEF RestoreInv, RestoreTypeOK
<1>5. \A l \in DOMAIN db.locations :
         /\ db.locations[l].key \in Paths /\ disk[db.locations[l].key] # None
         /\ Known(db.locations[l].key)
  <2>1. \A l \in DOMAIN db.locations : db.locations[l].key \in Paths
    BY <1>4, PartsOf DEF Location
  <2> QED
    BY <2>1 DEF RestoreInv, Home, CopiesStand, Known, At
<1>6. \A r \in pending \cup sidecar.projects \cup sidecar.pending :
         /\ RecordFits(r) /\ r.keys \subseteq Paths
         /\ \A e \in r.rows : e.of \in Paths
         /\ \A q \in r.keys : Known(q)
  BY DEF RestoreInv, RestoreTypeOK, RecordsFit, Record, Known
<1>7. Home(db)'
  <2>1. CopiesStand(db)'
    BY <1>2, <1>3, <1>5 DEF RestoreInv, Home, CopiesStand
  <2>2. FamiliesTogether(db)'
    BY <1>2 DEF RestoreInv, Home, FamiliesTogether
  <2>3. ProjectsAreHeld(db)'
    <3>1. \A p : \A l \in Copies(db, p) : l \in DOMAIN db.locations
      BY DEF Copies
    <3>2. \A p : Copies(db, p)' = Copies(db, p)
      BY <1>2 DEF Copies
    <3> QED
      BY <1>2, <1>3, <1>5, <3>1, <3>2 DEF RestoreInv, Home, ProjectsAreHeld
  <2>4. AloneStandAlone(db)'
    <3>1. \A p : Copies(db, p)' = Copies(db, p)
      BY <1>2 DEF Copies
    <3>2. ASSUME NEW l \in DOMAIN db.locations, NEW q, q = db.locations[l].key, Alone(q)'
          PROVE  /\ Copies(db, db.locations[l].project) = {l}
                 /\ db.projects[db.locations[l].project].lineage = disk'[q].lineage
                 /\ db.projects[db.locations[l].project].remote = disk'[q].remote
      <4>1. Alone(q) /\ disk'[q] = disk[q]
        BY <1>3, <1>5, <3>2
      <4> QED
        BY <3>2, <4>1 DEF RestoreInv, Home, AloneStandAlone
    <3>3. \A l \in DOMAIN db.locations :
             Alone(db.locations[l].key)'
                => /\ Copies(db, db.locations[l].project)' = {l}
                   /\ db'.projects[db'.locations[l].project].lineage = disk'[db'.locations[l].key].lineage
                   /\ db'.projects[db'.locations[l].project].remote = disk'[db'.locations[l].key].remote
      BY <1>2, <3>1, <3>2 DEF Alone, Copies
    <3> QED
      BY <1>2, <3>3 DEF AloneStandAlone
  <2> QED
    BY <2>1, <2>2, <2>3, <2>4 DEF Home
<1>8. EarnedInv'
  <2>1. \A q, p : HasCopy(db, q, p)' <=> HasCopy(db, q, p)
    BY <1>2 DEF HasCopy, At
  <2> QED
    BY <1>2, <1>3, <1>4, <2>1 DEF RestoreInv, EarnedInv
<1>9. RecordsFit'
  <2> SUFFICES ASSUME NEW r \in pending \cup sidecar.projects \cup sidecar.pending
               PROVE  RecordFits(r)'
    BY <1>2 DEF RecordsFit
  <2>1. \A q \in r.keys : Alone(q)' => SubjectOf(q)' = SubjectOf(q)
    BY <1>3, <1>6 DEF SubjectOf, RecordFits
  <2> QED
    BY <1>3, <1>6, <2>1 DEF RecordFits
<1>10. WaitingInv'
  <2>1. \A q : At(db, q)' = At(db, q)
    BY <1>2 DEF At
  <2>2. \A r \in pending : \A q \in r.keys : Alone(q)' => Alone(q)
    BY <1>3, <1>6 DEF RecordFits
  <2> QED
    BY <1>2, <2>1, <2>2 DEF RestoreInv, WaitingInv
<1> QED
  BY <1>1, <1>7, <1>8, <1>9, <1>10 DEF RestoreInv

-----------------------------------------------------------------------------
(* The core's steps.                                                       *)

\* Where the repositories do not change, nor does what is said of them.
LEMMA StillDisk ==
    ASSUME disk' = disk, moved' = moved
    PROVE  /\ \A q : (Alone(q)' <=> Alone(q)) /\ SubjectOf(q)' = SubjectOf(q)
           /\ \A r : RecordFits(r)' <=> RecordFits(r)
BY DEF Alone, SubjectOf, RecordFits

\* And a home stays one.
LEMMA StillHome ==
    ASSUME disk' = disk, moved' = moved, db' = db, Home(db)
    PROVE  Home(db)'
BY DEF Home, CopiesStand, FamiliesTogether, ProjectsAreHeld, AloneStandAlone, Copies, Alone

\* A home is one of the index it is said of.
LEMMA HomeOfNext ==
    ASSUME disk' = disk, moved' = moved, Home(db')
    PROVE  Home(db)'
BY DEF Home, CopiesStand, FamiliesTogether, ProjectsAreHeld, AloneStandAlone, Copies, Alone

LEMMA HistoryInv == ASSUME RestoreInv, NEW p \in DOMAIN db.projects, HistoryEnds(p) PROVE RestoreInv'
<1>1. UNCHANGED <<disk, db, xpEvents, pending, sidecar, moved, left>>
  BY DEF HistoryEnds
<1>2. RestoreTypeOK'
  BY <1>1 DEF RestoreInv, RestoreTypeOK, HistoryEnds
<1>3. Home(db)' /\ Families(disk)'
  BY <1>1, StillHome DEF RestoreInv, Families
<1>4. EarnedInv' /\ WaitingInv'
  BY <1>1, StillDisk DEF RestoreInv, EarnedInv, WaitingInv, HasCopy, At
<1>5. RecordsFit'
  BY <1>1, StillDisk DEF RestoreInv, RecordsFit
<1> QED
  BY <1>2, <1>3, <1>4, <1>5 DEF RestoreInv

LEMMA AwardInv == ASSUME RestoreInv, NEW p \in DOMAIN db.projects, PayAward(p) PROVE RestoreInv'
<1> DEFINE row == [project |-> p, key |-> Subject(db, p), of |-> LowestCopy(db, p).key]
<1>1. UNCHANGED <<disk, db, concluded, pending, sidecar, moved>> /\ xpEvents' = xpEvents \cup {row}
  BY DEF PayAward
<1>2. db \in Index /\ ProjectsAreHeld(db) /\ CopiesStand(db)
  BY DEF RestoreInv, RestoreTypeOK, Home
<1>3. PICK l \in Copies(db, p) : l \in DOMAIN db.locations /\ LowestCopy(db, p) = db.locations[l]
  BY <1>2, LowestIsOne DEF ProjectsAreHeld
<1>4. row.of \in Paths /\ disk[row.of] # None /\ HasCopy(db, row.of, p)
  BY <1>2, <1>3, PartsOf DEF Location, CopiesStand, HasCopy, At, Copies
<1>5. row \in [project : DOMAIN db.projects, key : Subjects, of : Paths]
  BY <1>2, <1>4, SubjectTypes
<1>6. row.project = p
  OBVIOUS
<1> HIDE DEF row
<1>7. RestoreTypeOK'
  BY <1>1, <1>5 DEF RestoreInv, RestoreTypeOK
<1>8. Home(db)' /\ Families(disk)'
  BY <1>1, StillHome DEF RestoreInv, Families
<1>9. EarnedInv'
  <2>1. \A q, y : HasCopy(db, q, y)' <=> HasCopy(db, q, y)
    BY <1>1 DEF HasCopy, At
  <2> QED
    BY <1>1, <1>4, <1>6, <2>1, StillDisk DEF RestoreInv, EarnedInv
<1>10. WaitingInv' /\ RecordsFit'
  BY <1>1, StillDisk DEF RestoreInv, WaitingInv, RecordsFit, At
<1> QED
  BY <1>7, <1>8, <1>9, <1>10 DEF RestoreInv

\* A record of a project fits.
LEMMA RecordOfFits ==
    ASSUME RestoreInv, NEW p \in DOMAIN db.projects
    PROVE  RecordOf(p) \in Record /\ RecordFits(RecordOf(p))
<1> DEFINE r == RecordOf(p)
           keys == {db.locations[l].key : l \in Copies(db, p)}
           paid == {[key |-> x.key, of |-> x.of] : x \in {y \in xpEvents : y.project = p}}
<1>1. r = [subject |-> Subject(db, p), keys |-> keys, rows |-> paid]
  BY DEF RecordOf
<1>2. db \in Index /\ Home(db) /\ EarnedInv
      /\ xpEvents \subseteq [project : DOMAIN db.projects, key : Subjects, of : Paths]
  BY DEF RestoreInv, RestoreTypeOK
<1>3. ASSUME NEW l \in Copies(db, p)
      PROVE  /\ l \in DOMAIN db.locations /\ db.locations[l].project = p
             /\ db.locations[l].key \in Paths /\ disk[db.locations[l].key] # None
             /\ HasCopy(db, db.locations[l].key, p)
  <2>1. l \in DOMAIN db.locations /\ db.locations[l].project = p
    BY DEF Copies
  <2> QED
    BY <1>2, <2>1, PartsOf DEF Location, Home, CopiesStand, HasCopy, At
<1>4. keys \subseteq Paths /\ keys # {}
  BY <1>2, <1>3 DEF Home, ProjectsAreHeld
<1>5. paid \subseteq [key : Subjects, of : Paths]
  BY <1>2
<1>6. Subject(db, p) \in Subjects
  BY <1>2, SubjectTypes DEF Home
<1>7. ASSUME NEW q \in keys
      PROVE  disk[q] # None /\ (Alone(q) => keys = {q} /\ Subject(db, p) = SubjectOf(q))
  <2>1. PICK l \in Copies(db, p) : db.locations[l].key = q
    OBVIOUS
  <2>2. disk[q] # None /\ HasCopy(db, q, p) /\ q \in Paths
    BY <1>3, <2>1
  <2>3. Alone(q) => Subject(db, p) = SubjectOf(q)
    BY <1>2, <2>2, AloneHolds
  <2>4. Alone(q) => Copies(db, p) = {l}
    BY <1>2, <1>3, <2>1 DEF Home, AloneStandAlone
  <2> QED
    BY <2>1, <2>2, <2>3, <2>4
<1>8. ASSUME NEW e \in paid
      PROVE  disk[e.of] # None /\ (Alone(e.of) => e.of \in keys)
  <2>1. PICK x \in xpEvents : x.project = p /\ e.of = x.of
    OBVIOUS
  <2>2. disk[x.of] # None /\ (Alone(x.of) => HasCopy(db, x.of, p))
    BY <1>2, <2>1 DEF EarnedInv
  <2>3. HasCopy(db, x.of, p) => x.of \in keys
    BY DEF HasCopy, At, Copies
  <2> QED
    BY <2>1, <2>2, <2>3
<1> HIDE DEF keys, paid, r
<1>9. r.subject = Subject(db, p) /\ r.keys = keys /\ r.rows = paid
  BY <1>1
<1>10. r \in Record
  BY <1>1, <1>4, <1>5, <1>6 DEF Record
<1>11. RecordFits(r)
  BY <1>4, <1>7, <1>8, <1>9 DEF RecordFits
<1> QED
  BY <1>10, <1>11 DEF r

LEMMA ExportInv == ASSUME RestoreInv, Export PROVE RestoreInv'
<1>1. UNCHANGED <<disk, db, concluded, xpEvents, pending, moved>>
      /\ sidecar' = [projects |-> {RecordOf(p) : p \in Live(db)}, pending |-> pending]
  BY DEF Export
<1>2. Live(db) = DOMAIN db.projects
  BY AllLive DEF RestoreInv, RestoreTypeOK
<1>3. \A r \in {RecordOf(p) : p \in Live(db)} : r \in Record /\ RecordFits(r)
  BY <1>2, RecordOfFits
<1>4. sidecar'.projects = {RecordOf(p) : p \in Live(db)} /\ sidecar'.pending = pending
  BY <1>1
<1>5. RestoreTypeOK'
  <2>1. sidecar' \in [projects : SUBSET Record, pending : SUBSET Record]
    BY <1>1, <1>3 DEF RestoreInv, RestoreTypeOK
  <2> QED
    BY <1>1, <2>1 DEF RestoreInv, RestoreTypeOK
<1>6. Home(db)' /\ Families(disk)'
  BY <1>1, StillHome DEF RestoreInv, Families
<1>7. EarnedInv' /\ WaitingInv'
  BY <1>1, StillDisk DEF RestoreInv, EarnedInv, WaitingInv, HasCopy, At
<1>8. RecordsFit'
  <2>1. \A r \in pending' \cup sidecar'.projects \cup sidecar'.pending : RecordFits(r)
    BY <1>1, <1>3, <1>4 DEF RestoreInv, RecordsFit
  <2> QED
    BY <1>1, <2>1, StillDisk DEF RecordsFit
<1> QED
  BY <1>5, <1>6, <1>7, <1>8 DEF RestoreInv

\* An empty index is at home.
LEMMA NoIndexHome == NoIndex \in Index /\ Home(NoIndex)
<1>1. NoIndex \in Index
  BY DEF NoIndex, Index
<1>2. DOMAIN NoIndex.projects = {} /\ DOMAIN NoIndex.locations = {}
  BY DEF NoIndex
<1> QED
  BY <1>1, <1>2 DEF Home, CopiesStand, FamiliesTogether, ProjectsAreHeld, AloneStandAlone

LEMMA RebuildInv == ASSUME RestoreInv, Rebuild PROVE RestoreInv'
<1>1. /\ UNCHANGED <<disk, sidecar, moved>> /\ db' = NoIndex /\ concluded' = {} /\ xpEvents' = {}
      /\ pending' = sidecar.projects \cup sidecar.pending
  BY DEF Rebuild
<1>2. RestoreTypeOK'
  BY <1>1, NoIndexHome DEF RestoreInv, RestoreTypeOK
<1>3. Home(db)' /\ Families(disk)'
  BY <1>1, NoIndexHome, HomeOfNext DEF RestoreInv, Families
<1>4. EarnedInv'
  BY <1>1 DEF EarnedInv
<1>5. WaitingInv'
  <2>1. \A q : At(db, q)' = {}
    BY <1>1 DEF At, NoIndex
  <2> QED
    BY <2>1 DEF WaitingInv
<1>6. RecordsFit'
  BY <1>1, StillDisk DEF RestoreInv, RecordsFit
<1> QED
  BY <1>2, <1>3, <1>4, <1>5, <1>6 DEF RestoreInv

\* A hand-off leaves every copy where it was, and the index at home.
LEMMA HandOffHome ==
    ASSUME RestoreInv, NEW q \in Paths, disk[q] # None, NEW e, e = HandOff(db, disk[q], q, 0)
    PROVE  /\ e \in Index /\ Home(e) /\ At(e, q) # {}
           /\ DOMAIN db.projects \subseteq DOMAIN e.projects
           /\ \A x, p : HasCopy(db, x, p) => HasCopy(e, x, p)
           /\ \A x : x # q => At(e, x) = At(db, x)
<1>1. db \in Index /\ Home(db) /\ disk[q] \in Found
  BY DEF RestoreInv, RestoreTypeOK
<1>2. \/ At(db, q) # {} /\ e = db
      \/ /\ At(db, q) = {} /\ e \in Index
         /\ \E p \in Nat : Landed(db, e, q, p) /\ (Joins(db, e, q, p) \/ Founds(db, e, q, p))
  BY <1>1, HandOffLands DEF Home
<1>3. CASE At(db, q) # {} /\ e = db
  BY <1>1, <1>3
<1>4. CASE /\ At(db, q) = {} /\ e \in Index
           /\ \E p \in Nat : Landed(db, e, q, p) /\ (Joins(db, e, q, p) \/ Founds(db, e, q, p))
  <2>1. PICK p \in Nat : Landed(db, e, q, p) /\ (Joins(db, e, q, p) \/ Founds(db, e, q, p))
    BY <1>4
  <2>2. \A l \in DOMAIN db.locations : db.locations[l].key \in Paths
    BY <1>1, PartsOf DEF Location
  <2>3. Home(e)
    BY <1>1, <1>4, <2>1, <2>2, LandingHome
  <2> DEFINE n == Len(db.locations) + 1
  <2>4. /\ DOMAIN e.locations = DOMAIN db.locations \cup {n} /\ n \notin DOMAIN db.locations
        /\ \A l \in DOMAIN db.locations : e.locations[l] = db.locations[l]
        /\ e.locations[n].key = q
        /\ DOMAIN e.projects = DOMAIN db.projects \cup {p}
    BY <1>1, <1>4, <2>1, LandingKeeps DEF Home
  <2> HIDE DEF n
  <2>5. At(e, q) # {} /\ \A x : x # q => At(e, x) = At(db, x)
    BY <2>4 DEF At
  <2>6. \A x, y : HasCopy(db, x, y) => HasCopy(e, x, y)
    BY <2>4 DEF HasCopy, At
  <2> QED
    BY <1>4, <2>3, <2>4, <2>5, <2>6
<1> QED
  BY <1>2, <1>3, <1>4

LEMMA FoundInv == ASSUME RestoreInv, NEW q \in Paths, HandOffFound(q) PROVE RestoreInv'
<1> DEFINE e == HandOff(db, disk[q], q, 0)
<1>1. disk[q] # None /\ db' = e /\ UNCHANGED <<disk, concluded, sidecar, moved, left>>
  BY DEF HandOffFound
<1>2. PICK p \in {db'.locations[l].project : l \in At(db', q)} :
         /\ xpEvents' = xpEvents \cup Applied(p, Claimed(db', p, pending))
         /\ pending' = pending \ Claimed(db', p, pending)
  BY DEF HandOffFound
<1>3. /\ db' \in Index /\ Home(db') /\ At(db', q) # {}
      /\ DOMAIN db.projects \subseteq DOMAIN db'.projects
      /\ \A x, y : HasCopy(db, x, y) => HasCopy(db', x, y)
      /\ \A x : x # q => At(db', x) = At(db, x)
  BY <1>1, HandOffHome
<1> HIDE DEF e
<1> DEFINE claimed == Claimed(db', p, pending)
<1>4. p \in DOMAIN db'.projects /\ HasCopy(db', q, p)
  BY <1>2, <1>3 DEF HasCopy, Home, CopiesStand, At
<1>5. \A r \in claimed : r \in pending /\ r.subject = Subject(db', p)
  BY DEF Claimed
<1> HIDE DEF claimed
<1>6. pending \subseteq Record /\ \A r \in pending : RecordFits(r)
  BY DEF RestoreInv, RestoreTypeOK, RecordsFit
<1>7. ASSUME NEW x \in Applied(p, claimed)
      PROVE  /\ x \in [project : DOMAIN db'.projects, key : Subjects, of : Paths] /\ disk[x.of] # None
             /\ Alone(x.of) => HasCopy(db', x.of, x.project)
  <2>1. PICK r \in claimed : \E w \in r.rows : x = [project |-> p, key |-> w.key, of |-> w.of]
    BY DEF Applied
  <2>2. PICK w \in r.rows : x = [project |-> p, key |-> w.key, of |-> w.of]
    BY <2>1
  <2>3. r \in Record /\ RecordFits(r) /\ r.subject = Subject(db', p)
    BY <1>5, <1>6
  <2>4. w \in [key : Subjects, of : Paths]
    BY <2>3 DEF Record
  <2>5. disk[w.of] # None /\ (Alone(w.of) => Subject(db', p) = SubjectOf(w.of))
    BY <2>3 DEF RecordFits
  <2>6. Alone(w.of) => HasCopy(db', w.of, p)
    BY <1>3, <1>4, <2>4, <2>5, SubjectFinds
  <2> QED
    BY <1>4, <2>2, <2>4, <2>5, <2>6
<1>8. xpEvents' = xpEvents \cup Applied(p, claimed) /\ pending' = pending \ claimed
  BY <1>2 DEF claimed
<1>9. \A x \in xpEvents : x \in [project : DOMAIN db'.projects, key : Subjects, of : Paths]
  BY <1>3 DEF RestoreInv, RestoreTypeOK
<1>10. RestoreTypeOK'
  <2>1. concluded' \subseteq DOMAIN db'.projects
    BY <1>1, <1>3 DEF RestoreInv, RestoreTypeOK
  <2>2. xpEvents' \subseteq [project : DOMAIN db'.projects, key : Subjects, of : Paths]
    BY <1>7, <1>8, <1>9
  <2> QED
    BY <1>1, <1>3, <1>6, <1>8, <2>1, <2>2 DEF RestoreInv, RestoreTypeOK
<1>11. Home(db)' /\ Families(disk)'
  BY <1>1, <1>3, HomeOfNext DEF RestoreInv, Families
<1>12. EarnedInv'
  <2>1. \A x \in xpEvents' : disk[x.of] # None /\ (Alone(x.of) => HasCopy(db', x.of, x.project))
    BY <1>3, <1>7, <1>8 DEF RestoreInv, EarnedInv
  <2>2. \A y, z : HasCopy(db, y, z)' <=> HasCopy(db', y, z)
    BY DEF HasCopy, At
  <2> QED
    BY <1>1, <2>1, <2>2, StillDisk DEF EarnedInv
<1>13. RecordsFit'
  BY <1>1, <1>8, StillDisk DEF RestoreInv, RecordsFit
<1>14. WaitingInv'
  <2>1. ASSUME NEW r \in pending', NEW y \in r.keys, Alone(y)
        PROVE  At(db', y) = {}
    <3>1. r \in pending /\ r \notin claimed /\ RecordFits(r) /\ y \in Paths
      BY <1>6, <1>8 DEF Record
    <3>2. CASE y # q
      BY <1>3, <2>1, <3>1, <3>2 DEF RestoreInv, WaitingInv
    <3>3. y # q
      <4>1. ASSUME y = q PROVE FALSE
        <5>1. r.subject = SubjectOf(q)
          BY <2>1, <3>1, <4>1 DEF RecordFits
        <5>2. r \in Claimed(db', p, pending)
          BY <1>3, <1>4, <2>1, <3>1, <4>1, <5>1, AloneClaims
        <5> QED
          BY <3>1, <5>2 DEF claimed
      <4> QED
        BY <4>1
    <3> QED
      BY <3>2, <3>3
  <2>2. \A y : At(db, y)' = At(db', y)
    BY DEF At
  <2> QED
    BY <1>1, <2>1, <2>2, StillDisk DEF WaitingInv
<1> QED
  BY <1>10, <1>11, <1>12, <1>13, <1>14 DEF RestoreInv

LEMMA RestoreInitInv == RestoreInit => RestoreInv
<1> SUFFICES ASSUME RestoreInit PROVE RestoreInv
  OBVIOUS
<1>1. /\ db = NoIndex /\ concluded = {} /\ xpEvents = {} /\ pending = {} /\ moved = {}
      /\ sidecar = [projects |-> {}, pending |-> {}]
  BY DEF RestoreInit, NoDocument
<1>2. disk \in [Paths -> Found \cup {None}] /\ Families(disk)
  BY RestoreAssumption DEF RestoreInit
<1>3. RestoreTypeOK
  BY <1>1, <1>2, NoIndexHome DEF RestoreTypeOK
<1>4. Home(db)
  BY <1>1, NoIndexHome
<1>5. EarnedInv /\ RecordsFit /\ WaitingInv
  BY <1>1 DEF EarnedInv, RecordsFit, WaitingInv
<1> QED
  BY <1>2, <1>3, <1>4, <1>5 DEF RestoreInv

LEMMA RestoreNextInv == ASSUME RestoreInv, [RestoreNext]_restoreVars PROVE RestoreInv'
<1>1. ASSUME NEW q \in Paths, Commit(q) \/ AddRemote(q) PROVE RestoreInv'
  BY <1>1, UserInv
<1>2. ASSUME NEW q \in Paths, HandOffFound(q) PROVE RestoreInv'
  BY <1>2, FoundInv
<1>3. ASSUME NEW p \in DOMAIN db.projects, HistoryEnds(p) PROVE RestoreInv'
  BY <1>3, HistoryInv
<1>4. ASSUME NEW p \in DOMAIN db.projects, PayAward(p) PROVE RestoreInv'
  BY <1>4, AwardInv
<1>5. CASE Export
  BY <1>5, ExportInv
<1>6. CASE Rebuild
  BY <1>6, RebuildInv
<1>7. CASE UNCHANGED restoreVars
  <2>1. UNCHANGED <<disk, db, concluded, xpEvents, pending, sidecar, moved>>
    BY <1>7 DEF restoreVars
  <2>2. RestoreTypeOK'
    BY <2>1 DEF RestoreInv, RestoreTypeOK
  <2>3. Home(db)' /\ Families(disk)'
    BY <2>1, StillHome DEF RestoreInv, Families
  <2>4. EarnedInv' /\ WaitingInv'
    BY <2>1, StillDisk DEF RestoreInv, EarnedInv, WaitingInv, HasCopy, At
  <2>5. RecordsFit'
    BY <2>1, StillDisk DEF RestoreInv, RecordsFit
  <2> QED
    BY <2>2, <2>3, <2>4, <2>5 DEF RestoreInv
<1> QED
  BY <1>1, <1>2, <1>3, <1>4, <1>5, <1>6, <1>7 DEF RestoreNext

LEMMA RestoreHolds == RestoreSpec => []RestoreInv
<1>1. RestoreInit => RestoreInv
  BY RestoreInitInv
<1>2. RestoreInv /\ [RestoreNext]_restoreVars => RestoreInv'
  BY RestoreNextInv
<1> QED
  BY <1>1, <1>2, PTL DEF RestoreSpec

\* The index, the retained rows and the records are of their types: nothing in
\* this part of the program removes a copy.
THEOREM SpecRestoreTypeOK == RestoreSpec => []RestoreTypeOK
<1>1. RestoreInv => RestoreTypeOK
  BY DEF RestoreInv
<1> QED
  BY <1>1, RestoreHolds, PTL

\* What was earned for a repository of its own is the project's that repository
\* is in, after any number of rebuilds, exports and walks in any order
\* (match_pending, claims).
THEOREM SpecRowsComeHome == RestoreSpec => []RowsComeHome
<1>1. RestoreInv => RowsComeHome
  <2> SUFFICES ASSUME RestoreInv, NEW x \in xpEvents, Alone(x.of), NEW l \in At(db, x.of)
               PROVE  db.locations[l].project = x.project
    BY DEF RowsComeHome
  <2>1. PICK m \in At(db, x.of) : db.locations[m].project = x.project
    BY DEF RestoreInv, EarnedInv, HasCopy
  <2>2. m = l
    BY DEF RestoreInv, Home, CopiesStand, At
  <2> QED
    BY <2>1, <2>2
<1> QED
  BY <1>1, RestoreHolds, PTL

\* A record whose copies are all repositories of their own waits no longer than
\* until they are found: the hand-off that finds one claims it.
THEOREM SpecRecordsComeBack == RestoreSpec => []RecordsComeBack
<1>1. RestoreInv => RecordsComeBack
  <2> SUFFICES ASSUME RestoreInv, NEW r \in pending, \A q \in r.keys : Alone(q)
               PROVE  \E q \in r.keys : At(db, q) = {}
    BY DEF RecordsComeBack
  <2>1. r.keys # {}
    BY DEF RestoreInv, RecordsFit, RecordFits
  <2> QED
    BY <2>1 DEF RestoreInv, WaitingInv
<1> QED
  BY <1>1, RestoreHolds, PTL

===========================================================================
