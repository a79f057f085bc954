------------------------------ MODULE SyncRunner ------------------------------
(***************************************************************************)
(* The sync runner (sync/runner.rs, state.rs, store.rs, budget.rs,         *)
(* schedule.rs, tasks/) with the accounts whose tokens it spends           *)
(* (accounts/commands.rs, pump.rs, store.rs).                              *)
(*                                                                         *)
(* One thread takes one task at a time from a table that outlives the      *)
(* process; commands hand it tasks through an inbox and a flag, without    *)
(* the index lock.  The serve loop connects and disconnects an account;    *)
(* the Device Flow's own thread connects one too, or upgrades its scope.   *)
(*                                                                         *)
(* Abstracted: one login, whose account ids are never used again           *)
(* (AUTOINCREMENT), and one project it reads; the advisory sweep, whose    *)
(* row is keyed by no account; the values a read writes, the events, the   *)
(* length of a park and throttle_count, which only lengthens one; which    *)
(* of several queued rows of one priority goes first.  The runner's        *)
(* signal is left out: idle waits without reading it, so it can only end   *)
(* a wait that its timeout would end; the wait is a pause at the loop's    *)
(* head.                                                                   *)
(***************************************************************************)
EXTENDS Integers, FiniteSets

CONSTANTS
    MaxConnects,   \* bound: account rows inserted
    Budgets,       \* bound: how often a behaviour's environment acts, one member each: Device
                   \* Flows started, pages opened, responses that are no success or writes
                   \* that are refused, and ends of the process
    Rates          \* what a response's rate headers can say of the pool

ASSUME SyncRunnerAssumption ==
    /\ MaxConnects \in Nat
    /\ Budgets \subseteq [flows : Nat, asks : Nat, trouble : Nat, restarts : Nat]
    /\ Rates \subseteq {"plenty", "low", "empty"}

Listing(k) == [kind |-> "account_repos", key |-> k]
Probe(k) == [kind |-> "rename_probe", key |-> k]
Remote == [kind |-> "project_remote", key |-> 1]
Accounts == 1..MaxConnects
AccountTasks(k) == {Listing(k), Probe(k)}
Tasks == {Remote} \cup UNION {AccountTasks(k) : k \in Accounts}
NoTask == [kind |-> "none", key |-> 0]

VARIABLES
    rows,        \* sync_task_state: "waiting" is queued before its time, "due" a park whose
                 \* time has come, "old" an ok listing a whole interval ago
    account,     \* the account row's id, 0 when there is none
    secret,      \* the keychain holds the login's token
    budget,      \* sync_budget of the account, as last mirrored
    inbox,       \* tasks asked for and not written
    outstanding, \* the flag that says there is something to do
    loop,        \* where the runner's thread is
    hand,        \* the task it holds
    reader,      \* the account it read as the task's
    outcome,     \* what became of it
    work,        \* whether there is work, as the thread read it
    stopping,
    command,     \* what the serve loop is in the middle of
    pump,        \* the Device Flow: where it is, and the account it upgrades
    connects,    \* bound: account rows inserted
    flows, asks, trouble, restarts,   \* bounds: what is left of each
    stuck,       \* history: tasks whose settle was refused
    crossed      \* history: a connect met a disconnect, or a death fell inside one

turn == <<hand, reader, outcome>>
runner == <<inbox, outstanding, loop, turn, work, stopping>>
actors == <<command, pump>>
bounds == <<connects, flows, asks, trouble, restarts>>
history == <<stuck, crossed>>
vars == <<rows, account, secret, budget, runner, actors, bounds, history>>

Row(st, n) == [st |-> st, fails |-> n]
NoRow == Row("none", 0)
NoFlow == [at |-> "none", upgrades |-> 0]
Queued == Row("queued", 0)

InFlight == {"queued", "waiting", "running", "parked", "due"}

\* any_outstanding that leaves the parks out.
AnyRunnable(rs) == \E t \in Tasks : rs[t].st \in {"queued", "waiting", "running"}

\* any_outstanding: what the pick could claim, now or later.
AnyOutstanding(rs) == \E t \in Tasks : rs[t].st \in InFlight

\* due_listings: an enabled account never listed, or settled ok an interval ago.
DueListings(rs) == {t \in {Listing(account)} \cap Tasks : rs[t].st \in {"none", "old"}}

\* sweep_schedule
Swept(rs) == [t \in Tasks |-> IF t \in DueListings(rs) THEN Queued ELSE rs[t]]

\* A start that requeues what waited and not what ran.
RequeuedWaiting(rs) == [t \in Tasks |-> IF rs[t].st = "waiting" THEN Row("queued", rs[t].fails) ELSE rs[t]]

\* requeue_running of a start: every one interrupted is run again.
Requeued(rs) == [t \in Tasks |-> IF rs[t].st = "running" THEN Row("queued", rs[t].fails) ELSE rs[t]]

\* drain_inbox that queues whatever is asked for.
DrainedAnyway(rs, asked) == [t \in Tasks |-> IF t \in asked THEN Queued ELSE rs[t]]

\* drain_inbox: what is in flight, or blocked, is left as it is.
Drained(rs, asked) ==
    [t \in Tasks |-> IF t \in asked /\ rs[t].st \notin InFlight \cup {"blocked"} THEN Queued ELSE rs[t]]

\* take_next's promotion of the parks whose clock has come.
Promoted(rs) == [t \in Tasks |-> IF rs[t].st = "due" THEN Row("queued", rs[t].fails) ELSE rs[t]]

OnDemand(t) == t = Remote

\* What take_next may pick: on-demand first.
Picks(rs) ==
    LET runnable == {t \in Tasks : rs[t].st = "queued"} IN
    {t \in runnable : OnDemand(t) \/ ~\E u \in runnable : OnDemand(u)}

-----------------------------------------------------------------------------
(* apply_outcome and may_spend.                                              *)

\* apply_outcome: a park is not a failure, and the third failure defers.
Settled(r, answer) ==
    CASE answer = "done" -> Row("ok", 0)
      [] answer = "not_found" -> Row("ok", r.fails)
      [] answer = "next_page" -> Row("queued", 0)
      [] answer = "throttled" -> Row("parked", r.fails)
      [] answer = "unauthorized" -> Row("blocked", r.fails)
      [] answer = "transient" ->
            IF r.fails + 1 >= 3 THEN Row("deferred", 3) ELSE Row("waiting", r.fails + 1)

\* may_spend: "empty" is nothing left before the reset, "spent" the same past it; "low" and "stale"
\* are less than the reserve, before the reset and past it, of which only an on-demand task may spend.
MaySpend(t) == budget # "empty" /\ (budget \in {"low", "stale"} => OnDemand(t))

Outcomes(t) == {"done", "not_found", "throttled", "unauthorized", "transient"}
               \cup (IF t.kind = "account_repos" THEN {"next_page"} ELSE {})

-----------------------------------------------------------------------------
(* The runner's thread.                                                      *)

Goto(label) == loop' = label

\* The thread's memory, as a process starts with it and as one leaves it.
Blank ==
    /\ inbox' = {} /\ outstanding' = FALSE
    /\ hand' = NoTask /\ reader' = 0 /\ outcome' = "none"
    /\ work' = FALSE /\ stopping' = FALSE

\* start: the crash leftovers are requeued and the schedule swept before the thread runs.
Start ==
    /\ loop = "off"
    /\ rows' = Swept(Requeued(rows))
    /\ outstanding' = AnyOutstanding(rows')
    /\ Goto("top")
    /\ UNCHANGED <<account, secret, budget, inbox, turn, work, stopping, actors, bounds, history>>

\* start whose transaction is refused: the thread runs over what the last one left.
StartRefused ==
    /\ loop = "off"
    /\ trouble > 0
    /\ trouble' = trouble - 1
    /\ stuck' = stuck \cup {t \in Tasks : rows[t].st = "running"}
    /\ Goto("top")
    /\ UNCHANGED <<rows, account, secret, budget, inbox, outstanding, turn, work, stopping,
                   actors, connects, flows, asks, restarts, crossed>>

\* run_loop's head: the schedule when its time has come ...
PollComes ==
    /\ loop = "top" /\ ~stopping
    /\ Goto("poll")
    /\ UNCHANGED <<rows, account, secret, budget, inbox, outstanding, turn, work, stopping, actors,
                   bounds, history>>

\* ... a task, when there is work ...
Top ==
    /\ loop = "top" /\ ~stopping
    /\ outstanding
    /\ Goto("take")
    /\ UNCHANGED <<rows, account, secret, budget, inbox, outstanding, turn, work, stopping, actors,
                   bounds, history>>

\* ... or, asked to stop, the thread is joined and the pump after it.
Exit ==
    /\ loop = "top" /\ stopping
    /\ pump.at # "stored"
    /\ Goto("off") /\ Blank
    /\ pump' = NoFlow
    /\ stuck' = {}
    /\ UNCHANGED <<rows, account, secret, budget, command, bounds, crossed>>

\* poll_schedule's transaction.
Poll ==
    /\ loop = "poll"
    /\ rows' = Swept(rows)
    /\ work' = AnyOutstanding(rows')
    /\ Goto("look")
    /\ UNCHANGED <<account, secret, budget, inbox, outstanding, turn, stopping, actors, bounds, history>>

\* take_next's transaction: drain, promote, and then there is nothing to run ...
Runnable == Promoted(Drained(rows, inbox))

TakeNone ==
    /\ loop = "take"
    /\ Picks(Runnable) = {}
    /\ rows' = Runnable
    /\ work' = AnyOutstanding(Runnable)
    /\ inbox' = {}
    /\ Goto("look")
    /\ UNCHANGED <<account, secret, budget, outstanding, turn, stopping, actors, bounds, history>>

\* ... or a row is picked and claimed.
Take(t) ==
    /\ loop = "take"
    /\ t \in Picks(Runnable)
    /\ rows' = [Runnable EXCEPT ![t].st = "running"]
    /\ work' = TRUE
    /\ hand' = t
    /\ inbox' = {}
    /\ Goto("look")
    /\ UNCHANGED <<account, secret, budget, outstanding, reader, outcome, stopping, actors, bounds,
                   history>>

\* The transaction is refused: the inbox was emptied in memory, and the flag is left as it is.
TakeRefused ==
    /\ loop = "take"
    /\ trouble > 0
    /\ trouble' = trouble - 1
    /\ inbox' = {}
    /\ Goto("top")
    /\ UNCHANGED <<rows, account, secret, budget, outstanding, turn, work, stopping, actors,
                   connects, flows, asks, restarts, stuck, crossed>>

\* A flag set from the table alone.
LookAtTable ==
    /\ loop = "look"
    /\ Goto("store")
    /\ UNCHANGED <<rows, account, secret, budget, inbox, outstanding, turn, work, stopping, actors,
                   bounds, history>>

\* outstanding || !inbox_is_empty(), read ...
Look ==
    /\ loop = "look"
    /\ work' = (work \/ inbox # {})
    /\ Goto("store")
    /\ UNCHANGED <<rows, account, secret, budget, inbox, outstanding, turn, stopping, actors,
                   bounds, history>>

\* ... and stored, over whatever an enqueue stored in between.
Store ==
    /\ loop = "store"
    /\ outstanding' = work
    /\ work' = FALSE
    /\ Goto(IF hand # NoTask THEN "verdict" ELSE "top")
    /\ UNCHANGED <<rows, account, secret, budget, inbox, turn, stopping, actors, bounds, history>>

\* The account's row, under the lock: a project no account reads is not found, a task of an
\* account that is gone fails.
HasAccount(t) == IF t = Remote THEN account # 0 ELSE account = t.key

\* run_one: the budget decides whether a request is issued at all, and then the account is read:
\* two looks under the lock, as one.
Verdict ==
    /\ loop = "verdict"
    /\ IF ~MaySpend(hand) THEN outcome' = "throttled" /\ Goto("settle") /\ UNCHANGED reader
       ELSE IF HasAccount(hand) THEN reader' = account /\ Goto("token") /\ UNCHANGED outcome
       ELSE /\ outcome' = IF hand = Remote THEN "not_found" ELSE "transient"
            /\ Goto("settle")
            /\ UNCHANGED reader
    /\ UNCHANGED <<rows, account, secret, budget, inbox, outstanding, hand, work, stopping,
                   actors, bounds, history>>

\* token_for, outside the lock.
ReadToken ==
    /\ loop = "token"
    /\ IF secret THEN Goto("request") /\ UNCHANGED outcome
                 ELSE outcome' = "transient" /\ Goto("settle")
    /\ UNCHANGED <<rows, account, secret, budget, inbox, outstanding, hand, reader, work,
                   stopping, actors, bounds, history>>

\* The request, and the transaction that mirrors the budget and writes the page: it fails for an
\* account that went meanwhile, whose key the budget row names.
Request(answer, rate) ==
    /\ loop = "request"
    /\ answer \in Outcomes(hand)
    /\ answer # "done" => trouble > 0
    /\ trouble' = IF answer = "done" THEN trouble ELSE trouble - 1
    /\ IF account = reader
       THEN outcome' = answer /\ budget' = rate
       ELSE outcome' = "transient" /\ UNCHANGED budget
    /\ Goto("settle")
    /\ UNCHANGED <<rows, account, secret, inbox, outstanding, hand, reader, work, stopping,
                   actors, connects, flows, asks, restarts, history>>

\* What settle leaves in memory, whether or not its row was written.
Settling ==
    /\ loop = "settle"
    /\ inbox' = IF hand.kind = "account_repos" /\ outcome = "done"
                THEN inbox \cup {Probe(hand.key)} ELSE inbox
    /\ outstanding' = TRUE
    /\ hand' = NoTask /\ reader' = 0 /\ outcome' = "none"
    /\ Goto("top")
    /\ UNCHANGED <<account, secret, budget, work, stopping, actors, connects, flows, asks, restarts,
                   crossed>>

\* settle: the row as it is now, a fresh one if it went; a finished listing asks for the probe.
Settle ==
    /\ Settling
    /\ rows' = [rows EXCEPT ![hand] = Settled(@, outcome)]
    /\ UNCHANGED <<trouble, stuck>>

\* settle whose write is refused: nothing says so, and the row stays running.
SettleRefused ==
    /\ Settling
    /\ trouble > 0
    /\ trouble' = trouble - 1
    /\ stuck' = stuck \cup {hand}
    /\ UNCHANGED rows

\* The clock: a park's or a backoff's time, a listing's interval, the budget's reset.
ClockComes(t) ==
    /\ rows[t].st \in {"parked", "waiting", "ok"}
    /\ rows[t].st = "ok" => t.kind = "account_repos"
    /\ rows' = [rows EXCEPT ![t].st =
                    CASE @ = "parked" -> "due" [] @ = "waiting" -> "queued" [] @ = "ok" -> "old"]
    /\ UNCHANGED <<account, secret, budget, runner, actors, bounds, history>>

BudgetResets ==
    /\ budget \in {"empty", "low"}
    /\ budget' = IF budget = "empty" THEN "spent" ELSE "stale"
    /\ UNCHANGED <<rows, account, secret, runner, actors, bounds, history>>

-----------------------------------------------------------------------------
(* The serve loop, one command at a time.                                    *)

\* on_project_visible: the task is pushed, and then the flag is set.
Ask ==
    /\ command = "none" /\ loop # "off" /\ ~stopping
    /\ asks > 0
    /\ asks' = asks - 1
    /\ inbox' = inbox \cup {Remote}
    /\ command' = "flag"
    /\ UNCHANGED <<rows, account, secret, budget, outstanding, loop, turn, work,
                   stopping, pump, connects, flows, trouble, restarts, history>>

SetFlag ==
    /\ command = "flag"
    /\ outstanding' = TRUE
    /\ command' = "none"
    /\ UNCHANGED <<rows, account, secret, budget, inbox, loop, turn, work, stopping,
                   pump, bounds, history>>

\* projects.requeue: what was deferred, of the project and of the account that reads it.  The
\* runner is told nothing.
Requeue ==
    /\ command = "none" /\ loop # "off" /\ ~stopping
    /\ \E t \in {Remote} \cup AccountTasks(account) : t \in Tasks /\ rows[t].st = "deferred"
    /\ rows' = [t \in Tasks |-> IF t \in {Remote} \cup AccountTasks(account) /\ rows[t].st = "deferred"
                                THEN Queued ELSE rows[t]]
    /\ UNCHANGED <<account, secret, budget, runner, actors, bounds, history>>

Meets(who) == crossed' = (crossed \/ who)

\* disconnect_off_lock that goes on to the rows over a keychain that kept the secret.
DeleteNothing ==
    /\ command = "none" /\ loop # "off" /\ ~stopping
    /\ account # 0
    /\ command' = "disconnect"
    /\ Meets(pump.at = "stored")
    /\ UNCHANGED <<rows, account, secret, budget, runner, pump, bounds, stuck>>

\* disconnect_off_lock: the identity is read, then the secret goes, off the lock ...
DeleteSecret ==
    /\ command = "none" /\ loop # "off" /\ ~stopping
    /\ account # 0
    /\ secret' = FALSE
    /\ command' = "disconnect"
    /\ Meets(pump.at = "stored")
    /\ UNCHANGED <<rows, account, budget, runner, pump, bounds, stuck>>

\* ... and then the rows: the account's, what cascades, and its tasks by name.
DeleteRows ==
    /\ command = "disconnect"
    /\ account' = 0
    /\ budget' = "unknown"
    /\ rows' = [t \in Tasks |-> IF t \in AccountTasks(account) THEN NoRow ELSE rows[t]]
    /\ command' = "none"
    /\ UNCHANGED <<secret, runner, pump, bounds, history>>

\* insert_account: one row per login, whose id is a new one; a second is refused.
Insert ==
    IF account = 0
    THEN account' = connects + 1 /\ connects' = connects + 1
    ELSE UNCHANGED <<account, connects>>

\* shutdown
Stop ==
    /\ command = "none" /\ loop # "off" /\ ~stopping
    /\ restarts > 0
    /\ restarts' = restarts - 1
    /\ stopping' = TRUE
    /\ UNCHANGED <<rows, account, secret, budget, inbox, outstanding, loop, turn, work,
                   actors, connects, flows, asks, trouble, history>>

-----------------------------------------------------------------------------
(* The Device Flow's thread.                                                 *)

\* accounts.connect, or accounts.upgradeScope of the account there is.
StartFlow ==
    /\ command = "none" /\ loop # "off" /\ ~stopping
    /\ pump.at = "none"
    /\ flows > 0
    /\ flows' = flows - 1
    /\ \E k \in {0, account} :
          /\ k = 0 => connects < MaxConnects
          /\ pump' = [at |-> "polling", upgrades |-> k]
    /\ UNCHANGED <<rows, account, secret, budget, runner, command, connects, asks, trouble, restarts,
                   history>>

\* The flow is denied, expires, or is cancelled before its grant.
EndFlow ==
    /\ pump.at = "polling"
    /\ pump' = NoFlow
    /\ UNCHANGED <<rows, account, secret, budget, runner, command, bounds, history>>

\* connect_granted: the keychain before the row ...
StoreGrant ==
    /\ pump.at = "polling"
    /\ ~stopping
    /\ secret' = TRUE
    /\ pump' = [pump EXCEPT !.at = "stored"]
    /\ Meets(command = "disconnect" \/ (pump.upgrades # 0 /\ pump.upgrades # account))
    /\ UNCHANGED <<rows, account, budget, runner, command, bounds, stuck>>

\* ... and then the row: an upgrade's must still be there.
InsertGrant ==
    /\ pump.at = "stored"
    /\ IF pump.upgrades # 0 THEN UNCHANGED <<account, connects>>
       ELSE Insert
    /\ pump' = NoFlow
    /\ UNCHANGED <<rows, secret, budget, runner, command, flows, asks, trouble, restarts, history>>

\* The process dies.
Crash ==
    /\ loop # "off"
    /\ restarts > 0
    /\ restarts' = restarts - 1
    /\ Meets(command = "disconnect" \/ pump.at = "stored")
    /\ Goto("off") /\ Blank
    /\ command' = "none" /\ pump' = NoFlow
    /\ stuck' = {}
    /\ UNCHANGED <<rows, account, secret, budget, connects, flows, asks, trouble>>

-----------------------------------------------------------------------------
Init ==
    /\ rows = [t \in Tasks |-> NoRow]
    /\ account = 0 /\ secret = FALSE /\ budget = "unknown"
    /\ inbox = {} /\ outstanding = FALSE /\ loop = "off" /\ hand = NoTask
    /\ reader = 0 /\ outcome = "none" /\ work = FALSE
    /\ stopping = FALSE
    /\ command = "none" /\ pump = NoFlow
    /\ connects = 0
    /\ \E b \in Budgets :
          flows = b.flows /\ asks = b.asks /\ trouble = b.trouble /\ restarts = b.restarts
    /\ stuck = {} /\ crossed = FALSE

Thread == Top \/ Exit \/ Poll \/ TakeNone \/ TakeRefused \/ Look \/ Store \/ Verdict
          \/ ReadToken \/ Settle \/ SettleRefused
          \/ \E t \in Tasks : Take(t)
          \/ \E answer \in Outcomes(hand), rate \in Rates : Request(answer, rate)

Next ==
    \/ Start \/ StartRefused \/ PollComes \/ Thread
    \/ \E t \in Tasks : ClockComes(t)
    \/ BudgetResets
    \/ Ask \/ SetFlag \/ Requeue \/ DeleteSecret \/ DeleteRows \/ Stop
    \/ StartFlow \/ EndFlow \/ StoreGrant \/ InsertGrant
    \/ Crash

\* The thread runs, and looks at the flag between two polls, which are a minute apart; of one
\* priority the oldest deadline goes first, so none waits for ever; a command under way ends, the
\* clock does not stand still, and a program that closed is started again.  Nobody has to ask,
\* connect, crash or stop; a response is a page's last in the end, as the bound on trouble says.
Fairness ==
    /\ WF_vars(Start) /\ WF_vars(Thread) /\ WF_vars(PollComes) /\ SF_vars(Top)
    /\ \A t \in Tasks : SF_vars(Take(t))
    /\ WF_vars(SetFlag) /\ WF_vars(DeleteRows) /\ WF_vars(InsertGrant)
    /\ \A t \in Tasks : WF_vars(ClockComes(t))
    /\ WF_vars(BudgetResets)

Spec == Init /\ [][Next]_vars /\ Fairness

-----------------------------------------------------------------------------
(* What must hold.                                                           *)

TypeOK ==
    /\ rows \in [Tasks -> [st : InFlight \cup {"none", "ok", "old", "deferred", "blocked"}, fails : 0..3]]
    /\ account \in Accounts \cup {0}
    /\ budget \in {"unknown", "plenty", "low", "stale", "empty", "spent"}
    /\ account = 0 => budget = "unknown"
    /\ inbox \subseteq Tasks /\ hand \in Tasks \cup {NoTask}
    /\ loop \in {"off", "top", "poll", "take", "look", "store", "verdict", "token",
                 "request", "settle"}

\* A row is running only while the thread holds it: the loop counts a running row as work, so one
\* nobody holds keeps it polling for ever and is never read again.  A write that was refused, which
\* nothing reports, is the one way there (requeue_running, take_next, settle).
RunningIsHeld ==
    loop # "off" => \A t \in Tasks : rows[t].st = "running" => t = hand \/ t \in stuck

\* An account at rest has its token, and a token its account: disconnect lets go of the secret
\* before the row, a connect stores it before the row, and one meets the other only where the two
\* threads cross or the process dies between (connect_pat, connect_granted, disconnect_off_lock).
SecretIsTheAccounts ==
    command = "none" /\ pump.at # "stored" /\ ~crossed => (secret <=> account # 0)

\* The instant a server named is kept, and so is a refusal of the token: asking again, sweeping,
\* requeueing or restarting moves neither; only the clock and a disconnect do (drain_inbox,
\* sweep_schedule, reset_for, requeue_running).
ParksAreKept ==
    [][\A t \in Tasks :
         /\ rows[t].st = "parked" => rows'[t].st \in {"parked", "due", "none"}
         /\ rows[t].st = "blocked" => rows'[t].st \in {"blocked", "none"}]_vars

\* What was asked for is tried, or was already blocked: an ask that lands between the thread's look
\* at the inbox and its store of the flag is found by the next poll (enqueue, take_next,
\* poll_schedule).  A refused transaction and the end of the process lose one, so this is of the
\* last faults' aftermath.
Gone(t) == t # Remote /\ t.key # account
Calm == trouble = 0 /\ restarts = 0 /\ ~stopping

AskedIsTried ==
    \A t \in Tasks :
        (t \in inbox /\ Calm) ~> (hand = t \/ rows[t].st = "blocked" \/ t \in stuck \/ Gone(t))

\* A row in flight is taken in the end, parks included, unless its account goes (any_outstanding,
\* take_next's promotion and pick).
InFlightIsTried ==
    \A t \in Tasks : rows[t].st \in InFlight ~> (hand = t \/ rows[t].st = "none" \/ t \in stuck)

\* budget.rs: "Past the reset the mirror is stale and the request is what refreshes it, so the
\* answer is Spend ... rather than a park that never ends": a listing in flight is requested.
ParksEnd ==
    \A k \in Accounts :
        (account = k /\ rows[Listing(k)].st \in InFlight)
            ~> (reader = k \/ account # k \/ loop = "off" \/ ~secret \/ Listing(k) \in stuck)

=============================================================================
