# Nerya: specifications of the trading core, the command queue, the funds gateway and approved swaps

Nerya is a local workspace in which agents build, backtest and run trading
strategies. Most of its 250,000 lines of Python are agents, tools, data and user
interface. This directory specifies the parts where an interleaving, a crash or a
late answer costs money or runs something nobody asked for:

* `src/nerya/trading` turns a plan into a capital reservation, an executor
  run, an order at a venue, fills, a position, and a settled reservation, while a
  background poller, cancels, sweeps and restarted processes work on the same
  SQLite rows;
* `src/nerya/agent/command_store.py` and `command_runtime.py` queue the commands of a
  conversation durably and run them one at a time, over restarts, lost
  leases, stops and approvals;
* `src/nerya/financial` moves funds: transfers, swaps, bridges and the allowances
  they need, authorised by grants or by a human, through calls that nothing
  serialises and a network that answers late;
* `src/nerya/wallet` swaps tokens on a chain once an operator has approved the frozen
  quote (`approval_service.py`), and books what was received in the strategy's position.

The directory holds TLA+ specifications of them, TLC configurations that
check them on small instances, and TLAPS proofs for the properties that hold for
every instance.

## 1. Inventory

### How an order travels

1. **Submission** (`submit.py`, `submit_trade_plan`). After risk and approval,
   takes an account snapshot (`account_snapshots.py`, `fresh_snapshot`, cached for
   `max_age_seconds`), sweeps expired reservations, asks `BudgetChecker.evaluate`
   (advisory), calls `reserve_checked` (binding, one `BEGIN IMMEDIATE`
   transaction), persists an executor run (`create_market_order`), links the two
   (`attach_executor`, a statement of its own) and runs the executor.
2. **Executor** (`executors/market_order.py`) under the **orchestrator**
   (`executors/orchestrator.py`). `step_executor` takes a file lock
   (`locks.py`), loads the run, calls `prepare` (which registers the order) or
   `step`, and persists the run in a `finally`. A step looks at the order row:
   cancel, finalize, place, or poll the venue.
3. **Poller** (`order_polling.py`), a thread of the local server. Every few
   seconds, for each order that is not terminal: fetch it, record new fills,
   mirror them into the position book, write the terminal state, settle the
   reservation. It takes no executor lock. An order whose placement is in doubt
   is looked up by client id and in the end given up as lost.
4. **Cancel** (`cancellation.py`). Called by an operator, by the orchestrator's
   `cancel`, by the executor's step and by the poller, under the executor's lock.
5. **Order tracker** (`order_tracker.py`). The rows of `orders` and `fills`, and
   the transition rules all of the above go through. `record_fill` is three
   autocommit statements under a lock that belongs to one `OrderTracker` object.
6. **Position book** (`position_book.py`). Merged positions and the shares of
   each strategy; `apply_fill` is idempotent on the fill id.
7. **Trading guard** (`guard.py`). A separate process that steps the executors
   when the server is not there to do it; a lease row and a file lock keep
   guards from working at once.

### How a command runs

A client submits a command; `accept` queues its row and `kick` starts the
process's worker thread for the conversation. The worker claims the first row of the queue
(which makes the process its owner, for a lease that a watcher thread renews),
executes the turn, saves its outcome in one transaction and
finishes the row in another. Operator messages (guides) are handed to the inbox of the
running turn by the watcher. A turn may end by asking for an approval: the queue is
held until a decision arrives, and an approved turn gets a continuation at the
front of the queue. Every operation first sweeps: the turn of an expired lease
turns "unconfirmed", and a queue that a new process finds is held until the operator
resumes it.

### How funds move

`prepare` stores an action with a quote. `execute` reads it, lets the adapter
validate it on the network, and reserves: quota of a grant or the approval of that
very quote, a row in the capital ledger, and a lease on the signer's wallet, in one
transaction. Before the signer is called the row is marked "submitting" after
a last look at the authorisation; the adapter records the transaction's identity
before it broadcasts. The answer marks the row; what is not known is asked for by
`reconcile` and declared unconfirmed by a sweep (`sdk/run_effects.py`).
`refresh` replaces a quote and `discard` ends an action; each reads before
it writes.

### How an approved swap runs

`request_approval` inserts an approval row and then appends the frozen request to the
file of pending approvals, which the interfaces show. An answer (`move`) takes the
request out of that file, files it as approved or rejected and then updates the row;
`publish_resolution` goes on to `resume_approved`, which claims the row ("resuming", never
taken over) and executes: under a file lock of the chain it checks the live
controls, the expiry and the state files of all swaps of the chain, takes a fresh quote,
writes "submitting" and calls the provider, which reports the transaction's identity
through `on_broadcast` before or after it sends. The state file then says submitted,
confirmed, failed or unknown. What landed is booked by `record_fill` (order, fill,
position), again at each `reconcile_execution`; the server's loop, the guard and HTTP
clients call that.

### Components, their state and what makes them correct

| Component | State | Operations | Must hold | Module |
| --- | --- | --- | --- | --- |
| Capital reservations | `capital_reservations` rows | reserve, reserve_checked, consume, release, attach_executor, expire_due, evaluate | never more reserved than there is; settled is final; nothing leaks | `CapitalReservations` |
| Account snapshots | `account_snapshots` rows | fresh_snapshot | budget decisions use a recent one | `CapitalReservations` |
| Order tracker | `orders`, `fills` | register, mark_submitted, update_state, record_fill, annotate, mark_seen, mark_not_found | no fill lost or doubled; a terminal row stays | `OrderExecution` |
| Market-order executor | `executor_runs` | prepare, step, on_cancel | places once; ends when the order ends | `OrderExecution` |
| Orchestrator | `executor_runs`, file locks | step_executor, cancel, run_once | one stepper per run; an exception settles | `OrderExecution` |
| Poller | adoption streaks in the order's meta | poll_active_live_orders | every venue end arrives; doubt is no refusal | `OrderExecution` |
| Cancellation | notes in the order's meta | cancel_tracked_order | canceled only if the venue says so | `OrderExecution` |
| Trading guard, server loop | `trading_guard_lease`, file lock | claim, release, run_once | one guard works; somebody always steps | `TradingGuard` |
| Position book | `positions`, `position_shares`, `position_events` | apply_fill, mark_externally_closed | sum of fills | one step of `OrderExecution`; module planned |
| Paper execution, virtual ledger | `virtual_*` | simulated fills | cash and positions add up | planned |
| Protection | `protection_rules`, runs | trigger, partial exit, flatten, native brackets | one exit per trigger, of the share that is there | planned |
| Approved swaps | `approvals`, pending and decided files, `wallet_swaps/*.json`, book | request_approval, move, resume_approved, execute_frozen_swap, reconcile_execution, record_fill | sent once and as answered; one per chain on its way; the state file is true; booked once, at last | `WalletSwap` |
| Approval and resume of trades | `approvals` | freeze, approve, claim, finish | an approved plan is submitted once | planned |
| Reconciliation | none of its own | compare book and venue | drift is reported | planned |
| Agent command queue | `agent_commands`, `agent_command_queues`, threads | submit, claim, heartbeat, finish, pause, resume, stop, move, remove, reconcile, resolve_approval, steer | one turn at a time, each once; a stop, a restart and a decision are honoured; nothing is stranded | `CommandQueue` |
| Financial gateway | `financial_actions`, `_grants`, `_usage`, `_resource_leases`, approvals | prepare, refresh, discard, execute, reserve, mark, reconcile, sweep | sent once, as authorised; held while uncertain; limits kept | `FinancialGateway` |
| Promotion, strategy lifecycle | stages, versions | promote, demote | stages in order | planned, last |

Not modelled, for the reasons `PROJECT.json` gives under `components`: risk
arithmetic, account profiles, strategy runtime and backtests, triggers,
connectors, HTTP API and interfaces, protocols, model calls, memory, skills,
data and research, security and operations.

### What is hard here

* **Grain.** `db/sqlite.py` opens connections in autocommit mode
  (`isolation_level=None`), so only what is between `BEGIN IMMEDIATE` and `COMMIT`
  is atomic; every other statement can be separated from the next by any other
  thread or process.
* **Two writers without a common lock.** Executor and poller record the same
  fills and write the same status.
* **Venue calls in the middle.** A row is read, the venue is asked, and what was
  read is used afterwards.
* **Doubt.** `place_order` can time out after the venue has accepted.
* **Crashes.** Each submission and each placement is several statements; the
  process can die between any two, and a later process resumes.
* **Time.** Reservations expire, snapshots, quotes and leases age.
* **Incarnations.** After a restart a new process finds rows that threads of the
  old one were working on; two processes may also be up at once.
* **Files and rows.** An approval is in a database row and in one of three files, which
  are written one after the other; a swap is in a state file, an order, a fill and two rows of
  the position.
* **Late results.** A worker whose lease was lost, a call whose action was refreshed
  and a signer that was given up all come back with an answer.

`PROJECT.json` lists the hazards one by one, each at its line, with the
properties that are about it.

## 2. Modules

| Module | What it is |
| --- | --- |
| `BudgetLedger` | Abstract: claims are admitted once and within the budget, and retired for good |
| `CapitalReservations` | The reservation table with submissions, sweeps, and the runs and orders as the table sees them |
| `CapitalReservations_proofs` | Its theorems |
| `OrderExecution` | One live market order with executor, poller, cancels, the venue and faults, statement by statement |
| `OrderExecution_proofs` | Its theorems, for any actors: row and venue, fills, types, the lock, placing and closing |
| `TradingGuard` | Guards, lease, lock and the server's loop |
| `TradingGuard_proofs` | Its theorems |
| `CommandQueue` | The command queue of one conversation with the processes, threads and people around it |
| `CommandQueue_proofs` | Its theorems about one turn at a time |
| `CommandQueueRecords_proofs` | Its theorems about what the records say of turns, stops, guides and restarts |
| `FinancialGateway` | Actions, grants, approvals, quota and wallet leases, and the calls that work on them |
| `FinancialGateway_proofs` | Its theorems |
| `WalletSwap` | Approved swaps: their papers, execution, transactions and booking |
| `WalletSwap_proofs` | Its theorems |
| `MC*` | Instances for TLC: sums, symmetry, constraints |

`CapitalReservations` and `OrderExecution` overlap on the executor and the order.
The first has many plans and sees of an order only what `expire_due` and the
settling calls see; the second has one order in full and of the reservation only its
state. The states `CapitalReservations` gives to `order` are those of the row of
`OrderExecution`, with `submitted`, `partially_filled` and `cancel_requested` as
"live".

### CapitalReservations

One action is one transaction. `pc[r]` is where `submit_trade_plan` stands for
plan `r`: `TakeSnapshot`, `Evaluate`, `ReserveChecked`, `CreateExecutor`,
`AttachExecutor`; `SubmitterCrash` may end it at each of them. `Due` is the `WHERE`
clause of `expire_due` with its two `NOT EXISTS`, and `Fits` the check that
`evaluate` and `reserve_checked` share. The executor appears as `Prepare`,
`PlaceAccepted`, `PlaceRefused`, `CloseOrder`, `LoseOrder`, `Finalize` and
`AbandonRun`, each with what it does to the reservation. Money is counted in whole
units; `Total` is the sum over a set of reservations, a constant operator that the
assumption `CapitalAssumption` describes and `MCTotal` computes.

Left out: exits that only reduce a position (they reserve no capital),
reservations of the financial gateway, several accounts (a ledger is per account),
a resized candidate (it is one of smaller `Cost`).

### OrderExecution

`act[a]` is the program counter of actor `a` and its locals: the row as it was read
(`seen`), the venue's answer (`ack`), the watermark `record_fill` has read
(`base`). The paths of the four kinds of actors share the actions of the code they
share, and `flow` says which function handles an answer, since the three callers
of `record_fill` differ in what they do with an `IntegrityError`, which size they
give the book, and which status they write.

| Code | Actions |
| --- | --- |
| `step_executor`, `prepare` | `TickBegin`, `Persist` |
| `MarketOrderExecutor.step` | `StepCancels`, `StepFinalizes`, `StepPlaces`, `StepPolls`, `StepFails`, `StepBlocked` |
| `_submit_live` | `PlaceAccepted`, `PlaceRefused`, `PlaceInDoubt`, `MarkDoubt`, `NoteDoubt`, `MarkSubmitted` |
| `_poll_live`, `poll_active_live_orders` | `PollLive` (the step's second reading of the row), `PollBegin`, `Fetch`, `FetchFails`, `AdoptFound`, `AdoptAbsent`, `AdoptFails`, `WriteStatus`, `Settle` |
| `record_fill`, `apply_fill` | `ReadWatermark`, `InsertFill`, `RollUp`, `ApplyBook` |
| `_cancel_locked` | `CancelBegin`, `StopBegin`, `Request`, `MarkRequested`, `SendCancel`, `Tail`, `AfterCancel` |
| the venue, time, death | `VenueFill`, `VenueEnd`, `Age`, `Crash` |

Statements that follow each other and whose separation no property here can tell
are one action: the note with `request_cancel`, `mark_seen` with the fetch before
it, the writes of an adoption, the three statements of `mark_not_found`, a
rejection with the answer or the gate that caused it. `apply_fill` is one action
here; its own interleavings belong to the module planned for the book.

The venue answers truthfully about the ids it has given, and says "open" of an
order that can still be filled, partly filled or not. Of a second acceptance only
the number is kept. `Dedupe` says whether the venue refuses a client order id it
has seen; both are checked. Not in the model: fees and prices, protection rules
attached after a fill, paper and shadow accounts, account bindings and
permissions, adoption from the list of trades. The strike counters stop
at their thresholds, beyond which the code does not look.

### TradingGuard

`lease` is the row with the time left of it; `Claim` is one transaction; a guard
then tries the file lock once (`BeginWork`). The lease of `interval * 3` can run
out while a guard works, which is what the lock is for. The server's loop looks at
the lease and then steps the executors without the lock; that a guard and the
server may step at the same time is by design, each run has a lock of its own.
A round polls the live orders before it steps (`Step`), and a poll that raises ends
it there (`Fail`): `run` logs the error and goes on with the lease it has. What else a
round does, after it has stepped the executors, is part of its end, `FinishWork`.

### CommandQueue

Every operation of `command_store.py` is one `BEGIN IMMEDIATE` transaction and one
action; `Swept`, `SweptQueue` and `SweptGuides` are what `_queue` does at the
head of most of them. `<<c, 0>>` is the turn of command `c`, and `Heir` of it, `<<c, 1>>`, the
continuation an approval adds. A member of `Proc` is an incarnation of the service
with its runtime epoch, so that a restart is the death of one and the work of another. The lease
is a boolean `live`: what matters is whether it has run out. `worker[p]` is the
drain thread of `_drain`, `resolver[p]` the callback of an approval between its two
transactions.

| Code | Actions |
| --- | --- |
| `accept`, `submit`, `kick` | `Submit`, `SubmitGuide` |
| `claim`, `_drain` | `Claim`, `GoIdle`, `Begin`, `End`, `Save`, `Finish`, `WorkerFails` |
| `heartbeat`, the lease | `Heartbeat`, `Expire` |
| `take_guide`, `signal_steer`, `consumed` | `Take`, `Steer`, `NoteSteer`, `Consume` |
| `control`, `reconcile` | `Pause`, `Resume`, `Stop`, `Remove`, `Move`, `Reconcile` |
| `resolve_approval`, `end_decision` | `Decide`, `Resolve`, `ResolveAccept`, `ResolveEnd` |
| `snapshot`; death | `Poll`; `Die` |

`kick` is part of its caller: a process that dies in between leaves what
one leaves whose new worker has done nothing yet.

Left out:

* Commands that `accept` admits as continuations other than those of an approval
  (`command_store.py:246`): a `resume` of a turn's checkpoint, and the answer to a plan
  decision or a question (`agent_interactions`, with the outcome "awaiting_input" and
  the refusals that pending interactions cause).
* `financial_decision` (`command_runtime.py:439`), which continues a turn after a decision
  on funds. Its steps are those of `resolve_approval`, save that it returns as soon as the
  continuation has a row, without closing the original turn as `resolve_approval` does.
* The second evidence of `reconcile`, an assistant message with the command's id
  (`command_runtime.py:514`). Only `finish` writes that id (`command_store.py:391`), and
  `_run` calls it after `save_outcome` (`command_runtime.py:310`), so a turn of this code
  that has the message has the outcome event, which is looked at first. The fallback
  matters for events that were lost otherwise.
* Editing a queued command and deleting a conversation, `recover_tasks` and runs linked to a
  turn, the events sent to clients, revisions (a call with a stale one is refused and
  changes nothing).

### FinancialGateway

`worker[w]` is one call of the gateway: `execute` (`ExecuteRead`, `MissingAllowance`,
`Reserve`, `NeedsApproval`, `Ask`, the fence and the submission), `discard`,
`reconcile`; `Prepare` and `Refresh` are single steps (`Refresh` checks the revision
again, which every other write raises). `Mark` is the `mark` of the store with the
release of quota, capital and lease. The network is `fate`: what has been
broadcast is pending until it lands or fails, whether or not anyone here knows.
A call may raise or die after each of its transactions (`GiveUp`, which also stands for
each refusal that writes nothing).

"submitted" stands for submitted, confirming and unconfirmed, which no test of the
gateway tells apart, and "ended" for a revoked, expired or exhausted grant. An approval
expires with its quote. A validation may answer after another call has reserved or sent
the action, and a signer may be silent for longer than the sweep's 120 seconds. Adapters are
those that record the transaction's identity before they broadcast. `Worth` is the
sum over a set of quotes, a constant operator that `WorthAssumption` describes and
`MCWorth` computes. Left out: amounts other than the quote's risk, fees, receipts,
several families of grants, and the task that a grant belongs to.

### WalletSwap

`worker[w]` is one call. Every write of a row or a file is a step, and `Die` ends a call
before any of them, with its file locks; for a call that books it also stands
for a database that fails.

| Code | Actions |
| --- | --- |
| `_request_approval_locked` | `RequestInsert`, `RequestShow` |
| `move` | `DecideRead`, `DecideReplace`, `DecideFile`, `DecideNote` |
| `resume_approved` | `Claim`, `NotClaimed`, `Finish` |
| `_execute_locked` | `Quote`, `Refuse`, `Begin`, `Raise`, `AnswerConfirmed`, `AnswerFailed`, `AnswerOpen` |
| `broadcast_callback`; the provider | `Record`; `Send` |
| `record_fill` of wallet, tracker and book | `BookInsert`, `BookClash`, `BookFound`, `BookRoll`, `BookOpen`, `BookShare`, `BookNote`, `Booked` |
| `reconcile_pending`, `reconcile_execution` | `Reconcile`, `AskLanded`, `AskFailed`, `AskOpen` |
| the network, time, death | `Settle`, `Expire`, `Die` |

`Early` is the set of swaps whose provider computes the transaction's identity before it
sends; the others learn it from the answer. Live controls are an input of each reading:
nothing here writes them, so every check may pass or be the reason of a
`Refuse`. "resumed" stands for "resume_failed" too, and "rejected" for each decision that is not an
approval. `apply_fill` writes event and share in one order for a first position
(`BookOpen`, `BookShare`) and in the other for a later one (`BookShare`, `BookNote`); `torn`
remembers the swaps whose booking was cut off in between.

Left out: swaps without a strategy (nothing is booked), the search for an equal pending
request, the contents of quotes and policies, paper swaps, the transaction that sets an
allowance, executions on behalf of the funds gateway, the state of the order's own row, and
amounts: a receipt below the approved floor is booked and marked as a breach, one whose
receiver got nothing is the fate "short", which `_execute_locked` calls failed
(`swap_approval.py:473`) and `_reconcile_locked` leaves as it is (`swap_approval.py:553`).

## 3. What is checked

Twelve runs. "Pass" runs finish with no error; a "violation" run checks one sentence of
the repository's documents or comments and ends in a counterexample.

| Run | Instance | Shows |
| --- | --- | --- |
| `capital` | 2 plans, all faults | `NoOvercommit`, `TtlSparesLiveOrders`, `SettledIsFinal`, `ImplementsLedger`, and `NoLeak`: each reservation is settled at last, unless its run was forsaken |
| `capital_double_spend` | 2 plans, capital for 1 | violated: `NoDoubleSpend` |
| `execution_serial` | executor, cancel, stop; 2 faults of the venue or the gates | `InLockStep`, `ReleasedMeansNoExposure`, `TerminalIsFinal`, `FilledIsConsumed` |
| `execution_fills` | executor, poller; no fault, a venue that refuses duplicates | violated: `FillsNotDoubled` |
| `execution_races` | 2 executors, poller, cancel, stop; 2 faults short of a crash; no deduplication | `RowBehindVenue`, `NoFillLost`, `CanceledIsOver`, `RejectedIsNotLive`, `PlacedOnce` |
| `execution_polled` | executor, poller; 2 crashes or failing calls | `ClosesAtLast` |
| `queue` | 2 commands, one of which may ask, 1 guide, 2 processes, one mortal | `OneAtATime`, `LeaseMatchesTurn`, `SuccessIsReal`, `StopWins`, `GuidesSettle`, `NoStranding`, `SettledStays`, `RestartAsks` |
| `queue_liveness` | 2 commands, 2 processes; one dies, the other's worker may fail | `OrphansSurface`, `Drains` |
| `queue_decision` | 3 commands, 1 process, no fault | violated: `DecisionHolds` |
| `funds` | bridge, allowance, transfer; 2 concurrent calls, 2 grants, 2 quotes | `SentOnce`, `WithinQuota`, `LeaseHasReason`, `NothingGivenBack`, `AuthorizedSubmission` |
| `swaps` | 2 swaps of a chain, 2 concurrent calls, 2 deaths | `SentOnce`, `OneOnItsWay`, `VerdictIsTrue`, `OperatorObeyed`, `BookedOnce`, `ReceiptsArrive` |
| `guard` | 2 guards and the server; 3 rounds fail | `OneGuardWorks`, `LeaseIsKept`, `AlwaysStepped` |

The two sides belong together. What holds among callers that share the file lock
(`execution_serial`) fails once the poller, which does not take it, records the same
fills (`execution_fills`, section 5); what is left with all of them is in `execution_races`. What holds of reservations outstanding
(`NoOvercommit`) does not hold of reservations outstanding or spent
(`NoDoubleSpend`), since a spent one is in neither sum until the snapshot is taken again.
A decision that is pending is respected (`queue`) until the order of
the queue is changed (`queue_decision`).

`FillsNotDoubled`, `NoFillLost` and `InLockStep` are about the lots a fill stands for, those
from `cum - size + 1` to `cum`: whether a lot is in two recorded fills, whether each lot of the
row's total is in one, and whether between two calls the fills together are the lots
`1..filled` of the row and the book has applied each of them. Sums would not notice two
errors that cancel.

`StopWins` is about a stop sent to a turn itself (`OwnStop`; a continuation inherits the
request of its original), and leaves out the turns that ended by asking for an approval: section 5.

Each module has a type invariant, `TypeOK`. The theorems `TypeCorrect` have it for every
instance, and the invariant of the guard's proofs includes it, so no run spends time on it.

### Bounds

* An order of two lots is the smallest that can be partly filled, and gives two
  cumulative sizes to race with. One actor of each kind makes every pair of kinds
  interleave. Two faults reach a retry of a retry; `MaxFaults` bounds them.
* `LostThreshold` is 2 (the code: 4), `MinAbsentCycles` 2 as in the code: the
  counters must be reached by more than one step, not by many.
* Venue ends are "canceled" and "expired": "rejected" is treated like "expired"
  by every line modelled.
* Two plans compete for a capital above the floor that holds one of them; ages and
  the TTL are one tick of a clock that stops at `MaxTime`, so that stale and fresh, due
  and not due occur and both reservations have the time to expire.
* Two guards and a lease of two ticks: a lease runs out under work and is claimed
  by the other. Three failing rounds are one for each guard and one more after a change.

* `queue`: of the complications second command, approval, guide, death and
  failing database, any two that include the death are combined between two
  processes, and a second command with an approval within one, the one that
  does not die: without a fault the two are alike (`Pairwise` in
  `MCCommandQueue`). All at once is beyond TLC; the proofs cover it for all
  the safety properties. Two turns in the queue are enough to be reordered and to hit
  `MAX_QUEUE`.
* `funds`: two calls race; around the bridge any two of new quote, expiry, ended
  grant, second grant, approval by hand and discard occur, with the other actions
  fewer (`Few` in `MCFinancialGateway`). Limits are chosen so that two
  actions fit and three, or a dearer quote, do not. Calls are interchangeable
  (`Callers`).
* `swaps`: two swaps of a chain are the fewest that can share a signer, one of each kind of
  provider; two calls race on either, and two deaths leave one swap cut off twice
  or both once. Calls come back as often as they like: what bounds the model is that a swap has one
  approval.

Deadlock is not checked: all plans may be decided and the clock at its bound, an order may be
settled with nobody asking for more, guards may all have stopped, a queue may be
empty and every process dead, every action may have ended, and every swap may be
over.

### Fairness

* `CapitalReservations`: a submission goes on or dies (`SubmitterCrash` is one of the steps of
  `Submission`), the poller loop comes round to each run and order (`api/local_server.py`,
  `_start_live_order_poller`), every use of the budget sweeps first, and time passes.
* `OrderExecution`: a call once begun goes on (weak fairness of `Work`, unless it
  crashes); the loops of executor and poller come round. Taking up a row is strongly fair for
  them: the file lock is tried at every round, cancels are finite in number between
  rounds, so at some round it is free. The venue works on an open order. No fairness for
  cancels, stops, crashes or failures.
* `TradingGuard`: loops go on, rounds end or fail, time passes; nothing makes a guard stop.
  That not every round fails (`MaxFailures`) is assumed, not granted by the code: section 5.
* `CommandQueue` (`FairSpec`): worker threads of living processes run, a lease
  that nobody renews runs out, and living processes are asked for their
  snapshot (clients poll it). Nothing is assumed of executing a turn, of the
  operator, or of faults.
* `WalletSwap` (`FairSpec`): calls go on unless they die; the loop that calls
  `reconcile_pending` every few seconds comes round to every swap it looks up, strongly fair
  because others may hold the lock of the chain when it does; and a network asked again and
  again about a settled transaction tells at last. Nothing is assumed of operators, of
  deliveries, of transactions settling, or of faults.

## 4. What is proved

The safety properties of the passing runs but three, with TLAPS, from the named assumptions on
constants, for any number of plans, actors, guards, commands, calls, faults and lots. The
three theorems about an order that need the absence of crashes have it as a
hypothesis in their statement, and section 5 shows what TLC finds without it.

* `CapitalReservations_proofs`, from `CapitalAssumption` (costs are natural numbers,
  `Total` is additive and monotone, the floor is within the capital):
  * `TypeCorrect`, `NeverOvercommitted`. The inductive invariant is
    `IInv == TypeOK /\ Accounts /\ NoRowYet /\ NoOvercommit`. `NoOvercommit` alone
    is not inductive: a check against a snapshot is worth something only because
    a snapshot never shows more than the starting capital (`Accounts`), and the
    admission of `r` adds exactly `Cost[r]` because a plan that has not reserved
    has no row (`NoRowYet`). Every step either only settles rows
    (`TransitionOnlySettles`, `SweepOnlySettles`, `FewerActiveFit`) or is the
    admission (`AdmissionFits`).
  * `SettledStaysFinal` and `LedgerImplemented` follow from `StepKinds`: every
    step leaves the table alone, settles a set of active rows, or settles the due
    ones and admits one that fits. The second is a refinement: the initial state
    maps to `LedgerInit`, and each kind of step to `Retire`, `Admit` or a stutter.
  * `LiveOrdersSpared`. That the sweep spares a linked run with a live order is
    inductive only with `Spares`: there is no run before the submitter creates it
    (`NoRunYet`) and an order row exactly since that run was prepared (`OrderWithRun`), a
    submitter that lives is within the TTL (`InTime`, from the guard of `Tick`), and
    what has expired has a closed order or was never linked and never will be
    (`ExpiredIsOver`, which `SweptIsOver` has for the sweep).
* `OrderExecution_proofs`, from `ExecutionAssumption`, for any actors:
  * `RowNeverAhead`. The invariant `IInv` adds to `RowBehindVenue` that the venue's own
    record is sound (`VenueInv`) and that whatever answer an actor holds, however old, is
    no more than the venue has filled now, and says "filled" only of a complete order
    (`AckInv`). The lemmas `WorkMoves` and `BeginMoves` say that each step changes one
    actor's locals within their type and takes its answer only from the venue;
    `RowStep` then goes through the actions that write the row.
  * `TypeCorrect`. The type of the fills and of the persisted run do not follow from
    the types alone, so `TInv` adds to `IInv` what each actor's control guarantees
    (`Ctl`): from reading the watermark to inserting the fill the answer stays above
    the watermark, only the poller settles without closing a run, and whoever
    persists has chosen a state.
  * `LockIsKept`. Whoever is in the middle of a step, a cancel or a stop holds the lock
    (`LockInv`); it needs where the poller and a cancel can be (`LockCtl`).
  * `PlacedAtMostOnce`, `CanceledAreOver`, `RejectedAreNotLive`. The lock is what makes
    them true although the poller takes none: `Unplaced` says how the row may look
    before the order is at the venue and that only the lock holder about to note it can
    have sent an order whose row says "created", `Closed` that nobody is about to place
    an order whose row is closed, and `LastWord` that an answer which closes the order
    is the venue's state for good. All three are without crashes; `PlacedAtMostOnce`
    also holds with them if the venue refuses an id it has seen.
  * `NoFillIsLost`. `FillInv` says that the recorded fills reach without a gap from the first
    lot to the row's total, to the watermark of an actor about to insert, and to the answer
    of one about to roll up. Fills are only added, so what they reached they reach ever
    after (`FillsGrow`); an inserted fill goes on from a watermark they reached (`Continues`).
* `TradingGuard_proofs`, from `GuardAssumption`: `GuardsExclude`, by the invariant that a working
  guard holds the lock, and `LeaseSafe`.

* `CommandQueue_proofs`, from `CommandAssumption`: `OneTurnAtATime`, `LeaseIsTheTurn`,
  `SettledForGood`, for any number of commands, processes and faults. The invariant
  `Safe` is an operator of the queue, the states, the workers, the outcomes and the
  history, so that the sweep can be shown safe once, for the swept values, before each
  operation is applied to them. It says that a turn that executes is the one in the
  rows or has been swept to "unconfirmed", and that while such a turn is
  unsettled no other can be claimed.
* `CommandQueueRecords_proofs`, from the same assumption: `TypeCorrect`, `SuccessesAreReal`,
  `StopsWin`, `GuidesSettled`, `NobodyStranded`, `RestartsAsk`. The ways a row can
  move are listed once (`Edge`) and every action is shown to move rows along them.
  `Kept` then adds to the invariant above: what workers know and saved outcomes say is what
  executing the turn came to (`Records`), a turn that was itself sent a stop is
  never queued or merely running again (`StopsAreKept`), open guides have active turns (`GuidesFit`), and the
  line has every queued turn once and nothing else (`FitsLine`), for which the
  lemmas on sequences say what joining, leaving and moving do. The dead have neither
  worker nor resolver (`DeadAreGone`). `RestartsAsk` is an action property: over a turn that
  a death left behind, the queue is paused or still bears the epoch or the ownership
  of the dead (`Held`, `Barred`), so that the next process to look pauses it before it could claim.
* `FinancialGateway_proofs`. From `FundsAssumption` and `GrantAssumption`, `Base`
  (type, what calls hold, one carrier for each submission, leases matching quota,
  actions untouched before they are reserved, quotes kept) gives `TypeCorrect`, `SentAtMostOnce`,
  `LeasesHaveReasons` and `SubmissionAuthorized`, and with what a row says once the network
  has its action, `FundsStayHeld`. `WorthAssumption` is added for `QuotaKept`:
  what the store counts as taken fits the limits (`QuotaTaken`; a reservation adds one
  quote to the set of takers and checks it, everything else only removes). None of them
  supposes that a validation or a signer is on time.

* `WalletSwap_proofs`, from `SwapAssumption`, for any swaps, chains, providers, workers and
  deaths: `TypeCorrect`, `SentAtMostOnce`, `VerdictsAreTrue`, `AtMostOneOnItsWay`,
  `OperatorsObeyed`, `BooksOnce`. The invariant `IInv` is built in layers, each inductive on
  the ones before. `Core` has the types, `Papers` (a request is undecided while its card can
  still be read, one call at a time answers it, and a claimed row is filed approved),
  `Claimed` (one call carries a claimed swap) and `Locked` (one call per chain holds its
  lock). `Truth` says for each place a call can be at what state file and network can be
  then (`Place`), and that nothing else of the chain is unresolved between the check and
  the broadcast (`Alone`), from which `OneOnItsWay` follows at `Send`. `Bookkeeping` says that
  a book is whole when nobody is at it (`Whole`), and how far it is when somebody is (`Half`).

Only model-checked is liveness (`NoLeak`, `FilledIsConsumed`, `ClosesAtLast`,
`AlwaysStepped`, `OrphansSurface`, `Drains`, `ReceiptsArrive`), which the prover does not
reach, and what holds only among the callers that share the executor's lock (`InLockStep`,
`ReleasedMeansNoExposure`, `TerminalIsFinal`): server and guard always run the poller too.

## 5. Where the code and its documents disagree

The three violation runs are explained, with the lines they quote, under `findings` in
`PROJECT.json`. The same models show more when a configuration is changed as
follows ("`DC`" is `ExecutionFills.cfg` with the property named: executor and poller, deduplicating
venue, no fault):

| Change | Property | What happens |
| --- | --- | --- |
| `Capital.cfg`, `Forsaken(r)` dropped from the property | `NoLeak` | A run that fails on its account profile (`executors/market_order.py:194`) leaves its order "created", and `expire_due` (`capital.py:326`) waits for it for ever; `capital.py:20` says a crashed executor "can't permanently leak budget" |
| `Capital.cfg`, `owned[r]` dropped from the property | `TtlSparesLiveOrders` | The submitter dies between `create_market_order` and `attach_executor` (`submit.py:988`, `:994`); the TTL expires the reservation, and the resumed run places an order without one |
| `DC` | `DeadStaysDead` | `update_state` after a fill (`executors/market_order.py:655`) revives a row closed meanwhile; `order_tracker.py:420` forbids that |
| `DC` | `ReleasedMeansUnfilled` | The executor loses the `INSERT` of a fill to the poller, its step raises `IntegrityError` (`executors/market_order.py:785`), and the clean-up releases capital that was spent |
| `DC` | `BookMatchesFills` | The poller gives the book the difference to a row read before the venue was asked (`order_polling.py:728`) |
| `DC`, `Polls = {}`, `Faults = {"crash"}`, `MaxFaults = 1`, `Dedupe = FALSE` | `PlacedOnce` | After a crash between `place_order` and `mark_submitted` the run places again (`executors/market_order.py:249`, `executors/orchestrator.py:300`) |
| the same with `Dedupe = TRUE` | `RejectedIsNotLive` | The retry is refused as a duplicate, and the live order hides behind a rejected row (`executors/market_order.py:596`) |
| the same with one member of `Cancels` | `CanceledIsOver` | After the crash a cancel takes the row for unsent (`cancellation.py:51`) |
| `DC`, `Faults = {"transport"}`, `MaxFaults = 2` | `LostIsAbsent` | Lookups that fail count like lookups that find nothing (`order_polling.py:667`) |
| `DC`, `Polls = {}`, one member of `Cancels`, `Bucket = "long"` | `BookMatchesFills` | A fill found by a cancel goes to the net bucket (`cancellation.py:90`) |
| `ExecutionPolled.cfg`, no fault, one member of `Cancels` | `ClosesAtLast` | An older rollup of one recorder overwrites a newer one, and each cancel then stops at the `IntegrityError` of the fill that exists (`cancellation.py:101`): the row stays "cancel_requested" |
| `Swaps.cfg`, `MaxFaults = 0` | `RequestsShown` | `move` rewrites the pending file under a lock of its own (`approval_service.py:200`), `jsonl.append` locks the file itself: a request appended between reading and rewriting is lost, so that no card shows it while its row is pending. `swap_approval.py:11` has it "show the record through the shared approval UI" |
| `Funds.cfg` | `HeldWhileUncertain` | `financial/store.py:1` promises that submitted or uncertain funds stay reserved. A validation that misses an allowance marks "awaiting_prerequisite" (`financial/gateway.py:301`) over what another call has reserved; or the sweep declares a submission unconfirmed (`sdk/run_effects.py:66`) while its signer still works. The action is then discarded or closed as failed, gives back what it holds, and is broadcast afterwards. What remains true is `NothingGivenBack` |
| `Guard.cfg`, no bound on failures in `Fail` | `AlwaysStepped` | A guard whose polls always raise (`guard.py:63`) claims, fails and claims again: it renews a lease under which nothing is stepped, and the server stays out (`api/local_server.py:492`) |
| `Swaps.cfg` | `exec[s].known /\ fate[s] = "short" ~> exec[s].status \notin Unresolved` | A swap whose receiver got nothing, known only from a reconciliation, stays "submitted" (`swap_approval.py:553`) and blocks its chain |

Further, read from the models and not stated as properties:

* Queue. A stopped turn whose saved outcome asks for an approval can, after a lost lease
  and a `reconcile`, be approved and continued. Pausing or resuming from another living
  process takes over the epoch while a worker owns the queue; if that owner
  ends and its process dies, an unheld queue waits for the next submit
  or resume, as it does after a `claim` that raises. A turn whose saved outcome is
  "unconfirmed" cannot be reconciled and blocks every claim. A guide that the turn
  reads after its lease was lost is reported as not consumed.
* Funds. A call that dies between reserving and submitting leaves "reserved" for
  ever (`financial/gateway.py:310`). A submitted action overwritten by
  "awaiting_prerequisite" can be neither reconciled, refreshed nor discarded. A
  discarded action comes back to life by that same mark. A matching grant that is
  exhausted makes a human approval ineffective (`financial/store.py:253`).
* Swaps. A booking cut off between the `INSERT` of the fill and the order's totals
  makes each reconciliation end in an `IntegrityError` (`order_tracker.py:464`): the swap
  is never booked. One cut off inside `apply_fill` is booked without a share, or twice
  (`position_book.py:458`, `:491`). A transaction whose provider died before it told the
  identity stays "submitting" or "unknown" and blocks its chain for ever
  (`swap_approval.py:370`), as does one that was signed and recorded but never sent. An
  approval that was filed, but whose row was not updated or not claimed before its call died, is
  resumed only if it is delivered again, and without the row never.

## 6. Plan

Done: capital reservations and their abstract ledger; the execution of one live
order; the guard; the command queue; the funds gateway; approved swaps; the proofs above.

Next, in this order:

1. `PositionBook`: shares and the merged row, `apply_fill` in its statements, two
   strategies and two processes; the abstract book (position = sum of the fills
   applied) it should implement, and where the interleaving of two fills breaks
   that; owned exits (`check_owned_exit`) racing fills.
2. `ApprovalResume`: the same papers for trade plans, whose claim is a lease that is
   taken over after a time (`db/repositories.py:122`): a plan is submitted at most once.
3. `Protection`: trigger, cancelled entries, flattener run, partial exits, restart
   at each statement: one exit per trigger, never more than the share.
4. `annotate` and the adoption from trades in `OrderExecution`; paper execution;
   promotion.

At most twelve runs are kept; as modules are added, violation runs whose cause is
shared with another give way and move to the table of section 5.

Proofs to come: abstract specifications of the queue (turns executed one at a time and
once) and of an order (placed once, fills growing, one end), and that `CommandQueue` and
`OrderExecution` implement them under the hypotheses of section 4; the abstract book, and
the invariants of the modules above.

## Running

    tlc -config Capital.cfg MCCapitalReservations
    tlc -config ExecutionRaces.cfg MCOrderExecution
    tlc -config Guard.cfg MCTradingGuard
    tlc -config Queue.cfg MCCommandQueue
    tlc -config Funds.cfg MCFinancialGateway
    tlc -config Swaps.cfg MCWalletSwap
    tlapm CapitalReservations_proofs.tla

and likewise for the other configurations (`Capital*`, `Execution*`, `Queue*`) and the
other `*_proofs` modules.
