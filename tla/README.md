# Verification of MarketOS: coordination and money path

MarketOS launches, watches and scales advertising campaigns on several ad
platforms and forwards the orders they bring to dropship suppliers. Most of the
repository is arithmetic, reporting and adapters. What can go wrong in a way a
unit test hardly reaches is the coordination: journals that must survive a
crash, launches that must be rolled back, circuit breakers with many callers,
webhooks that are delivered twice, two processes on one database, a spending cap
that several threads and processes keep, and a standby that takes over on a stale
heartbeat and cannot tell a slow primary from a dead one. That is what these modules
model.

## Running

    tlc -workers 2 -config <Run>.cfg <Module>.tla     # see the table of runs
    tlapm PlatformAdapterProofs.tla
    tlapm LaunchTransactionProofs.tla
    tlapm OrderFulfillmentProofs.tla
    tlapm TakeoverProofs.tla
    tlapm AdSpendProofs.tla
    tlapm EventStoreProofs.tla
    tlapm WorkflowProofs.tla
    tlapm RateLimiterProofs.tla

## Inventory

Paths are relative to `src/`. "State" is what outlives a call.

| Component | State | Operations | Talks to | Hard part | Correct when |
|---|---|---|---|---|---|
| Event store, `backend/orchestration/event_store.py` | append-only JSONL file; per process an index by event type with the (mtime, size) it was built at | `append`, `events_of_type`, `incomplete_workflows` | every component journals here; alerts read it | torn writes, two processes on one file, index rebuilt without the lock | recovery names exactly the workflows on file that have not ended; the index never misses a record |
| Workflow engine, `.../workflow.py` | results, completed steps of one `run` | `run`, `_run_step`, `_compensate` | step functions, event store | steps, compensations and appends that raise; death at any point | failure undoes all completed steps in reverse; no step runs on missing inputs |
| Platform health, `.../state_machine.py` | breaker state, failure count, two time stamps, a lock | `record_success`, `record_failure`, `allow_request` | adapter, launch gate | outcomes recorded out of order by many callers | opens after the threshold, finds a recovered platform again |
| Rate mesh and adapter, `.../rate_mesh.py`, `.../adapter.py` | penalty per platform, global brake, a lock | `acquire`, `record_throttle`, `record_success`, `call`, `available` | health, rate limiter, clients | two locks taken one after the other | penalties run their time |
| Window limiter, `backend/integrations/rate_limiter.py` | time stamps of the last grants | `acquire` | mesh, clients | sleeping outside the lock, deadline | never more grants than the limit in a window; every acquire returns |
| Launch transaction, `backend/orchestration/transaction.py` | one lock per process; results filled by threads | `execute`, `_compensate` | health, launchers of `backend/launch/orchestrator.py`, pausers, event store | join timeout, lost answers, pauses that fail or are refused unseen, death with campaigns live | the verdict says what spends money; a rollback leaves no live campaign unattended; a crash is visible |
| Order intake, `api/routes/webhooks.py`, `backend/commerce/orders.py`, `backend/data/repositories/order_repository.py` | `commerce_orders`, `webhook_events` in sqlite | Stripe and Shopify webhooks, `ingest_order`, `reverse_order`, `update_fulfillment` | ROAS repository, LTV tracker, event store | redelivery, out-of-order events, a request aborted half-way | a paid order is never lost, an unpaid one never placed |
| Fulfillment, `backend/commerce/fulfillment.py`, `backend/validation/suppliers.py` | the same rows; the supplier's orders | `process_new_orders`, `poll_placed_orders`, `retry_failed_orders` | supplier APIs | runs in another process than the webhooks; crash between placing and writing; a look-up that fails; an unconfigured client | an order is placed again only where a look-up failed; a row is not ahead of its supplier |
| Orchestrator, `orchestrator/main.py`, `core/system/phase_controller.py`, `backend/aws/heartbeat.py`, `backend/patterns/worker.py` | tick count, phase, checkpoint, limiters; one heartbeat object in S3 | tick, checkpoint with heartbeat, SIGTERM, `_await_takeover`, promotion, `_with_retry` | all workers, S3 | lost heartbeats, a crash at any point, takeover without fencing | a primary that is up is taken for dead only when lost heartbeats and slow ticks make up the limit; a dead one is replaced |
| Risk gate, `core/risk/global_risk_engine.py`, `backend/risk/gate.py`, routes of `api/routes/agents_risk.py` | per process, in memory: kill switch, spend log of 24 hours, a lock | `enforce`, `record_spend`, the switch | launches, budget scaling, execution loop (capital) | check, act and record are three steps of several threads; the check itself is two critical sections; a restart forgets | the daily cap holds up to what is in flight; the log is true to the account; the switch stops what comes after it |
| Launch from a playbook, `backend/integrations/tiktok_ads.py`, `core/content/playbook.py`, `orchestrator/main.py` (`_run_scaling_worker`), `api/routes/tiktok.py` | `last_launched_at` in memory and in `playbook.json` | `launch_from_playbook`, `mark_launched`, reload on import | risk gate, ad platform | a crash or a lost answer between the campaign and its mark | one campaign per cooldown |
| Budget scaling and cache, `backend/optimization/*`, `backend/patterns/cache.py` | metric log, cached aggregates | decide, actuate (`scale_budget`) | risk gate, clients | as for launches | a raise is granted and recorded like a launch |
| Everything else | see `components` in `PROJECT.json` | | | | |

## Modules

| Module | Models | State ↔ code |
|---|---|---|
| `EventStore` | event store | `log`: the lines of the file, each `whole`, `unterminated` (all but its newline) or `partial`; `index[p]`: `_by_type` with `_indexed_size`; `pc`, `snap`: a reader between stat, scan and publish; `wf`: where the workflow whose records are appended is |
| `Workflow` | workflow engine | `plan`: the steps with dependencies, required steps and steps that have a compensation, chosen in Init; `res`, `completed`, `undo`: locals of `run` and `_compensate`; `effect`: what step functions did to the world; `journal`: the appended records |
| `PlatformHealth` | circuit breaker, as functions on a record | time stamps are kept as what is left of their cooldown |
| `PlatformAdapter` | adapter + mesh + breakers, EXTENDS `PlatformHealth` | `pc[c]`: where a caller is in `call`; `penaltyLeft`, `penaltyFactor` (2^(`_penalty_mult` - 1), 0 without an entry), `brakeLeft`: the mesh; `Tick`: time; `cured`: platforms that answer well from now on (external) |
| `RateLimiter` | window limiter | `queue`: stamps, as time left in the window; `granted`: history of grants still in the window, as an observer with a clock counts them |
| `LaunchTransaction` | `execute`, its threads, compensation, crash | `thread`, `results`, `live`, `failed`, `compensated`: the locals; `tried`, `unwritten`: how far `_compensate` is, between a pauser's answer and its record; `campaign`: what the platform does (external); `Unread`: the platforms whose client answers True to a pause the platform refused; `refused`: history of such pauses; `journal`: the set of records |
| `LaunchPromise` | abstract launch: campaigns go live or are paused while the verdict is open, then an honest verdict and nothing more | refined by `LaunchTransaction` with `spending` = running campaigns, `verdict` = `status` |
| `OrderFulfillment` | Stripe webhook, intake, reversal, fulfillment round, supplier | `row`, `id`, `done`, `seen`: the sqlite tables, `id` being `supplier_order_id` up to whether it is the supplier's or a dry one; `books`: ROAS entries; `hook`: the request in progress; `worker`: the round in progress; `payment`, `sent`, `supplier`, `placements`: Stripe and supplier (external); `blind`: history of the look-ups that failed when they would have found the order; `DryShips`: the orders whose dry id hashes to "shipped" |
| `RiskEngine` | the engine of one process, as functions on a record, one per critical section | `kill`; `log`: `_spend_log` without its time stamps, oldest first; `today`: its sum |
| `AdSpend` | launches and raises behind the gate, EXTENDS `RiskEngine` | `engine[p]`: each process has its own; `job`, `at`, `budget`: where a thread is in `launch_from_playbook` or `scale_budget`; `cooldown[p]`: `last_launched_at` in memory and on disk; `account`: what the platform accepted (external); the rest is history |
| `Takeover` | loops, heartbeats and takeover of a primary and a standby | `node`: down, waiting or in the loop; `age`: age of the heartbeat object; `ticks`: `tick_count` modulo the checkpoint interval; `slack`, `overrun`: history of how long the primary's ticks took, up to and beyond `TickMax`, since its last heartbeat; `missed`, `pushed`: history |
| `Deployment` | the processes of a deployment, EXTENDS `AdSpend` and `Takeover` | `deployed`: which processes there are |
| `MC*` | constants of the instances | |
| `*Proofs` | theorems | |

Composition: `PlatformAdapter` extends `PlatformHealth`; `LaunchTransaction`
instantiates `LaunchPromise`; `Workflow` and `LaunchTransaction` keep their
journal as a set of records, because `EventStore` by itself shows what the file
can lose. The mesh's call of the window limiter is a choice (granted or
refused) in `PlatformAdapter`, and `RateLimiter` shows what that choice obeys.

`Deployment` joins spending and takeover. A worker spends only
while its orchestrator is in the loop, ticks only between its workers
(`WorkerIdle`: the loop runs them one after the other), stops between two ticks
and dies anywhere; its engine and its calls die with it, its `playbook.json` does
not. Request threads spend and throw the switch while the API runs. The engine of
the orchestrator has no switch: the routes that throw it run in the API's process.

A step of a model ends where the code releases a lock, commits a transaction,
calls out, or writes to the journal; everything between is one action, so
other threads and processes move exactly where the code lets them.

Definitions marked "Mutation" are plausible bugs. They are part of no
specification; `PROJECT.json` says which definition each one replaces to show
that a property notices.

## Runs

| Run | Instance | Shows |
|---|---|---|
| `EventStore` | 2 processes, 2 workflows, 2 crashes, 2 torn writes, 1 append that raises; 557,535 states | recovery is exact up to damaged records (`RecoveryExact`), a cut costs at most the next record (`TornCostsOne`), a record that ended its line stays readable whatever follows (`TerminatedStaysReadable`), no index holds a record whose text was cut, though it may hold one that lacks only its newline, as when the append raised (`IndexHoldsFullTexts`) |
| `EventStoreIndexThreads` | 2 threads of 1 process | **violated**: `IndexComplete`, see Findings |
| `Adapter` | 1 platform, 3 callers; 285,816 states | `CircuitCountsFailures`, `PenaltyNeverCut`, and under fairness `Recovers` |
| `AdapterOneProbe` | 1 platform, 2 callers | **violated**: `OneProbe` |
| `RateLimiter` | 3 callers, 2 grants per window of 2; 230,691 states | `WindowBound`, of grants as an observer with a clock counts them, and every `acquire` returns |
| `LaunchPromised` | 1 atomic and 1 best-effort launch, 3 platforms, 1 crash, no faulty answers; 54,276 states up to symmetry | refinement of `LaunchPromise` |
| `LaunchFaults` | the same on 2 platforms with late launchers, lost answers, pauses that fail or are refused unseen, and 1 crash; 2,015,366 states | launches overlap only where join gave up on a thread (`OneAtATime`); after a rollback each campaign it read as live has stopped, or its pauser failed, or took a refusal for success (`RollbackReachesAll`); a journaled compensation is real but for such a refusal (`CompensatedIsPaused`); a crash is visible (`CrashVisible`); every call returns (`EveryLaunchEnds`) |
| `LaunchLateAtomic` | 2 platforms, late launchers only | **violated**: `AtomicAllOrNothing` |
| `Workflow` | every well-formed plan of 3 steps; 127,104 states | compensations in the reverse order of completion, full undo on failure, no missing inputs, write-ahead announcement, and a run that has acted and was left by a death or by an append that raised is incomplete in the journal, while one that returned is not (`LeftIsIncomplete`, from "started implies eventually terminal, or visible as incomplete after a crash", `workflow.py:21`) |
| `Orders` | 1 order, 2 aborts; 1,317,912 states | paid orders are never lost, unpaid ones never placed, an order is placed at most once more than look-ups of it failed (`PlacedAgainOnlyBlind`), a row with a supplier's own id never claims more than the supplier has done and one placed dry is never called delivered (`NeverAheadOfSupplier`), `side_effects_done` is true to the books, a paid order is eventually handled |
| `Deployment` | an API with 2 request threads, or a primary with 1 worker and a standby; cap 2, launches of 2, raises of 1, 2 faults; checkpoint every 2 ticks, takeover after 4 units; 1,257,182 states | the cap is passed by at most one proposal per thread but one (`CapHolds`), the log is true to the account but for lost answers, restarts and refusals taken for success (`TodaySpendIsReal`), a thrown switch lets a thread finish one call (`KillLetsOneThrough`), a playbook is launched once per cooldown unless a fault hid a launch (`RelaunchIsExcused`), a primary that is up is taken over only when its lost heartbeats, the time its ticks took too long and the clocks' skew make up the limit (`HealthyIsNotTakenOver`), a dead one always (`StandbyTakesOver`) |
| `OrdersLegalMoves` | 1 order, no faults | **violated**: `LegalMoves` |

### Bounds, and why they are enough

* `EventStore`: a cut record affects only its successor, so two cuts and two
  crashes cover a cut next to a cut, a cut at the end and a cut repaired.
  Two processes cover every pair of writer and reader.
* `Adapter`: platforms share only the global brake and the callers, so one
  platform is enough for the breaker and the penalty; three callers make two
  outcomes in flight while a third is admitted. The threshold (2), cooldowns (2
  and 1) and penalties (2, then capped at 3) are the least values that keep all
  states apart: a penalty doubled past its cap differs from the capped one.
* `RateLimiter`: one caller more than grants in the window.
* `LaunchTransaction`: verdicts depend on whether the sets of live, failed and
  skipped platforms are empty; three platforms make each combination. Under
  faults two suffice for one that misbehaves and one that does not; a rollback of
  several live campaigns with pausers that fail is left to `RollbackIsComplete`.
* `Workflow`: three steps contain a chain, a fork, a join and independence.
* `OrderFulfillment`: every step touches one order. Other orders of a batch only
  lengthen the time between the snapshot and a step, and the interleaving
  already allows any delay. Two aborts allow one on each side, or a round cut
  short twice, or a failed look-up after one. A look-up fails freely: `blind` counts
  the failures that hid an order, and the order is placed anew after each, so the
  aborts bound both. An order is routed to the same client in every round; one
  supplier is modelled.
* `Deployment`: one deployment at a time, the API or the pair. On one host
  `docker-compose` gives both the volume `/app`, and with it `playbook.json`; the
  API's launch reads a playbook and marks nothing, so the file is modelled as the
  orchestrator's own. The account is shared, and each process's part of it is
  counted by itself. Two threads are the least that overlap; a launch of the whole cap and a
  raise of half of it reach a capped grant, a refusal and an overshoot. A standby
  that has taken over behaves as the primary does, so only the primary has a
  worker. Two faults: a lost answer and a crash, two crashes, or a failed write
  and a crash. One missed heartbeat (`MaxMissed`) of 2 units with a skew of 1 is
  what reaches the takeover limit of 4 on quick ticks; none does not. A tick may last
  for ever: `Elapse` is never held up, `overrun` counts what the primary's ticks took
  beyond `TickMax` and stops counting at `MaxOverrun` (here 1), with which the
  heartbeat may be overdue and the property asks for no more (`OverrunAssumption`),
  so no behaviour is cut. In production a checkpoint
  comes every 60 s (6 ticks of 10 s, if workers are quick) and the limit is 300 s, which
  forgives three lost heartbeats in a row on exact clocks, not four.
* `CHECK_DEADLOCK FALSE` where the modelled work is finite: workflows,
  launches, and the event store's appends come to an end.

### Fairness

* `Adapter`: time passes (`Tick`); a caller past the gate goes on (`Advance`);
  a caller that waits in the mesh is granted a window slot if it is granted
  again and again, and every platform is called again if it can be (strong
  fairness of `WindowGrants` and of `Gate`). The last is an assumption on callers that
  nothing in the repository discharges: a breaker learns of a recovery only from a
  call, and nobody has to make one. `orchestrator/main.py` does not, its workers use
  the TikTok and Meta clients directly; `PlatformAdapter` has no caller
  outside tests yet. `Recovers` says what a platform that is called again and again
  comes to. Nothing is assumed about answers, except that a cured platform answers
  well.
* `RateLimiter`: time passes and a thread is scheduled.
* `LaunchFaults`: the thread that called `execute` is scheduled; a launcher may
  hang for ever.
* `Workflow`, `LaunchPromised`, `EventStore`: none, they check safety only.
* `Orders`: Stripe delivers again until a 2xx, a request runs to its end or is
  aborted, the orchestrator's tick runs the round. Aborts are bounded, so the
  property says that a paid order is handled once they stop.
* `Deployment`: time passes, and a standby for which the heartbeat stays stale is
  answered by S3 at last. Nothing is assumed about the primary, about
  requests or about the platform.

## Findings

* **The index can lose records** (`EventStoreIndexThreads`).
  `_ensure_index` checks the file and scans it without the lock `append` holds.
  An append between the scan and the publish goes into the old lists; the new
  lists do not have it, and the next append stamps them with the current size.
  The docstrings promise "always correct" and "never silently missed". With two
  processes the same happens through `append`'s own stamp: it records the size
  of a file that another process has also grown.
* **Half-open is not one probe** (`AdapterOneProbe`). Every caller is allowed
  while the state is RECOVERING; the comment says one.
* **A late launcher escapes an atomic launch** (`LaunchLateAtomic`).
  `t.join(timeout=120)` gives up on a thread, not on its launch. Its campaign
  goes live after the verdict and is never paused. The same thread can also
  overlap the next launch, and a non-atomic launch can report `ok` while it is
  out. `OneAtATime` allows this overlap and no other; the comment "Serialize
  transactions" (`transaction.py:40-41`) and the test that phases "never interleave"
  (`test_orchestration_framework.py:413`) make no exception.
* **A refund can be overwritten** (`OrdersLegalMoves`). `update_fulfillment`
  checks and writes in two connections, without a condition in the UPDATE. A
  refund between the two is lost: REFUNDED becomes PLACED or FAILED.

Three more statements of the repository are not kept, and one state of an order means
less than its name. Each has a property in a passing run that says how far it holds,
and names the exception:

* **A start without an end does not mean a death** (`RecoveryExact`).
  `event_store.py:10-13` says such a workflow "means the process died" and that
  `incomplete_workflows` surfaces "exactly those". It also surfaces what another
  process is running, and what an append that raised left half-way.
* **A compensated campaign may spend** (`CompensatedIsPaused`,
  `RollbackReachesAll`). `transaction.py:50` and the journal call it paused.
  `tiktok_ads.pause_campaign` (258-267) drops `_post`'s answer and returns True
  whatever code it carries. Both properties except the pauses refused in this way
  (`refused`, only on platforms in `Unread`).
* **An order can be placed twice** (`PlacedAgainOnlyBlind`). `fulfillment.py:8-10` and
  `suppliers.py:143-144` promise the same id on a retry "rather than double-ordering",
  and `_find_existing_order` (`suppliers.py:369-376`) that a retry "must not risk placing
  a second physical order"; the docstring goes on to say that a look-up that fails
  falls through to a create. After a round that was cut short between the create and
  the write of the row, that is a second order. The property allows one for each such
  look-up and none beside.
* **An order can be PLACED with nothing placed** (`NeverAheadOfSupplier`). With both
  live flags set, a client without credentials still places dry (`suppliers.py:146`),
  `fulfillment.py:135-142` writes the dry id and PLACED, and polls of that id
  answer by its hash, most often "shipped" (`suppliers.py:164`). The property is about ids of the
  supplier; of a dry one it says only that it is never DELIVERED.

Met while modelling, with no promise in the repository to hold them against or
nothing to model: a 429 of an old call turns an open circuit into the shorter
rate-limited wait; an old success closes it; a pauser that returns False is not
journaled, and the production pausers are `safe_call(..., default=False)`, so a
failed pause never is; an append that raises leaves `Workflow.run` and
`LaunchTransaction.execute` half-way, although `event_store.py` says every
caller wraps it; `retry_failed_orders` and `orders_missing_side_effects` have no
caller, so FAILED orders and swallowed side effects stay as they are;
`order_status` catches its own errors and answers "failed", so one lost poll
fails an order and the count of poll failures never moves; SHIPPED orders are
not polled again; a refund event that precedes its order is ignored and marked
seen; a declined first card attempt whose event arrives late reverses a paid
order; a crash between REFUNDED and its entry in the books loses the entry; an
order refunded after the round's snapshot is still placed; Shopify orders
are placed without a look at their payment; the limiter counts grants, and a platform
may see more requests: `meta_ads_client.py:87` drops the False of a refused
`acquire` and posts all the same, and `retry_call` posts up to three times for one
grant.

Of the same kind, met with `Deployment`:

* `max_daily_spend` is called an absolute ceiling (`global_risk_engine.py:6`).
  `check_spend`, the spending and `record_spend` are three steps, so two requests
  pass it together; `CapHolds` says by how much. Each process has a cap of its
  own, and a restart starts the day again and takes a thrown switch back.
* The switch "halts all new spend immediately" (`agents_risk.py`) in the API's
  process only; the orchestrator's engine never hears of it. A call past its
  kill check goes on.
* `LaunchTransaction` never asks the gate, "the one choke point" of `gate.py`. It
  is reached by `launch_product_tx` only, which has no caller outside tests today;
  `launch_product`, which asks, has.
* A playbook whose estimated ROAS is 0 proposes 0, is granted 0, is posted as
  `_BUDGET_DAILY` (`budget or _BUDGET_DAILY`) and recorded as 0.
* `_unwrap` passes the code of the platform's answer on and no caller reads it. A
  create that is refused in an answer becomes the campaign `dry_<name>`: its budget
  is recorded (`phantom` in `AdSpend`, although `gate.py` says to record once the
  call succeeds), the playbook is marked as launched for a whole cooldown, and a
  refused raise is reported as done. What the SDK does with such an answer is
  outside the repository; the model lets it through.
* `_run_scaling_worker` names an undefined `confidence` after its first launch:
  the NameError ends the loop over playbooks, so the cap of three launches per
  run is never reached.
* A slow primary is taken over (`HealthyIsNotTakenOver` says how slow). Nothing bounds
  a tick: workers run one after the other and call out with retries. Without one lost
  heartbeat, ticks that are slow enough make the standby start beside a running
  primary.
* A checkpoint whose save raises sends no heartbeat, and a standby that starts
  on an old heartbeat takes over at once, also while the primary boots.
* `_collect_metrics` answers zeros when it fails; the phase controller reads a
  drawdown of 100% and demotes.
* `GET /optimization/scaling-decisions` computes and actuates.
* `_with_retry` repeats a worker that answered an error; its limiter is marked by
  then and answers skipped, which counts as a success and clears the error count.
* `AggregationCache` has no lock: a reader between its writes of `_cache` and
  `_timestamps` raises KeyError, and a value computed before `invalidate` is served
  for a whole TTL after it.
* After a takeover the old primary may come back and both tick; the deployment's
  README names this as a known limitation.

## Proofs

TLAPS checks the eight proof modules. What they state holds for every value of the
constants under the named assumptions of the modules: `HealthAssumption`,
`MeshAssumption`, `LimiterAssumption`, `TxAssumption`, `OrdersAssumption`,
`ThreadAssumption` and `BoundAssumption` (`EventStore`), `WorkflowAssumption`,
`EngineAssumption`, `SpendAssumption`, `ProposalAssumption`, `TakeoverAssumption`,
`OverrunAssumption`, `DeploymentAssumption`. They give constants their types, and
five say more:

* `MeshAssumption`: the penalty ladder ends at or above the greatest penalty,
  so capping the exponent, as the model does, changes no penalty.
* `SpendAssumption`: an orchestrator spends from one thread, as the loop that runs
  its workers one after the other does.
* `ProposalAssumption`: a process has finitely many threads and there is a greatest
  proposal; without either `CapHolds` has no number to state.
* `OverrunAssumption`: the history variable `overrun` counts far enough; it bounds no
  behaviour.
* `DeploymentAssumption`: the pair is among the processes.

Every invariant and action property of the passing runs is a theorem, under the
hypotheses given below. A property is seldom inductive; what each needs beside
itself, and the types, is the point of its proof.

| Theorem | Property | Beside it |
|---|---|---|
| **`PlatformAdapterProofs`** | | |
| `BreakerTyped`, `AdapterTyped` | types; `TypeOK` | `MeshInv`: a penalty's time is within its factor's |
| `CircuitCounts` | `CircuitCountsFailures` | nothing: every method of `PlatformHealth` is a function of the record, with a lemma that says what it does to the relation |
| `PenaltyIsNeverCut` | `PenaltyNeverCut` | `PenaltyInv`: time left is at most `BasePenalty * penaltyFactor`, so a doubled penalty is no shorter |
| **`RateLimiterProofs`** | | |
| `LimiterTyped`, `LimitIsKept` | `TypeOK`, `WindowBound` | `Backs`: the deque ends with the grants that still count and all before them has expired; `InOrder`: the oldest leaves first. `WindowBound` speaks of grants, `acquire` looks at the deque only |
| **`EventStoreProofs`** | | |
| `StoreTyped`, `IndexIsHonest` | `TypeOK`, `IndexHoldsFullTexts` | `MemoryInv`: a snapshot too is of a file no longer than the present one and holds full texts only, which is what its publication needs |
| `TerminatedIsForEver` | `TerminatedStaysReadable` | nothing: the file only grows, and a record's line ends with it |
| `RecoveryIsExact` | `RecoveryExact` | `WfInv`: nothing is on file of a workflow that has not begun, and a whole terminal record of exactly those that are done; the property is silent while records are damaged |
| `CutsCostOne` | `TornCostsOne` | nothing but types: lost records map one to one to the cuts before them |
| **`WorkflowProofs`** | | |
| `RunTyped` | `TypeOK` | `PlaceInv`: the loop's step exists where it is used, and nothing is to undo before a failure |
| `InputsAreThere` | `NeverOnMissingInputs` | `FreshInv`: steps to come have no result; `DoneInv`, `InputInv` |
| `EffectsAreOnRecord` | `EffectsAreAnnounced` | `AnnouncedInv`: a step that runs is announced |
| `SuccessMeansComplete` | `SuccessIsComplete` | `StandsInv`: up to the loop's step, what is required is ok, and what is ok stands |
| `FailureMeansUndone` | `FailureIsUndone` | `UndoneInv`: while it compensates, each completed step is still to undo, undone, or its failure is on record |
| `LeftRunsAreVisible` | `LeftIsIncomplete` | `AccountInv`: a terminal record is on file exactly when the run is `done`, and the start wherever a step has acted |
| `CompensationIsReversed` | `ReverseOrder` | `UndoInv`: `undo` is what is left of `completed`, from its end; `LaterInv`: what has been compensated was completed later than what is left |
| **`LaunchTransactionProofs`** | | |
| `Typed` | `TypeOK` | nothing |
| `CrashIsVisible` | `CrashVisible` | `JournalInv`: the start record stands for every position past Begin, the terminal record for `done`; the property says nothing of a launch in progress |
| `CompensatedStaysPaused` | `CompensatedIsPaused` | `ReadInv` leads from `tried` to `live`, a stored result and a thread past its answer, so that a paused campaign is not created again; an unwritten record is as true as a written one. The exception for `refused` is in the property, no hypothesis excludes it |
| `RollbackIsComplete` | `RollbackReachesAll` | `RollbackInv`: only a launch that rolls back asks a pauser, it ends when all live campaigns have been asked for, and a pauser that reported success stopped its campaign or is in `refused` |
| `OneLaunchAtATime` | `OneAtATime` | `LockOf`: a launch in progress holds `_tx_lock`; a thread under way is one that is being joined or one that join gave up on, of a launch that returned without its answer |
| `PromiseIsKept` | `KeepsPromise` (refinement of `LaunchPromise`), if `~MayTimeOut`, `~MayLoseAnswer`, `~MayFailPause` and `Unread = {}` | `PromiseInv`: a thread's answer says what became of its campaign, and the sets read from the answers are those. `LaunchLateAtomic` shows what a late launcher does to the promise |
| **`OrderFulfillmentProofs`** | | |
| `Typed` | `TypeOK` | nothing |
| `PaidStaysOnFile` | `PaidNeverLost` | `HookInv`: a request past `ingest_order` has its order on file; rows are never deleted |
| `UnpaidIsNeverPlaced` | `NothingSpentUnpaid` | `PlacedInv` leads from the supplier and the round's snapshot back to a row on file, `PayInv` from the row to an event Stripe raised for settled money |
| `PlacedOnce` | `PlacedAgainOnlyBlind` | `OnceInv`: placements and failed look-ups in step for each order; the client is about to create only what the supplier lacks, or what a failed look-up has just been counted for |
| `DoneStaysBooked` | `DoneIsBooked` | `BookedInv`: the request that is about to set `side_effects_done` has made the entry |
| `SupplierIsAhead` | `NeverAheadOfSupplier` | `FileInv`, `RoundInv`: the status a round is about to write with an id of the supplier is backed by the supplier already when it is checked, and the supplier takes nothing back; with a dry id it is not DELIVERED |
| **`TakeoverProofs`** | | |
| `PairAlways`, `HealthyStays` | types; `HealthyIsNotTakenOver` | `HeardInv`: the heartbeat of a running primary is no older than its missed checkpoints, the ticks since the last one, what they took too long and the time since the last tick add up to. The property speaks of one step; this is the state before it |
| **`AdSpendProofs`** | | |
| `KillStops` | `KillLetsOneThrough` | `KillInv`: a thread with a call accepted under the switch is not past its check |
| `RelaunchNeedsExcuse` | `RelaunchIsExcused` | `CoverInv`: a launch nothing excuses is in memory and on disk, or its worker is about to put it there, and no launch is under way beside it |
| `MoneyAlways`, `SpendIsReal` | `TodaySpendIsReal` | `MoneyInv`: for each process, the log and what the platform accepted for its entries agree but for phantoms, and the account is what the log, the threads on their way to `record_spend` and the past come to |
| `CapIsKept` | `CapHolds` | in `MoneyInv`: what is on record and what may still come on record stay under `MaxDailySpend` plus one greatest proposal per thread but one |
| `DeploymentTyped` | `TypeOK` of `Deployment` | all of the above; that the sums are natural numbers needs the books |

The money invariants rest on sums over threads and log entries that the properties
themselves do not mention: what `record_spend` has yet to add is spread over the
threads. The prover cannot use induction, so `AdSpendProofs` states a sum by a
certificate: `AddsUpTo(s, n)` says that `s` has a running total that ends in `n`.
Appending an amount, dropping the oldest or changing one changes the certificate in a
known way; what remains of induction (a running total never falls, a smaller sequence
has a smaller one) is an argument by the least counterexample (`Least`, from the
well-foundedness of the naturals). The threads of a process are put in an order by the
bijection a finite set has (`Threads`). `RateLimiterProofs` uses a least element in the
same way for what `Purged` drops.

Only model-checked: the liveness properties (`Recovers`, `AcquireReturns`,
`EveryLaunchEnds`, `PaidIsHandled`, `StandbyTakesOver`), because liveness
under fairness and `ENABLED` are beyond the prover. The four properties of the violated runs are not theorems, being false.
Nothing proved uses a recursive operator.

## Plan

Runs are few and carry several properties each; a component still to come gets
one.

1. Core (done): event store, workflow, adapter with breaker and mesh, limiter,
   launch transaction, orders and fulfillment.
2. Orchestrator and risk gate (done): `RiskEngine`, `AdSpend`, `Takeover`, composed
   in `Deployment`.
3. Proofs (done): the invariants and action properties of all passing runs, and the
   refinement of `LaunchPromise`.
4. Left: the refinement under late launchers, for the campaigns that answered in time;
   the sources of hazards without a property (see `hazards` in `PROJECT.json`).

## Not modelled, and why

* The value arithmetic: budgets, ROAS, attribution, scoring and bandits.
* HTTP clients: only the outcomes their callers see.
* `LaunchTransaction.execute`: an append that raises (the workflow model has
  it), a dict resized while `results.values()` is read, a live result without an
  id or a platform without a pauser, amounts of budget.
* `OrderFulfillment`: Shopify, customers, the LTV tracker (in memory), the rehearsal
  with `FULFILLMENT_LIVE` off or `SUPPLIER_ORDERS_DRY_RUN` on, a second supplier,
  attempt counters nobody reads, the fulfillment journal.
* `AdSpend`: fractions of a cent that `round` moves, ad groups and ads (their
  failure changes nothing), the AJO path, emitted events, a second playbook (each
  has a cooldown of its own), the clients' rate limiter and retries (module
  `RateLimiter`; a retried create is one more accepted campaign, as a lost answer
  is), adaptive thresholds (off unless `RISK_ADAPTIVE_LIVE`).
* Phase promotion and `_with_retry`: sequential code on one thread, with no state
  that another actor reads half-way.
* `AggregationCache`: one cache of one aggregate that lives a minute.
* Most of the repository by lines. Its 171,000 lines are for the greater part
  offline evaluation (`evaluation/`, `companyos`), quality gates and other scripts,
  simulations, reports and per-vendor adapters: functions from values to values,
  each run to its end by one caller, without protocol, shared state or failure
  handling a state machine would add anything to. The map covers the coordination
  code instead of a share of the lines.
* Dashboards, telemetry, services, simulation, CompanyOS evaluation, front end:
  see the notes in `PROJECT.json`.
