# A verification project for AutoProjectSaham

AutoProjectSaham is a trading platform in Python: market data and models
produce signals, an execution layer turns them into orders, and a FastAPI server
with a React front end lets people watch and steer it. These modules specify
the parts of it that decide what is traded, learned, stored and answered, model-check
them on small instances with TLC, and prove the most important facts for every
instance with TLAPS. Paths below are relative to the Python package `src/` of
the repository.

    tlc -workers 2 -config manager_serial.cfg MCExecutionManager
    tlc -workers 2 -config control.cfg MCControl
    tlapm ExecutionManagerProofs.tla

`PROJECT.json` lists the runs, the lines each definition models, the hazards with the
properties that cover them, and for every property a wrong variant of the code
that it catches (definitions marked `mutant`, next to the one they replace).

## 1. The system

### Components, their state and what makes them correct

| Component | State | Operations | What makes it correct |
|---|---|---|---|
| `execution/manager.py` ExecutionManager | start balance, frozen flag, queue of limit orders, id counter, expected positions and cash, sync flag | `place_order`, `place_limit_order`, three cancellations, `process_market_tick`, `start_day`, `sync_open_orders_on_startup`, `reconcile_once` | limits hold; a frozen day neither trades nor keeps orders; an order is filled at most once, never after it was withdrawn, and never lost; the expected state follows the account |
| `execution/executor.py`, `brokers/paper_adapter.py` | cash, positions | `place_order` | never overdrawn, never short |
| `execution/idx_rules.py`, `order_fsm.py`, `algos.py`, `exchange_simulator.py` | none; one order; the slices | ticks and limits; `transition`; `execute_twap_order`; the course of a simulated order | the band is the widest of valid prices; quantities agree with the state; what was bought is what was asked for |
| `execution/reconciler.py` | the database's order statuses, a ledger | one asynchronous pass | every settled order has exactly one balanced entry |
| `execution/anomaly_guard.py`, `ml/anomaly_detector.py` | detectors, veto, counters | `evaluate`, `fit`, `save`, `load` | more anomalies never let more of a trade through |
| `brokers/base_broker.py`, `retry_wrapper.py` | none | calls with retries, `cancel_all_open_orders` | each call is placed once per attempt the broker executed; what is reported cancelled was |
| kill switch: `api/frontend_routes.py`, `services/runtime_control_service.py` | the stored flag; the running services | activate, deactivate | what was running when it was requested has been told to stop when it is answered, and orders from before are gone |
| broker connection: `api/frontend_routes.py` | three records: credentials, connection, settings | connect, disconnect, edit, flags | the records tell one session; live only while allowed |
| `services/autonomy_service.py` | level, kill switch, drafts, statistics | signals, approvals, expiry | nothing leaves under its switch; every draft is counted once |
| `services/regime_route_service.py` | the regime state | choices, inferences | the profile in force is the chosen one |
| `api/auth.py`, guards of `api/server.py`, `api/frontend_routes.py` | `users.json`, sessions, tokens | register, log in, second factors, resets; the guards of the routes | nobody is lost or locked out; the two guards agree |
| `api/quota_usage.py` | two windows of times per user | record, snapshot | exactly the requests of the window |
| `api/state_store.py` | secure state in Redis and SQLite; the activity log in Postgres and SQLite | read, write, migrate | the latest write is read; no entry is lost or doubled |
| `api/event_queue.py` | bounded queue, seen ids, a Redis channel | push; a pop by the handler of each `/ws/events` connection | each event to one connection, once, in order, in the end |
| `notifications/*`, emitters in `api/frontend_routes.py` | handlers, connections, preferences, inbox | register, connect, send, history | once a handler is registered, every connection of the user once; pages miss nothing |
| `monitoring/alert*.py`, `alerts/webhook.py` | two JSON files | throttle, acknowledge, post | alerts stay a cool-down apart; a token is on file |
| `data/idx_api_client.py` | websocket, subscriptions, cache | connect, request, stream | an answer is one's own |
| `api/chart_service.py`, `data/idx_fetcher.py`, `services/market_data_service.py` | a cache, viewers; market hours | candles, broadcast; symbols | no stale answer after a broadcast; one name for a symbol |
| lifespan, training, backtests, streams of `api/server.py`, `ml/service.py` | services, `data/dataset.csv`, history | start, stop, train, run | what was started is told to stop; books balance |
| `pipeline/scheduler.py`, `continuous_automl_scheduler.py`, `ghost_machine.py` | worker thread, stop event, counters | start, stop, cycle | one loop; a stop ends |
| `ml/model_registry.py`, `services/projection_learning_service.py` | JSON files | register, activate; judge a prediction | no registration is lost; a prediction is judged once |
| `ml/trainer.py`, `labeler.py`, `barriers.py`, `cv.py`, `transformer_baselines.py`, `walk_forward.py` | rows, folds, the best epoch | label, split, train | what tests was not trained on, labels included |
| `ml/continuous_automl.py`, `online_learner.py`, `online_dashboard.py` | registry, baseline; checkpoints, drift | search, validate, promote; learn, save | the better one is in production; a recent checkpoint exists |
| `ml/regime_router.py`, `regime_detector.py`, `rl/regime_detector.py` | price window; hidden states | classify, overlay | cutting the history never shows |
| `rl/envs/trading_env.py`, `policy_trainer.py`, `experience_replay.py`, `agent_integration.py`, `mimo_supervisor.py` | account, margin, portfolio; tree of priorities; positions | step, train, replay, decide | the money adds up; a wanted exit goes through |

### How they interact

The API server (`api/server.py:511-533`) builds one ExecutionManager over the
paper adapter, with the startup sync required, and calls the sync once when it
starts; an error there is swallowed and not retried. Order requests run on the
event loop's thread (`submit_execution_order` is a coroutine that calls the manager
directly). The kill switch stops the scheduler, cancels the pending orders and
the live broker's orders on a worker thread (`asyncio.to_thread`), then
stores its flag. Ticks and reconciliation, where used, are further threads. The
manager protects its fields with one lock, held for a few lines at a time and
never across a call to the broker: **every operation is a sequence of short
lock sections and broker calls, and other threads run in between.** The RL
environment instead drives a manager of its own from one thread.

Handlers of the API run on one event loop and exclude each other between their
awaits; `asyncio.to_thread`, the schedulers, the trainer and the ghost machine are
threads beside it. Every `/ws/events` connection has a handler of its own that
pops the event queue for itself every half second: an event goes to one of the connected
clients of an instance, and nothing pops where nobody is connected. State that outlives a process is in the state store (Redis
before SQLite), in Postgres, and in JSON files that are rewritten in place. Several
instances of the server share the Redis channel of the event queue, and
several processes share the model registry and the alert files.

The autonomy service is a separate gate before execution with a kill switch of
its own, connected to nothing but its own drafts. The order state machine, the
reconciler, the TWAP slicer and the simulator are libraries that tests use.

### Where it is hard

* checks and acts in different lock sections, or on both sides of an await;
* a snapshot compared with another taken later (reconciliation, daily loss, quota windows);
* a broker, a database, a websocket that acts and loses the answer, or answers too late;
* files written in place, records written one after the other, and crashes in between;
* two copies of one state, two guards of one route, two processes on one file;
* worker threads whose stop times out or overtakes their start;
* rows of time series that overlap each other's future;
* band edges, fees, leverage, exactly half of the votes.

`PROJECT.json` lists each of them at its line.

## 2. The modules

Every component has a module of its own; the four `MC` modules compose them for TLC and
name the constants' values.

    PaperBroker   IdxRules
          \         /
       ExecutionManager -- implements --> OrderLifecycle      <- MCExecutionManager

    OrderFSM TradeReconciler RetryBroker OrderSlices
    IdxRules (the band)
    TradingEnv ReplayBuffer LiveAgent                         <- MCOrders

    KillSwitch BrokerSession RegimeProfile AutonomyService Accounts
    AccessRules AnomalyGuard Alerts
    MarketData ServerJobs                                     <- MCControl

    StateStore ModelRegistry ProjectionLearning
    Training SelfTuning                                       <- MCStores

    Schedulers EventQueue GhostMachine Notifications          <- MCWorkers

The proofs are in modules beside them (section 4): `ExecutionManagerProofs`,
`OrderFSMProofs`, `LearnerProofs`, `ControlProofs`, `WorkerProofs`, `ServiceProofs`, `StoreProofs`; and `Sums`, the facts about sums they share.

In MCOrders, MCControl, MCStores and MCWorkers a variable `focus`, chosen in the initial
state, says which component moves; the others keep one of their initial states.
These components share no state, so exploring them one after the other loses
nothing, and a single run checks them all. A property of a module holds trivially
while another one moves.

**ExecutionManager** has one variable for each field of the class that decides
something, and for each thread a program counter and its locals:

| Variable | Field or local |
|---|---|
| `startBalance`, `frozen` | `_start_balance`, `_frozen` |
| `pending`, `nextOrderId` | `pending_orders`, `_next_order_id`; the id `lim-n` is the number n |
| `expectedPositions`, `expectedCash` | `_expected_positions`, `_expected_cash` |
| `syncCompleted`, `syncCalled` | `_startup_sync_completed`; whether this process has called the sync |
| `pc`, `call`, `batch`, `view`, `import` | where a thread is; the arguments of its check; the snapshot, the rest and the `to_remove` list of its tick; its copies of positions and cash; its half-built imported queue |
| `fate`, `drift` | history: what happened to each order; whether a drift alert was raised |

One action is one lock section or one broker call:

| Code | Actions |
|---|---|
| `place_limit_order` | `StartLimit` (frozen), `LimitCheck`, `LimitId`, `LimitQueue` |
| cancellations | `CancelLimitOrder`, `CancelAllForSymbol`, `CancelAll`: one lock section each |
| `process_market_tick` | `StartTick` (snapshot), `TickNext` for each triggered order, the steps of the order check and the fill, `TickEnd` (removal), the loss check |
| `start_day` | `StartDay`, `DayReset`, `DayPositions`, `DayCash`, `DayExpect` |
| `sync_open_orders_on_startup` | `StartSync`, `SyncImport` for each order of the answer, `SyncCommit` |
| `reconcile_once` | `StartReconcile`, `ReconcileDefault`, `ReconcileRead`, `ReconcileCompare` |
| the world | `TradeOutOfBand`, `Restart` |

A tick brings a price for one symbol; the loop over the snapshot takes
the orders in any order; limit prices and market prices come from one set.
**OrderLifecycle** is what the queue promises: an order is open until it is filled, once, or
withdrawn, and never returns. `ExecutionManager!LifecycleSpec` maps the manager to it.
An order that a tick has dealt with counts as closed though it is still in
the dictionary until `TickEnd`: that is the refinement mapping's one subtlety (`StillOpen`).

The other modules, with what one action is and what is abstracted:

| Module | One action is | Abstracted |
|---|---|---|
| PaperBroker | a call, which takes no lock in the code (section 3) | money in ten-thousandths, so that fees are whole numbers; the trade log |
| IdxRules | pure functions; one previous close and board per state | prices with fractions |
| OrderFSM | a transition, refused ones included | the average price is the notional behind it |
| TradeReconciler | what a pass does between two awaits | trades of an order to their sum |
| RetryBroker | an attempt, executed or not, answered or not | the sleeps |
| OrderSlices | a slice; the course of an order; one entry | lots per slice small |
| AnomalyGuard | a call | a detector's verdict is a vote; fractions in 24ths |
| KillSwitch | what a handler or its worker does between two awaits; the setting of a stop event, the end of the wait for the thread, or its time-out; the beginning and the end of a run of the pipeline | orders and schedulers are known by the number of the request |
| BrokerSession | one write of the three records; one read of the kill switch | keys by the request that stored them |
| RegimeProfile | one read or write of a handler or of an inference | the market is one of a few values |
| AutonomyService | a method (each holds the lock throughout) | order contents |
| Accounts | a handler (no await inside), writing the file in two steps | passwords; codes by the secret and the moment |
| AccessRules (the guards) | one request judged by every guard | roles, tokens and codes as values |
| AccessRules (the quota) | the start and the end of a request; a snapshot | times are small numbers |
| Alerts (the inbox) | what runs between two awaits | contents, formats |
| Notifications | the same; the registration of a handler, which the program never does | contents, formats; channels other than the websocket |
| Alerts (the channels) | a read, an emptying and a writing of a file | one alert key |
| MarketData (the client) | what runs between two awaits; what the exchange does to a websocket | answers by the number of their request |
| MarketData (charts) | the same | candles by their number |
| MarketData (symbols) | one symbol and hour per state | a symbol is a form with two parts |
| ServerJobs | lifespan steps; training phases; rows; messages | a training by who built its dataset |
| StateStore (the secure state, the activity log) | one Redis, SQLite or Postgres operation | payloads by the number of the write |
| ModelRegistry | load, truncate, write | a model is its path; a file cut off in its text is refused as an empty one is, so writing is one step after the truncation |
| ProjectionLearning | a request; a unit of time, with or without a new candle | whether a prediction was right and how near it came is open; the reliability in millionths; the calibrated confidence and timeframes below the shortest evaluation time of 300 s are left out |
| Training | a label, a split, an epoch; one study per behaviour | losses are a few values; weights are their epoch |
| SelfTuning (the pipeline) | a phase of a run between which another thread may come | returns of an episode are small numbers |
| SelfTuning (the online learner) | a sample; the writing of a checkpoint | right or wrong, drift or not is open |
| Schedulers, GhostMachine | one lock section, event operation or join | what a cycle does |
| EventQueue | one lock section or Redis operation of a push, or of the pop of one connection; one send | events are thread and number |
| TradingEnv (the environment and the portfolio), LiveAgent | a step, a decision | policies are choices; observations left out |
| ReplayBuffer | a method (each holds the lock) | priorities are small integers |
| LiveAgent (the regimes) | a price, a fit, a classification | returns in thousandths |

## 3. The runs

| Run | Question | Instance |
|---|---|---|
| `manager_serial` | Do the promises hold for one caller, as in the trading environment? Solvency, no false drift, the freeze, the lifecycle | one thread with every role, 4 calls, one symbol, two prices 40 % apart and a starting cash such that a loss freezes the day, also in the middle of a tick, closes 0 and 100 so that the band rejects; 186 000 states |
| `manager_concurrent` | Which promises survive three threads? The limit up to one order for each further trader, bookkeeping, no double fill; and a triggered order leaves the queue | loop, feed and kill switch, 4 calls; 156 000 states |
| `manager_startup` | Is trading shut until the baseline is there, and are ids fresh, beside queueing threads, failing answers and a restart? | 5 calls, one restart, four answers of the broker; 191 000 states |
| `manager_reconcile` | What is a clean report worth? | trading, reconciling, out-of-band trades, lost acknowledgements; two symbols, 4 calls; 179 000 states |
| `orders` | Do orders, their calls, slices and entries add up, and the money and memory of the learning agents? | see below; 1.2 million states |
| `control` | Who may do what, what does the switch stop, what do the server's services answer? | see below; 2 million states |
| `stores` | Is what is stored and learned kept, apart, and read back? | see below; 2.4 million states |
| `workers` | One loop, each event to one client, in order and in the end? | see below; 512 000 states |

Why the bounds are enough. In the manager four calls give the interleavings of two
operations with two further ones (queue, tick, cancel, freeze); a second order of one symbol is
what limits, double fills and collisions need. Elsewhere the bounds are chosen so
that each limit is met and passed: a queue of 1 and 2 under 2 events, with two clients connected to one instance and one to another, a history that keeps 2
of 4 runs, a cache of 1 for 2 ticks, a checkpoint every 2 of 5 samples with a death and an
error, two websockets so that a late answer meets the next call, two overlapping
passes, activations, requests or trainings, since a third repeats what the second
shows; timeframes below, at and above the longest evaluation time of a projection; four requests against the kill switch, so that a
scheduler is started, told to stop, forgotten and replaced, or an order queued, while an activation is under way. With the smallest queue or memory of
ids, or once a publish or poll has failed, one thread pushes and one client of its instance is connected (`FewActors`). `MaxClose = 6500` passes every tick size and band width. The order state machine, the guards of the
routes, the symbols and the votes are complete. Every bound is a constant that
appears in guards of the environment only; where they are used up the
system stops, hence `CHECK_DEADLOCK FALSE`.

Properties are conjunctions of named parts, one per component, each part with its own comment in
the module; the bundles say what they are made of: `LearnersSound` (environment,
replay, portfolio, live agent, regimes), `NoticesSound` (inbox, alert channels), `MarketSound` (market data
client, latest tick, charts, symbols), `JobsSound` (what the server starts, trains, answers and streams) with the money of its
backtests apart in `BooksSound`, `DraftsSound`, `OrderSound` and `StartupSafe` (the states and the steps of a component
in one), `ModelsSound` (AutoML, online learner).

**Fairness.** `FairSpec` of the manager adds weak fairness of `Step(t)` for each thread: a thread inside an
operation goes on, because nothing there waits for another thread except for
the lock, which is held for a few lines. No caller is assumed to call. Broker
faults are excluded in that run: an exception ends a tick and leaves its orders.
`MCWorkers!Fairness` says the same of the steps of a loop, of a stop and of a
push that have begun, and of the steps of a connection's handler, a coroutine that goes on after its sleep of half a second and after each
send, which ends one way or the other. Nobody is assumed to connect. Under it (`WhatBeginsEnds`) a stop returns unless it is the
sentiment loop's without a time-out (`Deadlocked`, below), and a pushed event is sent to a client of its own instance, or dropped, as long as one is connected there.

### Disagreements the runs show

| Run | What the code does |
|---|---|
| `aborted_tick` | A broker exception inside a tick skips the removal of the orders it has filled; the next tick fills them again. |
| `cancelled_in_flight` | An order the kill switch removed and reported cancelled is filled by a tick that had passed the membership test. |
| `orders_when_halted` | An order submitted under the active kill switch is accepted; the order route never asks. |
| `one_client_served` | Of two clients connected to one instance an event reaches one: each connection's handler pops the whole queue for itself. |

### Further observations

Definitions below `Fail, and documented` in the modules state what one would expect and TLC
refutes; none of them is part of a passing run. With what else modelling turned up:

*Execution.* `place_limit_order` asks for the freeze only, never for the startup sync, and what is queued
before the import commits is replaced by it. The import gives an order without an id the next `lim-n`, which a
later order of the same answer may carry itself. With several trading threads an
order past its loss check is sent after the freeze, and a reconciliation between a fill and its
bookkeeping reports a drift that is none. The freeze alert's `cancelledPendingOrders` (`manager.py:415`, `421-427`)
counts an order that the same tick has already filled and not yet removed. Holdings without a price count for nothing, and callers pass one
price: the second symbol freezes the day without a loss (`manager.py:397`). PaperBroker checks the cash and deducts it
without a lock (`executor.py:64-67`), and reads a position and writes it with calls in between (`68-69`, `94-100`), where the interpreter may
switch threads: of two trades of a symbol one may overwrite the other's position. `Fill` is one step, so this race is not modelled; `Solvent` is claimed for one caller only, and what is
said of several trading threads (`PositionLimit`, `ExpectedTracksBroker`) is about the manager over a broker whose calls are atomic. `OrderStateMachine.transition` raises where its docstring says it returns False, logs the quantity of a cancellation
without applying it, allows at most two fills, and nothing leads to FAILED.
A TWAP slice whose quote has no `best_ask` is bought at price 0, one whose answer was lost is bought again, and the
status is always "done". A ledger entry of fills above the reference price does not balance.

*Controls.* A scheduler started while the switch suspends the services goes on under it, and so does a run of the pipeline that takes longer than the
two seconds the switch waits (`runtime_control_service.py:238`): its thread is forgotten (`scheduler.py:69-76`) and reported stopped (`HaltsRuntime`). It begins no
other run, which is what is checked. No
adapter of a live broker is in the repository, so its cancellation is always "unsupported_provider". Lowered flags
leave a live session, and the settings route may write a live mode. An approval that comes too late is counted twice.
`POST /autonomy/signal` passes arguments the service does not take. With the role
guard off the server's copy checks no csrf token while the other does; the two lists of admins differ; a
required but unconfigured second factor answers 503 for everyone; `create_ws_token` says its tokens are consumed and nothing consumes them.
With exactly half of the votes the guard reports
"reduce" and reduces nothing: they pass its threshold and are no majority (`ReduceReduces`). The guard's `update_mimo_veto` is never called; one detector's vote is always a veto; exceptions let the trade pass; a
saved risk manager comes back without its autoencoder.

*Server.* The lifespan stops neither the AutoML scheduler nor the ghost machine (the functions it
imports to find schedulers do not exist); the trainer's start may come after its stop. The training trigger turns the switch's 423 into a 500,
waits for the training it says it only schedules, and answers the same when it failed; trainings that overlap share `data/dataset.csv`, and
two in one second write one model file. `src/tasks.py` does not exist: a dispatch to Celery always runs locally, and with
Celery configured no trainer is started. A backtest counts a break-even trade as a loss, sells at 0 when the last row has no
price, ignores strategy and leverage, and writes its history in place. `scheduler.stop(timeout=2.0)` and
`stop_reconciliation_loop` forget a thread that did not end; `SentimentScheduler.stop()` without a time-out never returns when its loop waits for the lock, which the stop
holds while it joins (`scheduler.py:177`, `227-234`; `EveryStopReturns`). The ghost machine's error pause is unreachable, and its veto blocks sales too.

*Services.* The default quiet hours and active hours have a format the parser refuses, so the user is always
active; hours over midnight never are; "queueing" sends at once; severity, symbols, rules and throttle are
never consulted; failed deliveries are SENT; no channel has a handler: the delivery handlers are registered in a factory
(`delivery_handlers.py:387-407`), the manager asks its own dictionary (`notification_service.py:356`), and nothing calls `register_handler`, so the connections the
routes keep (`api_routes.py:444`, `547`) get nothing (`ReachesEvery`); `NotifiedOnce` says what holds once a handler is registered. A
refused update of preferences keeps what it had applied; who connects later never hears the present signal. The server writes
its copy of the acknowledgements over the command line's. A send that fails on `/ws/events` drops the rest of
what its handler has popped, and events pushed while nobody is connected wait until the queue overflows. Late answers on the websocket are taken by the next call, "auto-reconnect" is absent,
subscriptions are not renewed. A viewer in a broadcast before its accept is dropped; chart service and fetcher
disagree on forex hours and on "BTC/USD". Projections anchored at candles of more than four hours, or at the last candle before a market
closed, are judged by every request.

*Learning.* `best_state` aliases the live tensors, so the tested model is the last, not the best. Folds are not chronological across
symbols (`walk_forward.py:3`). The tabular model stops early on the rows held out, `tuned` is saved although the tuned fit failed, and
with few rows it is tuned without any window. The barrier labels say ±1 beyond 0.5 % where the docstring says 0; the other labeler calls the last bar 0. AutoML trains
and evaluates on the same environment, never writes `model_path`, validates a search of which every trial failed, compares with
a baseline that a restart resets, and overlapping runs may leave two models in production. The online learner's
accuracy is not in its checkpoint, a fresh pipeline overwrites the checkpoints of the last one, `retrain_count` stays 0;
`load_checkpoint` leaves the number of the last checkpoint, so a learner that goes back to an older one saves nothing until its count
has passed that number again (`NearAfterGoingBack` fails; `CheckpointNear` says what holds). A rally
may be called a crash, since volatility has no sign.

*Agents.* `self.pos` of the environment is never updated; a step compares two equities at one price, so prices are never
rewarded; fee and margin are those of the leveraged size while the order is not, and a sale releases part of the margin. `reset` keeps the queued limit price. A
replay buffer of capacity 1 recurses for ever; priorities may be written to a transition that was replaced; falls of the reward are invisible to the drift test. The portfolio
environment asks the wall clock for trading hours; a fresh trainer can never load a model, and a failed one is saved. The
live agent sizes every symbol with the leverage of the whole cash, refuses the strongest signal for want of its commission, sells
all on any negative direction, never uses its stop-loss, and goes below zero on leverage; sentiment never expires.

## 4. The proofs

A theorem holds for every set of threads, users, orders or values, every fault, bound and answer that the module's
named assumption allows. The assumptions (`ManagerAssumption`, `AutonomyAssumption`, `StoreAssumption`, ...) say that
bounds are natural numbers, that prices are positive, that a "none" is not one of the values, and which sets are
finite; TLC evaluates each in a run. A theorem about a manner of use has that use as its hypothesis, a named definition
explained below. Every proof has the same shape: an inductive invariant, one lemma for what several actions
have in common, one step per action, one per conjunct the action disturbs.

**ExecutionManagerProofs**

* `TypeCorrect`. `TypeOK` is not inductive: it lets a call hold no symbol at a label where the code
  would use one. `TypeInv` adds `CallsTyped`, what each label guarantees about the
  arguments.
* `NoTradeBeforeSyncHolds`, of an account only the manager trades. `Gate` reads the sync flag several steps before the order is sent.
  `SyncInv` says that a thread past the gate has seen it set, that no
  import is under way then, and that only a restart, which also ends every thread's
  operation, resets it.
* `IdsAlwaysFresh`. `IdsFresh` needs in addition that the largest number of a half-built import is recorded
  in `top`, which `SyncCommit` moves the counter past (`IdsInv`). With the one before it is `StartupIsSafe`.

Further, for the manner of use each property is about:

* `PositionLimitHolds`, for any finite number of threads (`TradingBounded`: some thread trades, quantities have a maximum,
  nobody else trades the account). The check reads the position and the order is sent several steps later, so other
  threads buy in between. `RoomInv` counts the threads that are past the check with a purchase (`Buyers`): either all of them
  still fit with the largest quantity, or the last one to have passed fits with its own quantity and the others with the largest. The bound
  `MaxPosition + (Traders - 1) * LargestOrder` is therefore the code's true limit under concurrency.
* `FreezeAlwaysHolds`, for one caller (`SerialUse`, the use of the trading environment; with more the property is false, section 3).
  `FrozenInv`: while frozen the queue is empty and the caller is at no label from which it would send or queue.
* `NoFalseDriftHolds`, for one caller and a broker that does not fill and then raise, without a restart
  (`FaithfulBroker`; each is what the drift alert exists for). `DriftInv`: what is expected and what the broker holds differ by
  exactly the trade that `_apply_trade_to_expected` has yet to record, and the copies under comparison are true.
* `HandledOnceHolds`, for any number of threads that queue, cancel and freeze beside the one that feeds ticks, a broker that does not
  raise and a sync that is over (`OneTicker`; with an exception the promise fails, run `aborted_tick`). `HandledInv` lists the possible
  histories of an order and ties each to the place of the tick: what was dealt with is still in the
  queue only while the tick remembers it for removal.
* `LifecycleHolds`: the manager implements `OrderLifecycle`. For one caller, no broker exception, no restart (`MaxRestarts = 0`: the queue
  lives in memory). `LifeInv` bounds the ids by the calls, and `Matches` says that the mapped set of open
  orders is the set of orders whose history is still "queued"; each action is then an `Acknowledge`, a `FillOrder`, a `Withdraw` or a stutter.
* `ExpectedAlwaysTracks`, for any finite number of threads that trade at once (`BooksAlone`: no fill whose answer is lost, nobody else trades the account, the day does not
  start meanwhile, no restart; the other cases are what the reconciliation exists for). The expected state is the account less the sum of the trades that
  the broker has made and `_apply_trade_to_expected` has not recorded yet: a fill adds its thread to the sum, the recording takes it out, every other step leaves
  the sum as it is (`TrackFills`, `TrackApplies`, `TrackSame`).

**Sums**: what such proofs need of `MapThenSumSet`, for any finite set: one element more or less changes a sum by its figure (`TotalAdds`, `TotalDrops`), nothing
else does (`TotalSame`). The sum is a recursive function, and that one exists and is unique is proved by a least counterexample among the finite subsets
(`LeastSubset`), since strict inclusion is well founded on them: that takes the place of induction. Besides it holds what proofs need of the
entries of a list that are kept (`Listed`, by the `Rank` of their places): they keep their order and each has one place. `LeastNatural` finds the first one.
From it follow `CountUp`, from each number to the next, and that recursive functions exist: `FoldExists`, for those a step at a time, and `RecursionExists`,
for those whose value is given by any of the values before.

**OrderFSMProofs**: `FSMTypeCorrect`, `QuantitiesAlwaysMatch`, `OrderAlwaysConsistent` and `TerminalIsFinal`, from `FSMInv`, which
adds to the quantities' agreement what each state says of them. `TrailAlwaysReplays`: the trail is a path of the machine and the sum of the fills on it, whatever its
length, is the filled quantity; an entry more adds its figure to the sum (`TrailGrows`). `Reconciled`, about `TradeReconciler`, for any orders and any number
of overlapping passes, from `RecInv`: `PassKnows` says what a pass has learnt at each of its awaits that can no
longer change (an order it found neither active nor unknown is finished at the broker), which is why what it writes later is still true.
`CallsAreAccountedFor`, about `RetryBroker`, from `CallInv`: the attempts made bound the orders executed, and what a cancellation has still
to do, cancelled and failed to cancel is apart and together what it listed, all of it below the number of the last order then placed.
`SlicesAreSound`, about `OrderSlices`, from `SlicesTyped`: `SliceFits` bounds a slice by what is left whatever the noise, and `CoursesAre` lists
the courses of a simulated order, of which `CoursesTell` checks each. `SlicesAssumption` has positive quantities, since `simulate_order` raises
for others, and the minimum of five slices. `LimitsAlwaysRight`, about `IdxRules` (`BandIsRight`): for every previous close and board the two limits are the highest and
the lowest valid price of the band. `RoundDownRight` and `RoundUpRight` go level by level through the tick table: rounding up may end on the next level, which is
harmless because each level begins at a multiple of both ticks. `OrderIsSound` joins what is said of an order and its trail.

**LearnerProofs**: `LearnersAreSound`, the bundle of the run, from five theorems about specifications without a common variable.

* `EnvIsSound`, about the episodes, from `EnvInv`. The prices cover slippage and fees; a sale that does not bring in its costs would overdraw
  the account by more than one commission. A take-profit that is filled and one that is withdrawn change the sum of the pending ones (`LimitCount`) by their number, so they stay covered;
  a lot is counted as won or lost only in the step that adds it to `closed`.
* `PortfolioIsSound`, about the portfolio of the policy, from `PortfolioInv`. A step trades symbol after symbol, so `SoFar` says what holds after each: what the traded symbols have
  paid, what the others still hold, and that the account is worth what it was less the commissions (`OneFurther`, and `CountUp` to the last). A purchase the cash does not
  allow is cut to what `Affordable` allows, whose quotient leaves the cash at zero or above.
* `ReplayIsSound`, about the replay buffer and the drift detector, from `ReplayInv`. The tree is reached upwards by `Above` and downwards by `Retrieve`, both
  recursive; `PathClimbs` says that of the two children of a node on the way up exactly one is on it, so a change is added once on each level (`SetPriorityKeeps`). From the leaves up
  (`LeavesUp`), a leaf gets as many of the steps below a node as its priority if it is below the node and none otherwise (`HitsAre`): at the root that is `Proportional`, for
  every capacity. `NoPhantoms` needs the batch that is held: its slots are filled unless the buffer was cleared or replaced since. While rewards only fall, no reward so far was below
  the last one, so the mean is not below it and the sum of deviations is at its lowest (`MeanAbove`).
* `AgentIsSound`, about the account and the batches of the live agent, from `AgentInv`, whose `Books` are kept by a purchase and a sale of any quantity at any price; an action
  goes through the symbols as a step of the portfolio does (`RebalancedBooks`), and what it wants closed stays closed because the symbols after it are others. Chunks begin at the multiples of the batch
  length, so each observation is in one of them.
* `RegimesAreSound`, about the three readers of the regime, from `RegimesInv`. `EndOf`: what the detector keeps is the end of what it heard, and long enough for a window, so
  `Classified` cannot tell (`ClassifiedSame`). `RegimesAssumption` has `MinReturns` at most the window (10 and 50 in the code): with more, a cut would silence the detector. A hidden state's
  rank is the number of states with a higher mean, so of three states no two with different means share one.

`EnvAssumption` says that slippage and commissions together are less than a price (in the code they are shares of it), `AgentAssumption` that a symbol is listed once and the feed
has a price; `PortfolioAssumption` and `ReplayAssumption` say what is positive or a natural number.

**ControlProofs**, about `AutonomyService` from `AutonomyInv`: `AutonomyTypeCorrect`, `HaltedHasNoDrafts`,
`PendingStaysBounded`, `DraftsAlwaysCounted`, `KillSwitchHolds`, `EvictionTakesTheOldest`, and the two bundles the run
checks, `DraftsAlwaysSafe` and `DraftsAlwaysMoveSafely`, together `DraftsAreSound`, without its bounds. The bound on the drafts is the one that needs
strengthening: a full queue must have an oldest draft, which `LeastNatural` gives
once `InOrder` says that later numbers are not older. `KillSwitchHolds` rests on
`NoDraftsWhenHalted`, since `approve_order` has no guard of its own.

**ControlProofs**, about `KillSwitch` from `KillInv`: `KillSwitchAlwaysObeyed`, the bundle the run checks, for any number
of worker threads and requests. `OldActivityStopped` speaks of activations that were answered and is not inductive:
`Underway` says what a worker thread has achieved at each of its labels (the scheduler it found is the only older one
that has not been told to stop, then none is left, then no older order is pending) while other requests start, stop and queue around it. Whether the wait for
the thread ends or times out makes no difference to it: an object that has been told to stop stays told (`Signalled`) though its thread is forgotten, only the object the
server holds is untold, and so `NoOldRunBegins` follows from the guard of the loop.

**ControlProofs**, about the quota of `AccessRules` from `QuotaInv`: `QuotaIsCounted`. The two queues are pruned when a request is recorded or looked at, and only from
the left. `AllCounted` says that a queue counts not just the present window but every window that may still be asked for, which pruning keeps and
recording extends; once the clock is set back only `Ends` remains, the minute's queue as an end of the hour's.

**ControlProofs**, about `ServerJobs` from `ServerInv`: `JobsAreSound`, for any training requests, prices, timeframes and size of the history.
`LifespanInv`: who was told to stop stays told, unless the pending start of the trainer clears its event, and then it is late. `TrainingInv`: two trainings that
run know of each other, whoever began first, so one that knows of none has its dataset to itself until it has fitted it. `BookInv`: a position has met its
stop-loss at each priced row, because the row that breaks it is the one that sells. `HistoryInv`: what is listed is older than the run under way, so prepending
keeps the order. `ViewerInv`: the timeframe a stream uses is the last one among the messages it has heard.

**ControlProofs**, about `SelfTuning`: `ModelsAreSound`, the bundle of the run, from `AutoMLIsSound` and `OnlineIsSound`.
`TuneInv`, of one run at a time: the second in a version is later than every one listed until it is listed itself (`VersionsGrow`), so versions
differ although their numbers repeat; the file differs from the memory in its flags only, and in memory no flag is set between the two steps of a promotion (`FlagsInv`);
the model under promotion is the last one listed, and the one in service is the last before it unless the process died (`BaselineHeld`), so cutting the list to two or more
never drops what the baseline was taken from. `OnlineInv`: the last checkpoint of this process is whole, and while the count is not behind it the distance to a whole one grows by one
sample a failed save (`NearInv`); the dashboard's drifts are the detector's, counted from another sample (`SameDrifts`). A trend is the sign of a sum of weighted values
(`SlopeOfRise`): summed from the oldest, the weighted values of a history that never falls are no less than if all were as high as the last, by the least number for which that fails.

**WorkerProofs**: `LoopsAreControlled` (four kinds of scheduler, any callers, loops and trials) from `SchedInv`: loops are numbered by their starts, one that lives is the one
the object knows or was given up on after a join that timed out, and whoever joins has set the event before.
`GhostIsControlled` from `GhostInv`: the same of the ghost machine, whose `stop` and manual cycle run on the API's thread, with
`SentOnce` and `CyclesAddUp`, what a thread inside its loop over the symbols has sent and counted.
`NotificationsArriveOnce` from `NoteInv`: the lists of connections only grow while they are shared, and a removal makes a new one
(`[c for c in ...]`), so a send iterates over the list it found; `SendSound` says that exactly the connections before its position have had their
turn, of a send that began with a handler registered. With a removal in place (the property's mutant) a connection would be skipped.
`EventsStayInOrder` from `QueueInv` and `HandsKept`: `FlowInOrder` orders the places an event passes on an instance (popped before queued before taken before on the channel
before unpublished), event by event of one thread, and says that an instance's own events are in its memory from the push on, so that what comes back from Redis is recognised.
`HandsInOrder` carries the order from what was popped to each client, what it was sent before what its handler still holds, and says that no two handlers hold or sent the same event; what
a failing send drops is in `lost`.

**ServiceProofs**

* `AccessIsDecided`: the guards of the two files decide alike, with the right status, for all roles, tokens and settings. The
  access module is a function of the request; the lemmas `GuardsDecide`, `CodesDecide` and `HintsDecide` compute it case by case.
* `ProfileAndMarketHold`, from `RegimeInv`: an inference read the profile before a choice that overtook it; the invariant says which
  inferences still hold the chosen profile, and when the market a handler has read is the latest.
* `SessionIsOne`, from `SessionInv`: the three records are written one after the other, so the invariant says
  which of them agree at each label of the handler, and what a cancelling thread that no handler overlapped has read.
* `AccountsAreSound`, from `AuthInv`: the table in the file, the one being written and the one a torn file leaves; a reset token has one use.
* `GuardIsSound`, from `GuardInv`: for every position size, `Adjusted` is monotone in the votes and never changes sign or grows.
* `InboxIsSound`, from `InboxInv`. The list is cut at its old end while a reader counts from its new one. `WalkFine`: each notification he still has to see
  has at least as many newer ones before it as his offset, so neither a new one nor a dropped one moves it past him. `NotesCounted`: what a user heard
  of a series and what is due to him in the emitters' loops is together no more than the changes of its signal. `QuietHours` is arithmetic modulo a day of any length.
* `AlertsAreSound`, from `AlertsInv`. `KeyRemembered` follows the time of the last alert through memory, the file being written and
  the one a crash leaves. `TokensHeld`: a token that nobody held an older copy beside is in the file and in every copy a process may write over it.
* `AnswersAreTheCalls`, an action property, from `IdxInv`: on a websocket that nobody gave up waiting on, at most one message that is no tick is on its way (`Lone`), and it belongs
  to the one call that waits there (`Owned`). `spoilt`, the history of who gave up, is read before the step.
* `LatestIsAlwaysLast`, from the same: whatever the size of the cache, cutting it keeps its last tick.
* `ChartsAreSound`, from `ChartInv`. `SeesEnough`: a request that no broadcast overtook has fetched all candles shown so far; what is cached is bound in the same way (`KeepsEnough`),
  and a viewer is taken from the list in the step that ends his handler or before.
* `SymbolsAreSound`: hour by hour of the week when each market opens next (`ForexCloses`, `ChartsClose`); every form of a symbol, for any currencies and coins (`NormalizingIsOnce`).
* `NoticesAreSound` and `MarketIsSound` state the bundles of the run. Their hypothesis is a conjunction of specifications without a common variable, as the
  run has it, where each behaviour moves one of them and leaves the others at rest.

**StoreProofs**

* `LearningStaysHonest`, from `LearningInv`. The number of judgements is bounded by time: one more judgement takes one more
  evaluation time (`OneMore`), because a judged prediction is replaced by one anchored at the request that judged it, or at a candle that is younger than its timeframe
  while candles come in time (`Steady`). Anchored at a late candle or one of more than four hours it may be due at once, and only the counts and the reliability are claimed. That is an average weighted
  towards what it was, clamped: a lost judgement scores at most 28 % and a won one at least 72 %, on either side of where the reliability starts (`ReliabilityFollows`).
* `RegistryIsKept`, from `RegistryInv`. Registrations are injective, so the list is no longer than there are paths (`NoRepetitionFits`, the
  pigeonhole principle); the ids that were answered denote the same path in the file and in what the process is about to write (`AnswersKept`), as long as it works alone and is not killed.
* `ActivityLogStaysKept`, about the activity log of `StateStore`, from `LogInv`. A process that starts uses Postgres, or SQLite where the connection or the counting query fails. That no entry is lost follows the migration: the rows it is past are in Postgres before they are deleted
  from SQLite, under the lock. That none is doubled without a fault needs a potential: `PgBound` and `LiteBound` say how many
  rows faults and starts so far explain, and `PgRoom` and `LiteRoom` keep one row of room for each call that is about to insert.
* `SecureStateStaysKept`, from `StoreInv`: five facts about two copies. `NotOlder`: SQLite does not hold a write that a later acknowledged
  one replaced, because writes take numbers when they begin and are acknowledged after their row. `Single` and `Agreeing`: one thread's calls do not
  overlap, so the copies differ only between its two writes or after one that was missed. `RowKept`: after an acknowledged write there
  is a row, which no default replaces. `Locked`: a migration holds the lock from reading the row to deleting it, so what it deletes is what it copied.
* `TrainingIsSound`, about `Training`, from `StudyInv`, for datasets of any number of symbols and rows. `SamplesInStep`: the samples, symbol after symbol, count the bars of each one by one, so
  samples apart by the purge gap are bars apart by it; what the recursion of `FlattenSeq` makes is proved from `FoldExists` (`FlattenSteps`). A fold that is worked on is two spans inside the
  data (`FoldBounds`): it was looked at before the step, by `LastFold` or `Refused`. `BestOf`: the best loss is the smallest so far and stands at its epoch, while `LossesKept` bounds the epochs since.
  `OneFold` and `WindowIs` are the arithmetic of the tabular split (one to four splits, as in the instance) and of the windows (one to three). `LabelSettles`: the first bar that hits a barrier, and the last bar looked at, are
  there before the next price. `TrainingAssumption` has what the code raises for; a loss is positive, since zero stands for infinity.

## 5. Only model-checked

* Liveness (`TriggeredSettles`, `WhatBeginsEnds`) and ENABLED are beyond the prover.
* Induction over data has no general rule here. Where a property rests on a sum or a recursive function, `Sums` does without it.
* `CleanReportIsTrue` is not a theorem: `reconcile_once` compares the expected state of one moment with the account of an earlier one. Prices can be found for which a sale and a purchase in
  between bring the cash back to where it was (a share sold at 2003 and bought back at 1995, with the fees of 0.25 % and 0.15 %); the instance's prices and fees exclude such a
  round trip, and there the property holds.
* `BooksSound`: the model buys with whole numbers, and the instance's balance and prices are such that nothing is rounded; for others the books balance only up to the
  rounding, as the program's do up to that of its floats.

## 6. Not modelled

* **Autonomy routes**: wrappers around the service.
* Of the **API**: parsing, routes that only read, metrics middleware, formatting; the services that compute
  an answer from a model or a table (signals, explanations, projections' figures).
* **Data pipeline**: downloading and transforming tables; **feature store**, ensembles, evaluator, networks, gradients: numerical
  work whose control is a loop.
* The **backtester library** and the scalping rule, which nothing in the server calls.
* **Metrics, tracing**, front end, deployment, scripts.
* Encryption, password hashing and one-time codes appear by what they decide. Schema creation and display queries of the stores are left out.
* Remote broker adapters are not in the repository; a call to one is modelled by how it may fail.
