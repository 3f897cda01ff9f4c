# TLA+ specifications of the V7.1 box trading engine

The engine (`src/src/core/v71`, wired by `src/src/web/v71/trading_bridge.py`)
buys Korean stocks when a bar closes in a user's *support box*, and sells them
along a fixed ladder.  This directory holds TLA+ modules of it, TLC
configurations that check them, and proofs that TLAPS checks.

Paths below are relative to `src/src/` unless they start with `src/`.

## 1. The system

| Component | State | Operations | Talks to |
|---|---|---|---|
| Trading bridge `web/v71/trading_bridge.py` | which parts are built, safe mode | attach and detach in stages, recovery, maintenance loop, VI handler, capital cache | everything |
| Kiwoom websocket `core/v71/exchange/kiwoom_websocket.py` | phase, subscriptions, failures | run loop, receive loop, dispatch in place, abort | candles, exits, VI, prices |
| Kiwoom client, tokens, limiter `core/v71/exchange/` | bucket, cached token | acquire, get_token, request | broker (REST) |
| Candle manager, builders `core/v71/candle/` | bucket of each stock, daily history | tick to 3-minute bar, daily fetch, scheduler | detectors (awaited in place) |
| Price publisher `core/v71/pricing/` | buffer | tick to buffer, flush to `v71_positions` | VI monitor |
| Box entry detector `core/v71/box/box_entry_detector.py` | cooldowns, previous candle | `check_entry` per bar | box manager, buy executor |
| Buy executor `core/v71/strategies/v71_buy_executor.py` | none between calls; a frame per buy | PATH_A at the bar; PATH_B at 09:01 with a 09:05 fallback; `_finalize_buy`; compensation | adapter, box and position managers |
| Exchange adapter, order manager `core/v71/exchange/` | `v71_orders` | submit, cancel, order events | broker, websocket |
| Box manager, repository `core/v71/box/` | `support_boxes` | create, modify, delete, trigger, invalidate, sweep | database row locks |
| Web services `web/v71/api/boxes`, `.../tracked_stocks` | `support_boxes`, `tracked_stocks` | create, patch, delete; stop tracking | box manager |
| Position manager `core/v71/position/` | `v71_positions`, trade events | add, buy more, sell, close | executors, reconcilers |
| Exit orchestrator, calculator, executor `core/v71/strategies/exit_orchestrator.py`, `core/v71/exit/` | per-stock locks | tick to stop or profit take; sell | position manager, box sweep |
| Reconcilers `core/v71/exchange/reconciler.py`, `core/v71/position/v71_reconciler.py` | none | compare broker balances with positions | positions, boxes |
| Restart recovery `core/v71/restart_recovery.py` | restart times | seven steps from safe mode to normal | everything above |
| VI monitor `core/v71/vi_monitor.py` | VI state per stock | trigger, resolve, resettle, list after an outage | buy executor, publisher |
| Notifications `core/v71/notification/` | notifications table, breaker | enqueue, drain, retry, expire | Telegram |
| Telegram bot and commands | last update id | poll, authorise, run a command | safe mode |
| Daily summary, monthly review | their targets | sleep, notify | notifications |

What makes each of them correct:

* *detector and buy executor*: a box is bought at most once; a position row and
  the box's TRIGGERED mark appear together or not at all; the position says what
  the broker bought and never more than was asked; a failed box is not retried
  while it cools down; every buy ends.
* *order manager*: the row of an order never runs ahead of the broker.
* *box table*: waiting boxes of a path do not overlap; 30 per cent of the capital
  per stock; the stock's status agrees with its boxes; closed boxes and stopped
  stocks stay so.
* *positions, exits, reconcilers*: a stop belongs to its average price and to the
  profit takes done; no share is written off that was not sold; a manual sale hits
  the user's own rows first; a ledger that claims too much is corrected.
* *bridge*: no running part loses what it calls; safe mode that the user asked for
  stays, any other ends.
* *stream, VI*: what was subscribed is registered again after an outage; a halt
  missed in an outage is found; only a refused token ends the stream.
* *candles, prices*: bars in order, once, with every tick heard in their time; a
  day's bar once; a row's price is never replaced by an older one.
* *notifications*: no important message is lost, none repeated without a cause.
* *REST*: no more calls than the limit; one token issue at a time.
* *commands, digests*: a command is run before it is confirmed; a day's summary is sent once.

What is hard: one receive loop carries both the ticks that start a buy and the
events that report its fills, and awaits a buy in place; two tasks buy at the same
time as users edit boxes; REST answers get lost; sessions run at REPEATABLE READ,
where a row lock does not refresh what was read before it; three writers change a
position with nothing but its row lock between them; the parts of the engine come and
go in stages while loops of other stages run; a restart forgets cooldowns, frames,
queues in memory and subscriptions, but not rows.  `PROJECT.json` lists the hazards by line.

## 2. Modules

Three families, and no variable is shared between them:

    OrderBook <- BuyPath            implements BoxContract
    BoxTable
    PositionLedger <- ExitPath <- Holdings     implements PositionContract
    Wiring <- Tasks <- Alerts <- Stream <- Feed <- Engine
                       Engine <- Outside <- Gateway <- Caches <- Bot <- Digest <- System

| Module | Models | Lines up with |
|---|---|---|
| `OrderBook` | one stock's buy orders as broker, `v71_orders` and stream see them | `order_manager.py`, `_dispatch_real` |
| `BuyPath` | detector and buy executor | `box_entry_detector.py`, `v71_buy_executor.py`, `exchange_adapter.py` |
| `BoxContract` | abstract: what buying promises about a stock's boxes | |
| `BoxTable` | box transactions of one stock | `boxes/service.py`, `box_manager.py`, `box_repository.py`, `connection.py` |
| `PositionLedger` | position rows of one stock and every write to them | `v71_position_manager.py`, `models_v71.py`, `_drain_*` of `reconciler.py` |
| `ExitPath` | a tick judged against the open positions, the sale, the write-off | `exit_orchestrator.py`, `exit_calculator.py`, `exit_executor.py` |
| `Holdings` | account against ledger, with buys, exits, user, both reconcilers, restarts | `reconciler.py`, `v71_reconciler.py` |
| `PositionContract` | abstract: the life of a position | |
| `Wiring` | what each `_build_*` needs and builds, order of attach and detach, who calls whom | `trading_bridge.py` |
| `Tasks` | the parts that run, the flags, the budget of upsets | `_TradingEngineHandle` |
| `Alerts` | notifications table, circuit breaker, worker | `core/v71/notification/` |
| `Stream` | websocket run and receive loops, its token, VI of one stock | `kiwoom_websocket.py`, `token_manager.py`, `vi_monitor.py`, VI part of the bridge |
| `Feed` | candle builders, candle scheduler, price publisher, for one stock | `core/v71/candle/`, `v71_price_publisher.py` |
| `Engine` | attach, detach, crash, recovery, maintenance, safe mode | `trading_bridge.py`, `restart_recovery.py`, `web/v71/api/system` |
| `Outside` | budgets of calls, Telegram updates and periods | |
| `Gateway` | a REST call: bucket, OAuth token, request | `rate_limiter.py`, `token_manager.py`, `kiwoom_client.py` |
| `Caches` | the cached total capital and its refresh task | `trading_bridge.py` |
| `Bot` | polling and commands | `notification/telegram.py`, `v71_telegram_commands.py` |
| `Digest` | daily summary and monthly review schedulers | `v71_daily_summary.py`, `v71_monthly_review.py` |
| `System` | all of the third family together | |
| `MC*` | constants, symmetry and configurations for TLC | |
| `*Proofs`, `EngineTypes` | theorems | |
| `Sums` | lemmas about sums over finite sets | |

### OrderBook and BuyPath

`frame[t]` is the state of one task's detector and executor frames: `pc` is the
`await` it stands at, and the other fields are the locals of `check_entry`,
`_buy_sequence` and `_execute_path_b_fallback`.  The task `ws` is the receive loop
(PATH_A), `eod` the daily scheduler (PATH_B).  Every `await` ends an action, so
users, broker and the other task may step in at each.  `OrderEvent` and
`BarComplete` need the `ws` frame to be idle: `_recv_loop` awaits its handlers.
`broker` is external: accepts, fills in parts, rejects, cancels.  An answer may be
lost (`SendUnanswered`, and `Cancel` where the broker cancels or not), a database
call may fail, the stream may be cut, the process may restart (`Crash`).
`CommitFails` includes the commit whose acknowledgement was lost.

A confirmed cancel (`ConfirmedRow`) leaves a partly filled row PARTIAL, as the
handler does.  The table's CHECK on filled quantity is part of `FilledRow`.

`OrderEventsWired` says whether the handler of channel 00 is registered.  The
repository's wiring does not register it (`trading_bridge.py:3287`: "other channels
... join in subsequent units"); the runs set it to TRUE, the harder case, and the
theorems hold for both.

`TimesComparable` says whether the two times that the wait of a PATH_B decision
subtracts can be subtracted.  With the clock that `trading_bridge.py:1517` passes they
cannot (`AfterWait`): as wired, a PATH_B decision ends there, and
everything behind it, the 09:05 fallback with its lost fills included, is never
reached.  The executor's tests pass a clock with which it is: the passing runs have that, the harder
case, `BuyNextDay` has the engine's, and the theorems hold for both.

The broker hands out order numbers in one fixed order (`NextNumber`); a number says nothing else.

Left out: prices and averages, notifications, safe mode (nothing in this path
reads it), the extra order row a cancel inserts, the executor without a session
factory (tests only).  An `IntegrityError` of the order's INSERT is raised as an API error
(`order_manager.py:523`): for the buy that is a send without an answer, `SendUnanswered`.

### BoxTable

`tx[t]` is an open transaction: `view`, `seen` and `open` are what it read, `locks` what
it holds, `stale` the rows others updated since its snapshot.  `Granted` is
PostgreSQL's rule: wait for the lock, then fail if the row was *updated* after the
snapshot; merely having been locked is no reason to fail.  A transaction's
statements up to the next lock are one action; its writes appear at `Commit`.
The per-stock `asyncio.Lock` is left out: the web service's manager and the
engine's are different objects (`web/v71/lifespan.py:38-44`), and within the web
process the row lock is always taken first.  The engine's single-row updates are one step.

Left out: stop-loss percentages, memos, audit records, reminders, hard deletion of
an EXITED stock.  A position is taken to have invested its box's percentage.

### PositionLedger, ExitPath, Holdings

A row of `v71_positions` is a record of source, quantity, average, stop, the two
profit takes and status.  Each operation of the manager runs in one transaction on a
locked row, so it is one action; averages are the code's integer arithmetic.
`ex` is the evaluation of one tick under the per-stock lock: the positions it read
once, the one in hand, the order it sent and how often it has looked at its row.
The account (`held`) is external and moves with the system's buys, with exits and
with the user's own trades, each reported to nobody.

The periodic reconciler (`rec`) fetches the balances, reads rows and tracking status
without a lock, and writes under one (`RecFetch`, `RecLoad`, `RecTrack`, `RecApply`: cases A to
E; a manual sale is drained from the MANUAL rows first and then from the two paths by
their shares).  The restart's reconciler (`rst`: `RstFetch`, `RstLoad`, `RstApply`) writes from a
snapshot in the same way.  `BalanceParsed` says whether that list holds what the
broker said: `trading_bridge.py:2110` reads it from an attribute the response does not have.
`QueryAwaited` says whether the orchestrator awaits its query.  It is TRUE in the
runs, as the orchestrator's own tests wire it.  As the code is wired
(`exit_orchestrator.py:303`) no exit ever fires, so FALSE is the trivial case.

Left out: the trailing stop (no code sets `ts_activated`), trade-event rows, other stocks,
apply modes that no configuration selects, scenario C of the restart, whose stub lists nothing.

### Wiring, Tasks, Engine

`up` is the set of parts that run.  `Build` is one stage of attach: it needs what the
stage's `_build_*` insists on.  `AttachRaises` is a missing part or a failing call:
`lifespan.py` logs it, the Web goes on and what was built runs on.  `Detach` is one step of
`detach_trading_engine`, which logs an exception and goes on.  A flag set is chosen once and never changes
(an environment variable).  `safe` has four writers: recovery, maintenance loop, web and
Telegram; `paused` is a history variable that remembers who asked for the pause.
`window` is the broker's maintenance window, external.

Left out: the seeds of previous closes, tracked stocks and holidays, the market
context, the manual-buy callback.

### Alerts, Stream, Feed

`Alerts`: the rows of the notifications table, the breaker, and the worker as a
program counter with one action per `await`; `told` counts what the operator saw.
`Upset` pays for everything that goes wrong, so that runs are finite and "only after
something went wrong" can be said.  Telegram's own breaker, backup queue and delayed
copies inside `TelegramBot` are not part of it: only the service's sends are counted.
`Enqueue` takes the rate-limit check and the INSERT as one step; between them the code awaits
(`v71_notification_queue.py:159`), so two notifications of one key may both pass, which no property excludes.

`Stream`: `ws` is the run loop, `recv` the receive loop, `subs` what is wanted and what the
connection has registered; the VI monitor is `vi` with its handler's `await`s in the
receive loop.  `Halt` and `Resume` are the exchange's.  `unheard` says that a halt's message
was lost in an outage.

`Feed`: the 3-minute bucket, the daily scheduler's steps, and the publisher's buffer and
guarded UPDATE.  A tick has no time of its own: `message_to_tick` takes the host's time of
receipt (`candle/types.py:125`, `kiwoom_websocket.py:648`), so a late tick counts in the bucket it
comes in, and only a host clock that is set back (`ClockSetBack`) makes a tick older than the
bar in progress.  The end-of-day fetch runs every evening, holidays included, and takes the newest row of
whatever date (`Newest`); the dates seen filter the repeats.  A fetch that fails, or finds the session
before, counts the date as fetched, and the code tries no second time (`EodFails`).  The history
fetched at attach notes its dates and dispatches none, so after an attach in the evening that
day's own bar is not dispatched.
`sent` is a history variable of the bars that were finished.  The bar flushed by detach reaches no
detector, because the detectors stop first.  Prices are cut
down to what the publisher's sanity check tells apart.

### Outside, Gateway, Caches, Bot, Digest, System

`Gateway`: each caller has a program counter from the limiter over the token to the
answer.  Time is counted in units of the refill of `1/Cost` tokens.  The token manager's lock
lets one caller issue; the others look again when they get the lock.  Whatever the
answer is, the call is over: `error_mapper` says what a caller should retry, and none does.

`Caches`: a read of old capital (`CapitalRead`) starts a task whose call is one of `Gateway`'s; `inflight` is the code's flag.  A machine that has
been up for longer than the 300 s lifetime is assumed (`fetched_at` starts at 0
of a monotonic clock).

`Bot`: Telegram keeps updates until a `getUpdates` with a higher offset; the effect of a
handler and the update of `_last_update_id` are two steps.  `Digest`: one loop that sleeps to
its target and notifies; a due task is not kept waiting for half a period and
`sleep_until` does not wake early.

`System` puts an engine step together with what follows for the parts it builds or takes
down, and lets every other part step alone.

## 3. Runs

| Run | Question | Properties | Result |
|---|---|---|---|
| `BuyBoth` | a box of each path, two decisions, all other writers | `TypeOK` `TerminalBoxFinal` `CooldownBlocksOrders` `LoopReturns` | pass |
| `BuyPartial` | partial fills through three orders, a restart, refinement | `TriggerAtomic` `NoPhantomShares` `PositionWithinTarget` `RowsBehindBroker` `ImplementsContract` | pass |
| `BuyNextDay` | does a PATH_B decision come to its morning? | `MorningComes` | violated |
| `BuyDoubleFill` | does the cancel prevent a double fill? | `NoDoubleFill` | violated |
| `BuyLostFills` | does a fallback record what it holds? | `FillsPersisted` | violated |
| `BoxSerial` | rules of the box table, one request at a time | `NoOverlap` `WithinCap` `TrackingHasNoBox` | pass |
| `BoxRace` | two requests and the sweep at once | `ClosedBoxFrozen` `StopLeavesNoPosition` `TransactionsEnd` | pass |
| `BoxOverlap` | overlap check under concurrency | `NoOverlap` | violated |
| `HoldingsExits` | exits on the ladder against every other writer | `StopOnLadder` `BookedWithinSold` `ImplementsContract` | pass |
| `HoldingsPaths` | manual sales over three rows, healing | `TypeOK` `ManualFirst` `DrainExact` `OverstatedHeals` | pass |
| `RestartEmpty` | does a restart keep what the broker holds? | `RestartKeepsHoldings` | violated |
| `System` | the composed engine, fourteen configurations | `SystemTypeOK`, twelve more invariants, one action property, four liveness properties | pass |

The properties of `System`, by part: engine `NothingPulledAway`, `WebPauseKept`, `PauseEnds`;
notifications `ImportantKept`, `RepeatsNeedUpsets`, `AlertsDelivered`; stream `NothingUnregistered`,
`StreamComesBack`, `MissedHaltsFound`; bars and prices `BarsExact`, `DailyBarsOnce`, `RowStampsRise`;
REST `GrantsWithinRate`, `TokenIssuedOnce`, `RefreshGuarded`; commands and digests `CommandsKept`, `DigestsOnce`.

### Bounds

* `BuyBoth`: boxes `a`, `b` (`b` on PATH_B), 2 orders, target 1, 2 decisions in all, no crash.
  `BuyPartial`: one PATH_B box, 3 orders, target 2, 1 decision, 1 crash.  The loops of the
  code repeat one pattern per order, box and attempt: two orders give a late fill of an old order during a new one; three
  let both sequences of a PATH_B buy and one surplus order interleave; target 2 is the
  smallest with a partial fill; two boxes give two tasks, sibling checks and a
  scan with a box left over.  A decision after a restart starts from the same rows as one after a
  lost answer or a lost stream, which `BuyBoth` has.  `RetryCount` is 3 in the code, 1 in `BuyPartial` and 0 in `BuyBoth`,
  where a second attempt would add nothing that two decisions do not: the
  theorems hold for every value.
* `BoxSerial`: 2 boxes, 2 paths, 3 ranges (touching and overlapping), sizes 1 and 2, cap 3.
  `BoxRace`: 2 boxes, 1 path, 1 range, cap 2, two Web requests.  `BoxOverlap`: 3 boxes.
  `NoOverlap`, `WithinCap` and `TrackingHasNoBox` are claimed for one Web request at a time only: with
  two, the stale snapshot that `BoxOverlap` shows defeats the checks behind them.
* `HoldingsExits`: 2 rows, 2 sell orders, prices 95 (a stop) and 105 (a profit take), one retry, a buy
  of 3 shares, one upset.  Two rows give an evaluation that goes on with a row it read
  before another writer changed it; a second order gives a late fill of the first.
  `HoldingsPaths`: 3 rows, so that both paths and MANUAL can be open at once, buys of 1 and 2
  shares, so that shares of a drain round; one price.
* `System`: small sets for each part (two rows of notifications, three candle buckets, dates
  up to 4 of which the third is a holiday, two quotes, two refused tokens, a burst of 2, two callers) and fourteen
  configurations (`MCSystem!Configurations`), each with its own budget of upsets, calls,
  updates, periods, ticks and dates.  A configuration brings together parts that interact: account with
  commands, exits and digests; messenger with stream, VI and reconciliation; the stream alone with one upset more;
  the buy side with stream and daily candles, first with failures, then with detectors and a holiday;
  3-minute candles with three ticks; price following with exits; the gateway alone with three calls; the
  cached capital with calls and time; commands with updates; digests with four
  periods; and two flag sets that attach refuses half way.  All flags at once would
  multiply parts that do not touch each other; the theorems hold for every flag set.  The configuration with
  3-minute candles has no upset, so a bar with ticks that detach flushes is left to the theorem.

`MaxBars`, `MaxDecisions`, `MaxCrashes`, `Order`, `MaxUpsets`, `MaxMoves`, `MaxBucket`, `MaxTicks` and the like bound the
environment, never the code: when `Order` is used up the broker takes nothing more.
Deadlock checking is off because an engine whose environment has nothing left really
stands still: no waiting box, no order, a market that sends nothing.

### Fairness

`BuyPath!Resumed(t)`: the event loop resumes a started frame of task `t` (sleeps end, calls answer
or time out).  `LoopSpec` (run `BuyBoth`) assumes it of the receive loop alone, `FairSpec` (the
runs that are violated) of both tasks.  Nothing is assumed of broker, users, crashes, or of bars and events arriving.
`BoxTable!FairSpec`: a statement whose locks become free again and again gets
them (PostgreSQL queues the waiters of a row), hence strong fairness of `Work`; a
transaction past its last statement commits.  With weak fairness a request could
wait for ever behind an endless row of others.
`Holdings!FairSpec`: an evaluation that has begun goes on, the periodic reconciler's loop
keeps running, a restart's reconciliation ends, a buy that was sent is recorded or given up.
`System!SysFairSpec`: the worker's steps that need no upset, the breaker's timeout, the run and receive
loops of the stream, the maintenance loop, and an OAuth request that was sent ends (it has
an HTTP timeout).  Nothing is assumed of failures, of the exchange, of the user or of a
window opening; each liveness property names the states in which the code may stop.

### Disagreements with the code's own comments

1. `BuyDoubleFill`: "Cancel before next attempt so we don't double-fill"
   (`v71_buy_executor.py:619`).  The limit order fills; its event waits behind the buy;
   the row says open; the cancel is refused and the refusal suppressed; the next
   order buys the same shares again.
2. `BuyLostFills`: "On fill: mark box TRIGGERED, persist position"
   (`v71_buy_executor.py:19`).  A fallback that abandons at 09:05 drops the shares of
   09:01: no position, and the box keeps waiting.
3. `BuyNextDay`: "Wait until 09:01 of next trading day." (`v71_buy_executor.py:355`).
   The clock subtracts its own time, which has a zone (`v71_realclock.py:43`), from the
   decision's buy time, which has none (`box_entry_skill.py:329`).  The
   TypeError ends every PATH_B decision before its first check.
4. `BoxOverlap`: the lock "to prevent two concurrent overlap checks from both passing"
   (`box_repository.py:54`).  At REPEATABLE READ the second create checks a
   snapshot from before the first one's commit.  The first create on a stock is
   safe, because it updates the stock's status and the second one then fails.
5. `RestartEmpty`: "Step 3 reconciles broker balance vs DB positions"
   (`trading_bridge.py:1966`).  The balance is looked for in `body`
   (`trading_bridge.py:2110`), the response has `data`: the list is empty, and
   every open position is closed as sold by hand.

Met on the way, without a run of their own:

* `exit_orchestrator.py:303` does not await `list_for_stock`, and nothing in the bridge calls the orchestrator's `subscribe`.
* `cancel_order(order.id)` (`trading_bridge.py:895`) passes a keyword-only argument by
  position; `/cancel` does the same at `:2266` and always reports failure.
* Telegram's `/stop` keeps an old "maintenance" reason, so the maintenance loop lifts
  it, against the docstring at `trading_bridge.py:608-610`.  `WebPauseKept` is about the web's pause only.
* A VI that is resolved stays RESUMED when `notify` raises in `on_vi_resolved`.
* The clock is UTC (`v71_realclock.py:37`) where `trading_bridge.py:1880` says "15:30 KST".
* The limiter is acquired before the token, so grants pile up behind one OAuth call;
  8005 ("caller should refresh and retry once") is retried by nobody.
* The restart-frequency warning (`restart_recovery.py:359-390`) counts in memory and never sees a second restart.
* `stop_tracking` misses a box created after its snapshot, and `create_box` accepts an
  EXITED stock; the tracked stock never becomes POSITION_OPEN although
  `02_TRADING_RULES.md` says so; the cached capital outlives a detach.

### Slips

Before some definitions stands a variant marked *Slip*: the definition with one
plausible mistake.  No specification uses it.  Each property of a passing run is violated when its
variant (`PROJECT.json`, "mutants") takes the definition's place.

## 4. Proofs

Assumed are only the named assumptions on constants (`OrderBookAssumption`, `BuyPathAssumption`, `BoxTableAssumption`,
`LedgerAssumption`, `ExitAssumption`, `HoldingsAssumption`, `TasksAssumption`, `AlertsAssumption`,
`StreamAssumption`, `FeedAssumption`, `EngineAssumption`, `OutsideAssumption`, `GatewayAssumption`): numbers are natural,
some are positive, "no box" is not a box, flag sets are sets of flags.  Bounds are arbitrary, and sets may be infinite
but for two that are summed over: the boxes of a stock and the order numbers of `ExitPath`
(`kiwoom_order_no` is a VARCHAR(20), `database/migrations/v71/018_patch5_orders_table.up.sql:45`).

With them every invariant and every action property of a passing run, and both refinements, are theorems.

| Module | Theorems | Invariant they rest on |
|---|---|---|
| `BuyPathProofs` | `TypeCorrect`, `TriggerIsAtomic`, `PositionsAreBought`, `PositionsAreBounded`, `RowsNeverAhead`, `TerminalIsFinal`, `Refinement`, `Inductive`, `CooldownHolds` | `IInv`, `CooldownInv` |
| `BoxTableProofs` | `TypesHold`, `ClosedStaysClosed`, `StopsOverNoPosition`, `OneRequestNoOverlap`, `OneRequestTracking`, `OneRequestWithinCap` | `BoxInv`, `Alone`, `CapInv` |
| `Sums` | what a sum of naturals is | |
| `LedgerProofs` | `StopsStayOnLadder`; what a drain takes | `LadderInv` |
| `HoldingsProofs` | `HoldingsInvariant`, `HoldingsTypes`, `NothingOverbooked`, `UserPaysFirst`, `DrainsExactly`, `LedgerImplementsContract` | `HoldingsInv` |
| `EngineTypes` | `EngineTypeCorrect` | `TypeInv` |
| `EngineProofs` | `WebPauseIsKept`, `SubscriptionsRestored`, `NothingIsPulledAway`, `ImportantIsKept`, `RepeatsArePaid`, `BarsAreExact`, `DailyBarsAreOnce`, `RowStampsOnlyRise` | `PauseInv`, `PartsInv`, `WorkerInv`, `BudgetInv`, `BarsInv`, `DailyInv` |
| `SystemProofs` | `SystemIsEngine`, `RateIsKept`, `TokenIsIssuedOnce`, `RefreshIsGuarded`, `CommandsAreKept`, `DigestsAreOnce`, `SystemTypeCorrect` | one per theorem |

**Buying.**  `TypeOK` and the four safety properties are not inductive.  The invariant is

    IInv == TypeOK /\ BookOK /\ FramesOK /\ PositionsOK

* `BookOK`: per order, row <= broker <= quantity; each fill event in the stream still
  fits on top of its row, and two fill events of one order are in the order of
  their remaining quantities.  Without it a late event could push a row past the broker.
* `FramesOK`: what a frame has counted (`kept + got`) was bought for its box
  and does not exceed the target; the order in flight belongs to the frame's box
  and is not counted yet.  Fresh order numbers make orders of two frames different.
* `PositionsOK`: TRIGGERED exactly with one row, with a quantity between 1 and the
  target, covered by what was bought.

`Refinement`: every step of `BuyPath` is a step of `BoxContract` or leaves its variables
alone.  `CooldownInv` adds that a frame between a decision and its last order is on a
box that does not cool down (the same box is never in two frames, a box's path decides its task).

**Box table.**  `BoxInv` is about snapshots and locks: what no other transaction has updated
since a transaction's snapshot is as that transaction sees it (`SnapshotOK`); a locked row is
never stale, a locked box waits, and whatever is about to be written is locked or is the box a create inserts
(`LocksOK`); no two transactions hold one lock or insert one box (`Apart`).  So a commit meets
only waiting boxes and a stock that is not EXITED, for any number of requests.  For
`stop_tracking`, `StopOK` says that a position it did not see belongs to a box it does not know
or has made that box stale, which then fails its last statement.  The rules of
the table need one request at a time (`Web = {w}`, as in `BoxSerial`; `BoxOverlap` shows why):
`Alone` adds that the request's own view obeys the rules and that every box still
waiting is as in that view, because everyone else only closes boxes.
`CapInv` weighs: the boxes that wait or whose position is open fit the cap, and so do those of the
request's view with what it has written.  The view knows every box that weighs now, in its size,
but for those the request writes: a trigger takes a box from the waiting to the held
ones, where it weighs the same, and a close takes it off the scales.  So the commit weighs no more than
the view that was checked.

**Sums.**  `SumFunctionOnSet` of the community modules is a recursive function on the subsets of a
finite set.  What it returns is proved for a smallest subset for which it could be false
(`SubsetInduction`, over the sets of sets for which a fact fails): the sum of a subset, of two disjoint sets, of two
functions, of a function changed at one place.

**Ladder.**  Every write of a row keeps stop, profit takes and average in step; the
evaluation's old copy of a row is used to decide and never written back.

**Holdings.**  Neither `TypeOK` nor `BookedWithinSold` is inductive.  The invariant is

    HoldingsInv == PosInv /\ SellInv /\ EvalOK(ex) /\ RestTyped /\ BookedInv

* `PosInv`: each row is typed and *consistent*: it has shares exactly while it is OPEN or
  PARTIAL_CLOSED.  No sell takes more than its row has, because every write looks at the locked row again.
* `SellInv`: an order has sold at most what it asked for and its row has seen at most
  that; what the live orders are still to sell is in the account, so a fill
  never takes `held` below zero.
* `EvalOK`: which order an evaluation has in hand at which step, and that only a limit order is cancelled.
* `BookedInv`: what is booked, and what the evaluation has counted, was sold by orders other than the
  one being judged.  An order is judged once, on a row that is behind the broker at worst; a
  late fill can only widen the gap.

The drain is a fold over the rows in order.  `DrainedBound` says that a row gives what it has at
most, `DrainedTotal` that the rows of a path give what is asked for or all they have,
`SplitExact` that the shares of the two paths add up again after rounding.  `DrainsExactly` and
`UserPaysFirst` follow from these for each of the ways in which a run of the reconciler can end (`RunEnds`).
For `LedgerImplementsContract`, `Lives` says of one row what `PositionContract` allows; each write is shown
to be such a step for every row it touches, the recovery's sale over several rows included.

**Engine.**  `EngineTypes` has a frame lemma per group of variables and a step lemma, so that
the other modules only look at the actions that touch their variables.  `PauseInv` adds that
a web pause has the reason "user" and was taken once attach had ended.  `PartsInv` adds to "no running
part misses what it calls" that detach has gone through every stage before the present
one, and takes users down before what they use.  `WorkerInv` relates the row the worker has in hand to its
step; `BudgetInv` counts what was shown, plus what is being sent, against the upsets so far.
`BarsInv` says that the bar in progress holds exactly the ticks heard in its bucket and is younger than
every bar finished, and that nothing was heard in a later bucket;
`DailyInv` that a bar dispatched is a date noted, that a date noted after the attach was dispatched, and that
the history being fetched is not younger than the attach.

**System.**  `SystemIsEngine`: every step of `System` is an Engine step or leaves the engine's
variables alone, so the engine's theorems hold of the whole.  The bucket never owes
more than its capacity less what was refilled; one coroutine is behind the token's
lock; the capital's flag is set exactly while a refresh is under way, which also
needs that an unbuilt buy side leaves the cache unknown; the bot knows at each of its steps
which update is run and which confirmed; a due digest has a period not yet notified.
`SystemTypeCorrect` puts these together with `EngineTypeCorrect`, the count of moves, and that only
updates which were sent are run.

**Only model-checked:** the liveness properties (`LoopReturns`, `TransactionsEnd`, `OverstatedHeals`,
`AlertsDelivered`, `StreamComesBack`, `MissedHaltsFound`, `PauseEnds`): fairness and ENABLED are outside this prover's
reach.  The properties of the runs that expect a violation are false.

## 5. Not modelled

* Entry conditions, gap rules and prices of orders: pure functions of candles; their
  outcome is a free choice in `BuyPath`.
* `report/`: collects and formats on demand, keeps no state.
* The React front end: no trading state.
* Trailing stop, daily reset of the VI monitor, price gaps, scenario C, `refresh()` and
  `revoke()` of the token manager, `kiwoom_api_skill`, `notify_kiwoom_error`, `transition_tracked_stock`: nothing in the
  engine reaches them.
* `TelegramBot`'s own breaker, backup queue and delayed copies; keep-alives and frame
  parsing of the websocket; bodies and pagination of REST answers; audit records.
* The three families are not composed with each other: they share tables, not program
  state.  Where one depends on another, the other is a free environment there (bars and
  ticks in `BuyPath` and `ExitPath`, positions in `BoxTable`).

Next steps worth taking: the bot's outgoing side; the ledger's total against the account, while
nobody trades past the system; a bound on the steps that each liveness property needs.
