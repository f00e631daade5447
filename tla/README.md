# TradeAlpha: TLA+ models, checks and proofs

TradeAlpha is a paper-trading platform: an Express API over PostgreSQL, background
processes that talk to it over Redis (BullMQ queues, pub/sub, leases), and a web
terminal. This directory holds models of its parts, the TLC runs that check them on
small instances, and theorems about them that TLAPS proves for all instances.
`PROJECT.json` is the index: components, runs, mutants, the source lines of every
definition, hazards, findings and theorems. Paths below are relative to
`apps/api/src` unless they begin with `web`, which is `apps/web/src`.

    tlc -workers 2 -config MCOrders_limit.cfg MCOrders
    tlc -workers 2 -config MCPlatform_platform.cfg MCPlatform
    tlapm OrdersProofs.tla

## 1. Inventory

An order goes this way. A client's `POST /orders` calls **placeOrder**, which
reserves cash, margin or units and writes the order and an outbox row in one
transaction. The **outbox worker** moves the row to a queue; the **dispatcher**
takes it, makes the order PENDING and publishes a route over Redis pub/sub. The
**trading engine** that holds the lease of the symbol reads the row, keeps it in its
book, and on a tick queues an EXECUTE_FILL job; the **execution worker** calls
**processFill**, which moves cash, units and ledger entries and writes the next
outbox row. Cancellations come from the client, expiries from the **end-of-day
sweep**, liquidations from the **liquidation worker**.

| Component | State | Operations | Talks to | What is hard | Makes it correct |
|---|---|---|---|---|---|
| Order service (`services/order.service.ts`) | tables orders, portfolios, positions, order_fills, ledger, outbox_events | placeOrder, markOrderPending, activateStopLimit, processFill, cancelOrder, expireOrder | everything below, by calls | retries of a call racing it; late and repeated jobs; cancel/expire/fill of one order overlapping | reservations equal what live orders still need; every unit executed once; ended orders stay; one order per key; books balance |
| Positions, Ledger (`services/position.service.ts`, `services/ledger.service.ts`) | rows inside the same transactions | checkPosition, lockPosition, adjustOnBuy, adjustOnSell, postTradeTransaction, reconcile* | order service | shorts, crossing zero, averages | cash and quantities move only with a posting; profits add up |
| Outbox worker (`workers/outbox.worker.ts`) | outbox_events.status, attempts, next_retry_at | claim a batch with SKIP LOCKED, queue.add, acknowledge, count a failure | PostgreSQL, BullMQ | crashes between steps, lost answers, a loop that outlives its lease | nothing acknowledged that is not queued; everything queued eventually |
| Dispatcher (`workers/domain-event-dispatcher.worker.ts`) | none of its own | route ORDER_ACCEPTED and fills, fan out to sockets and webhooks, queue risk evaluations | order service, pub/sub, queues | dies between its steps; pub/sub loses messages | every accepted order reaches an engine |
| Trading engine (`engine/trading-engine.ts`, `engine/liquidity.config.ts`) | the book in memory, the lease in Redis | start, heartbeat, hydrate, reconcile, routes, ticks, activation, dispatch | Redis, order service, execution queue | every await: late answers, old rows, lost leases, two engines | no unit dispatched twice; limits respected; no order stuck; ended orders leave |
| Execution worker (`workers/execution.worker.ts`) | the execution queue | one job | order service | retries of applied jobs, jobs of a closed session | each job applied at most once |
| Liquidation (`workers/liquidation.worker.ts`, `services/liquidation-trigger.service.ts`) | liquidation orders, the queue and its job ids | tick and fill triggers, evaluatePortfolio | valuation, orders, price cache | evaluations of one portfolio overlap, prices move while one runs, ticks and jobs are lost or dropped | one live liquidation per portfolio; a portfolio below its maintenance margin gets one in the end |
| Valuation (`services/portfolio-valuation.service.ts`) | none | getValuation | price cache | a missing price | cash, realized and unrealized profit add up |
| End-of-day sweep (`services/eod-sweep.service.ts`) with the market session (`services/market-session.service.ts`) | a lease per day, snapshots, the clock | tick, executeSweep, snapshotPortfolios | order service, valuation | fires in one second of the day; crashes in the middle; orders placed and portfolios created while it runs | no order survives the night without a cause; every portfolio of the day has its snapshot |
| Feed (`main.feed.ts`, `services/market-simulator.service.ts`) | the lease feed:global, simulations | start, heartbeat, stop, ticks | Redis, publisher | heartbeats that overtake each other, late answers, broken connections, restarts | one feed at a time; an open market has fresh prices |
| Price cache, publisher (`services/price-cache.service.ts`, `services/market-data-publisher.ts`) | last prices in Redis | publish, read | engine, liquidation, sockets | stale and missing prices | readers see fresh prices or none |
| Candles (`workers/ohlcv-aggregator.worker.ts`, `services/market-candle.service.ts`) | market_candles, market_tick_receipts | handleMessage, getCandles | Redis, tables | ticks late, twice, in any order, at two aggregators; limits and short buckets | a candle tells its ticks; a bucket is made of all its rows |
| Chart (`web/components/terminal/chart.tsx`) | a map of candles | fetch, merge, select, reconnect | API, sockets | answers and candles overlap, get lost and come late | a candle is shown as the server has it once nothing of it is on its way or lost |
| WebSocket gateway (`websocket.ts`) | rooms and subscriptions of a socket, a counter per address | connect, join and leave markets, join a portfolio | Redis, PostgreSQL | handlers of one socket overlap at their awaits; disconnections and crashes between two commands | subscriptions are rooms; limits hold up to a burst; no address is shut out for good |
| Webhooks (`workers/webhook.worker.ts`, `controllers/webhooks.controller.ts`) | subscriptions, jobs | create, delete, fan out, post | dispatcher, BullMQ | errors and stalls between two hooks, repeated events | every event reaches every hook; no hook is posted too often |
| Accounts (`controllers/auth.controller.ts`, `controllers/api-keys.controller.ts`, `services/api-keys.service.ts`) | users, portfolios, API keys, cookies | register, login, logout, session, keys, order requests | PostgreSQL | registrations overlap and are aborted | one user per e-mail, one portfolio per user |
| Listings (`controllers/order.controller.ts`, `controllers/portfolio.controller.ts`) | none | pages of orders, fills, ledger, history | PostgreSQL | rows are added and leave between two pages; ties | a row that is missed has a cause |
| Screens (`web/components`, `web/lib`) | a socket, the panel of the open orders, of the metrics or of the positions, with its requests | mount, navigate, hear, fetch, cancel | API, gateway | events before the join, after a break, not listened to; answers out of order | a stale panel has a cause |
| Entry points, HTTP middlewares, forms and layout, deployment, load tests | - | - | - | - | not modelled, see 5 |

`PROJECT.json` lists under "hazards" each place where one of these is exposed, with
the properties that cover it or the reason why none does.

## 2. Modules

| Module | Models | Composition |
|---|---|---|
| `OrderLifecycle` | the contract: what may happen to an order, with money, queues and engines left out | abstract specification of `Orders` and of the rows of `Engine` |
| `Orders` | the order service with every row it writes | implements `OrderLifecycle` (`LifecycleSpec`) |
| `Outbox` | the outbox worker: several loops, leases, faults | - |
| `Engine` | dispatcher routing, engine, execution queue and worker for one symbol | the statuses and `filled` of `Orders`, without money |
| `TradingDay` | clock, session, orders around the close, sweep, snapshots | stages of `Orders`, without money |
| `Valuation` | a portfolio's worth and margin status as functions | used by `Liquidation` |
| `Liquidation` | triggers, queue, evaluations, liquidation orders; cash and profit of a position | extends `Valuation` |
| `Feed` | feed lease, simulations, freshness of the price cache | - |
| `Candles`, `MarketCandles`, `Chart` | the three places a candle passes: aggregation, query, screen | each takes what the one before may produce |
| `Gateway`, `Screens` | the server's and the browser's side of a socket | - |
| `Webhooks` | dispatcher's fan-out, webhook queue and worker | - |
| `Accounts`, `Listings` | registration, sessions, keys; pages of lists | - |
| `MCOrders`, `MCOutbox`, `MCEngine` | the instances of the runs | extend one module |
| `MCPlatform` | the instance of the eleven modules from `TradingDay` on | extends them, one of them moves |
| `Sums` | the sum of a function over its domain | used by `Orders`, `Valuation`, `Candles`, `Chart` |
| `SumsProofs` | lemmas about sums, least and greatest elements and ranks of finite sets | used by the proofs below |
| `OrdersProofs`, `OutboxProofs`, `EngineProofs` | theorems about one module each | extend it and TLAPS |
| `BackOfficeProofs` | theorems about `Liquidation` and `TradingDay` | |
| `MarketDataProofs` | theorems about `Feed`, `Candles`, `MarketCandles`, `Chart` | |
| `ClientsProofs` | theorems about `Gateway`, `Accounts`, `Webhooks`, `Screens`, `Listings` | |
| `PlatformProofs` | `PlatformSpec` is each component with the others at rest | extends `MCPlatform` and the three above |

Definitions named "Mutant: ..." are plausible bugs of the definition below them. No
specification uses them; for each property of each passing run, `PROJECT.json` names
one that, put in the place of the definition, makes TLC report that property as
violated. They show that the runs can fail.

### Orders

One variable per table: `orders` (by the unique pair of user and idempotency key),
`portfolios`, `positions`, `fills`, `ledger` (the balance of each account instead of
its entries), `outbox`; besides them `isOpen`, what `MarketSessionService.isOpen()`
says, and `phase`, how far each call of placeOrder is. Every operation but placeOrder
is one transaction that takes its row locks first, so it is one action:
`MarkOrderPending`, `ActivateStopLimit`, `ProcessFill`, `CancelOrder`, `ExpireOrder`.
placeOrder checks the session and looks up the key before its transaction:
`BeginPlaceOrder` is the first half; `PlaceOrder`, `PlaceOrderFindsDuplicate` (the
P2002 handler) and `PlaceOrderFails` are the outcomes of the second, and other calls
run in between. A call for a portfolio that is not its caller's, without a price or
with a quantity that is not positive never gets past `Valid`; a price that is negative does
(`services/order.service.ts:56-62` asks only whether it is there), and then the reservation
is negative, too.

Execution jobs are not messages here: `ProcessFill(k, seen, price)` is a job built
from a snapshot `seen` of the filled quantity that some engine may have had (0, or
the key of an earlier fill), at a price within the limit of a limit order. It may come
at any time, twice or not at all, which is more than the engine really does.

Money is in integers: a price stands for a multiple of a unit for which the factors
1.05, 0.95 and 0.50 are exact. Average entry price and realised profit are in `Liquidation`;
timestamps, trace metadata and correlation ids are left out: no control flow of the service
depends on them.

### Outbox

`rows` are the columns the worker uses; `nextRetryAt` is "null", "due" or "later",
and `TimePasses` turns later into due, which stands both for the backoff of a failure
and for the lease of a claim. A loop holds the rows it claimed in `held` and what it
does with one of them in `doing`. Every call to the queue or the database may fail
with or without effect; `Crash` may come between any two steps. `MaxFaults` bounds
all of these. `failures` is history: how many calls about each event failed, crashes not
counted. The rows are written in order of `created_at` by the transactions of
`Orders` (`Write`).

### Engine

For one symbol: `rows` and `isOpen` are the database; `events` what the outbox still
delivers, `routing` the orders the dispatcher has made PENDING and not yet routed,
`wire` the route messages to each engine; `book` an engine's memory; `reads`, `scans`
and `activations` the answers it awaits, with the row as it was when it was read;
`process`, `owned` and `lease` what an engine is, what it believes and what Redis
knows; `jobs` the execution queue, which keeps jobs that are done, as BullMQ does
without removeOnComplete. What an engine does between two awaits is one action.
`Activation.ofEntry` and `ofRow` keep what JavaScript object identity does: the code
that goes on after `activateStopLimit` writes to the entry and to the row object it
had before, which may have been replaced in the book meanwhile.

Adding a job is one step with the decision to dispatch, since nothing reads the entry
in between, but it may fail with or without effect. A tick is any price of `Prices` at any time;
the cached price after a scan is one of them. `Faults` names the kinds of faults of an
instance and `MaxFaults` how many happen together. The sweep and the client are
`EndOrder`; money and events without a route are in `Orders` only.

### TradingDay

The clock shows four times of day; `CloseAt` is the one second in which `tick` starts a
sweep. An order is `checked` after `assertOpen` and before its insert, and `marking`
between the lock of markOrderPending and its update, so every look at the session may
be outdated. A sweep is a record: what it `read`, the orders it still has to expire, the
page of portfolios. `night` is history: which orders came too late for the sweep or
failed, and which portfolios were there when the pages began.

### Valuation, Liquidation

Prices, cash and margins are integers; the fractions of the margin requirements are
multiplied out. An evaluation holds the row lock from its valuation to its commit
(`choose`, `place`); `Readings` lets every read of a price fail. `stuck` keeps ids of failed
jobs, which BullMQ does not take again in that second. `Trade` is a fill of the user of any
size either way: it opens a position, adds to it (`NewAverage`: the average entry price, rounded
as its column does), reduces or closes it, or turns it over (only the part that closes is realized,
and what is left has the price of the fill); `RealizedPnl` is what the position service adds.
Nothing ties a fill to what is held: its order was checked when it was placed. Quantities are
whole and an amount is a whole number of the smallest units its column holds, so the average
is the only amount that is rounded. `averaged` is history: the units whose entry price was made an
average.

### Feed

Commands of a process and their answers are a queue (`flight`): Redis executes the oldest
that is `sent`, the process takes the oldest answer, and between the two anything may
happen, as one connection of ioredis does it. `Resend` is the retry of commands after a
broken connection, whose first execution may have had an effect; `Gone` lets commands of
a process that ended take effect or not. The symbols are started and stopped together
and modelled as one; the random walk of a price is any tick.

### Candles, MarketCandles, Chart

A handler of a tick is two statements (`CloseOlder`, `AddTick`), each atomic in the
database. `GetCandles` reads the last `limit * BucketSize` rows, puts them in buckets and
cuts the answer. In `Chart` a candle is known by its volume, which grows with each tick.
The aggregator commits a row (`AddVolume`) and publishes it later (`PublishCandle`); a crash or an
error in between, or a gateway that is not subscribed, loses it (`LoseCandle`), and that older rows
were closed (`CloseMinutes`) is told to nobody. `gap` and `late` are history: the minutes of
which a candle was missed (lost, not connected, another timeframe) and that no answer or later
candle has made up for, and those that got a tick after they were closed.

### Gateway

`waiting` are the handlers of a socket that await `socket.join` or `socket.leave`, in their
order; `lookups` the portfolio queries under way. The rooms change when the handler
starts, the subscriptions when it goes on.

### Webhooks, Accounts, Listings, Screens

`Webhooks` follows one event from the dispatcher to the posts, with the attempts and
stalls of both queues and the ids by which repeated jobs are dropped. In `Accounts` a
registration is three steps (password hash, user, portfolio) that others interleave.
`Listings` walks over pages with skip and take while rows are added and leave; rows the
ordering leaves tied come in any order, another one each time; every posting to the ledger
makes two rows of one time. `Webhooks` has the history `owed`: the pairs that were dispatched
for a hook that wants the event and was not deleted since.

`Screens` is one of three panels. A change of the database leaves the events of its
transaction (of the order and, for a fill, of the position), and `Listens` is what the panel has
handlers for: the open orders every event of an order but its activation
(`web/components/dashboard/open-orders.tsx:39-44`), the metrics and the positions only
`POSITION_UPDATED` and `ORDER_FILLED` of those that are sent (`portfolio-metrics.tsx:40-42`,
`positions-table.tsx:41-43`). `Mounted` says on which pages it is. History: `deaf` (an event it
listens to passed while it was outside the room), `best` (a newer answer was there) and `silent` (the
changes of the kinds it is told nothing of, `Untold`, which is written down apart from `Listens`).

## 3. Runs

| Run | Instance | Shows |
|---|---|---|
| `orders_limit` | one cash portfolio with 90; a BUY of 4 at 20, a BUY of 2 at 10 and, under its key, one at -10, two SELLs of 2; depth 2; fills at 10 or 20 | the two BUYs compete for the cash, the SELLs for the units; two levels per order; retries and cancellations everywhere: all reservations, the fills and the lifecycle hold, and available cash stays covered as long as no negative limit was taken |
| `orders_mixed` | a cash and a margin portfolio of two users; STOP_LIMIT short, LIMIT BUY through zero, MARKET BUY, two calls that must be refused | reservations, both sides of the ledger and events with margin, shorts and activation |
| `orders_margin_released` | margin portfolio | *violation*: margin is never released |
| `orders_no_crash` | margin portfolio | *violation*: placeOrder throws a TypeError once a position is open |
| `orders_cash_covered` | MARKET orders | *violation*: cash overdrawn by a fill above the reservation |
| `orders_duplicates` | a BUY and its retry | *violation*: the retry is refused for want of the funds it reserved itself |
| `outbox_faults` | two loops, two events, batch of 2, two faults | no event lost, the retries of an event used up only by failures of calls about it, not by crashes; every event queued and acknowledged for good in the end |
| `outbox_permanent` | one loop | *violation*: a permanently failed row is claimed again |
| `engine_engines` | two engines, a STOP order of two levels, one lease that runs out early | no unit dispatched twice and no level before its predecessor is in the table, even while both engines dispatch |
| `engine_recovery` | one engine, a STOP_LIMIT order of one level, any two faults of nine kinds | the limit is kept including spread; the order ends; it leaves the book for good |
| `engine_lost_route` | one engine, a MARKET order of two levels, one lost route | *violation*: the order is stuck half filled |
| `platform` | the eleven modules from `TradingDay` to `Screens`, see below | thirteen invariants and three liveness properties, one or two per component; about 490,000 states in two to three minutes |

A violation run checks one statement of a document, comment or test of the
repository; "findings" quotes it and says where the code departs from it.

**The platform run** checks components that do not share variables: each one is closed, what
it needs of another is an action of its own (a tick, a fill, a session that turns). `part`
is chosen at the beginning and only the actions of that part are enabled, so the states are
the sum of the parts and not their product. The properties:

| Property | Says |
|---|---|
| `PlatformTypeOK` | types of all parts; with it that a webhook subscribes only to types that exist, which `Granted` must ensure |
| `SweepComplete` | in the night after a sweep a live order came too late for it or its expiry failed; after the last page every portfolio that did not fail has its snapshot |
| `OneLiveLiquidation` | overlapping evaluations never leave two live liquidations of a portfolio |
| `ProfitsAddUp` | equity is capital, realized and unrealized profit, off by no more than what rounding did to average entry prices; the page of positions shows half a spread per unit more |
| `UnderwaterIsLiquidated` | a portfolio that stays below its maintenance margin has a live liquidation in the end, though ticks and jobs are lost |
| `TwoFeedsMeanALapse` | a feed that simulates holds the lease, or its lease ran out or its connection broke |
| `OpenMarketHasPrices` | once processes stop coming and going an open market has fresh prices again and again |
| `CandleTellsItsTicks` | a candle is the fold of the ticks with a receipt, in whatever order they were handled |
| `BucketsAreWhole` | an answer has the most recent buckets, each of all its rows |
| `ChartCatchesUp` | a minute of which nothing is under way, lost and not made up for, or late is shown with the volume the server has |
| `GatewayKeepsItsBooks` | subscriptions are rooms once no handler waits; a burst passes the limit by less than its length; the counter of an address expires |
| `PostsAreBounded`, `EventReachesEveryHook` | a hook is posted an event at most as often as its job may run; one that wanted the event when it was published or dispatched gets it in the end, unless it was deleted or a job used up its attempts |
| `PortfolioUnlessInterrupted` | a user has one portfolio unless its registration was aborted between two inserts |
| `MissesHaveACause` | a walk over the pages misses a row only for the causes it names |
| `StaleScreenHasACause` | a panel at rest shows the present data, an error, or has one of the causes named: an older answer came last, an event passed outside the room, or every change since is of a kind it is told nothing of |

**Bounds.** Two levels of depth are the least with partial fills, a key that
depends on a snapshot and slippage; two loops or engines the least that can disagree
about a lease; two faults let a recovery be hit by a second fault. `Attempts` is 3
where the code has 10: more than the faults of a run, as in the code. Orders compete
because 90 is less than 80 + 20. In
`platform`: two days of three moments with both closes, so that an order a crash of the first
sweep left behind meets the second one, and two workers; one long
and one short position, so that a fall of one price ruins the portfolio, and two workers;
two feeds with one command each and one lapse; two aggregators and three ticks of two
minutes; two days of three minutes with buckets of one, two and three; two fetches of a
chart and one switch, lost candle or failure; two sockets, one of which sends bursts of two; two hooks of one event;
three clients that register one e-mail; three rows in pages of one; two requests of a panel.
One fill of -2 turns the long position over or adds to the short one, whose average is then
rounded (a mutant that realizes the whole fill is caught); sequences of fills, other sizes and
the other direction are left to `ProfitsAreAccountedFor`, which has no bound. A limit of one command per
feed still lets answers be late, but no heartbeat overtakes another: that rests on the theorem
about the feed, which holds for any number. With one switch a chart is never switched back before a late
answer; `ChartsCatchUp` has no such bound. A webhook job has one attempt and one stall, its repetition
after an error is in `PostsStayBounded` only, and with a connection limit of one no second connection of an
address is admitted (`link` is never "later"), which is in `GatewayBooksKept` only. `engine_recovery` has one level and no slippage;
`PricesStayWithinLimit` covers the rest. All state spaces are explored completely; symmetry
is used only for the two engines of a run without liveness properties.

**Deadlock.** It is checked in the runs of `Orders`, where the session goes on opening
and closing, and in `engine_engines` and `engine_lost_route`. It is not in the runs of
`Outbox`, whose loops have nothing to do once all rows are published, nor in
`engine_recovery`, where an engine that has lost its lease does nothing more until its
process is restarted. In `platform` counters and the clock are bounded, and a part is done when
they are used up.

**Fairness.** Only where the code has a loop, a timer or a queue behind it.
`Outbox`: time passes and a running process polls (`setTimeout` in `start`). `Engine`:
queues deliver and retry (BullMQ), awaited calls return, the reconciliation and
heartbeat timers fire, leases expire, the supervisor restarts a process, and every
price is quoted again and again (the feed is a simulator; without that a limit order need
not end). `Liquidation`: ticks
of every symbol come again and again (the feed emits them by a timer), seconds pass, and the
workers take and run jobs. `Feed`: heartbeats fire (`setInterval`), Redis executes and answers,
the simulator ticks, and a lease that its holder does not renew expires; a renewal of a living
holder that comes late is a fault and not fair. `Webhooks`: both queues run their jobs, and
again after an error while they have attempts. No fault is fair, and no client or sweep is. `EveryOrderEnds` has premises,
named in `Healthy`: the session stays open, no job is lost between the engine and
the queue and no engine loses its lease. From those the code does not recover by
itself; they are in the hazards. `OpenMarketHasPrices` excludes a process that was started while
the market was closed: it keeps the lease and never simulates (`IdleOnLease`).

## 4. Proofs

Assumptions are those the modules state about their constants, and TLC evaluates them in the
runs: sorts of the inputs, one portfolio per user, a positive depth, names of markets and
portfolios that differ, values for "no entry" that are no entry, buckets that are not longer than a
day, an opening before the close. Sums need finite sets: of users and keys (`FinitenessAssumption`),
of symbols (`ValuationAssumption`), of row ids (`ListingsAssumption`); a symbol has a greatest
reference price (`LiquidationAssumption`), so that its prices have a bound. Nothing else bounds the
numbers of users, orders, calls, loops, faults, feeds, sockets, workers, ticks, rows or requests.

Each component beside the life of an order has a specification of its own (`DaySpec`, `LiqSpec`,
`FeedSpec`, ...), and its theorems are about that one. `PlatformProofs` shows that `PlatformSpec`
implies each of them: one component moves and the others stutter. So
`PlatformTypeCorrect` and `PlatformIsSafe` say of the very specification the run
checks that all its invariants hold for all values of the constants.

* **Sums** (`SumsProofs`). The induction behind a sum is out of the provers' reach as the library
  states it (over an operator), so `SumsProofs` does without: the strict subsets of a finite set are
  well founded, a set of subsets on which a claim fails would have a minimal one, and that one
  contradicts the equation of the recursive function. The same argument gives finite sets of
  integers a least and a greatest element and ranks without gaps.
* **Type correctness** (`OrdersProofs!TypeCorrect`). `TypeOK` is not inductive: that
  `ProcessFill` leaves a natural number unfilled needs that rows that exist ask for more
  than 0 and are filled at most that far (`RowsSound`), and that a call past its
  checks is valid (`CheckedCallsAreValid`). `TypeInv` is the conjunction.
* **Ledger** (`LedgerCorrect`): `DriftNeverMoves` is inductive over `TypeInv`,
  because cash and units move only in `ProcessFill` and with the posting of the same
  amounts; that users own one portfolio keeps the accounts apart.
* **Ended orders** (`EndedOrdersAreFinal`), an action property from `TypeInv`.
* **Idempotency** (`PlacementIsIdempotent`): the strengthening `PlacementInv` says that
  an order exists exactly if one of the calls with its key has placed it.
* **Executions** (`OrdersProofs!ExecutionIsExactlyOnce`): `ExecutedOnce` does
  not say why a job built from an old snapshot is refused. `ExecutionInv` adds
  `SnapshotsUsed`: the depth does not change, so two jobs of one snapshot have one key,
  and every snapshot but the present one has had its key taken; a fill that goes
  through is one of the order as it is now.
* **Events** (`OrdersProofs!OutboxIsTheStory`): `OutboxTellsTheStory` is about what
  ended and what was filled. `OutboxInv` adds that every order on or past its way to the engine
  has told that it is PENDING; that a fill is told once follows from `FillIsCurrent`, its key is new.
* **Reservations** (`LockedCashIsReserved`, `LockedQuantityIsReserved`): what is locked is the sum of
  what the live orders still need. Each operation changes one row, so it changes one summand, and
  by what it adds to or takes from the lock (`Reservations`).
* **Both sides of the ledger** (`LedgerBalances`): a posting adds to one user's account what it takes
  from the platform's, in cash and in units, so the platform stays the mirror of the sums.
* **Refinement** (`OrdersImplementLifecycle`): each action of `Orders` is a step of
  `OrderLifecycle` or changes nothing there, under the mapping in `Orders`.
  `EngineKeepsTheContract` is the same for the table of `Engine`, whose orders are accepted at
  the start: every change that the dispatcher, the engines and the worker make is one the contract allows
  (`RowsKeepTheContract`, which TLC confirmed on the instances of `engine_engines` and
  `engine_recovery` before it was proved; the runs do not repeat it). So two views of
  the table, the service's with money and the engine's with processes, keep one contract.
* **Funds** (`OrdersProofs`): `CashPositionsAreCovered`, that portfolios without
  margin never promise more units than they have, is inductive.
  `ReservationsKeepCashCovered` is the same for cash, as long as the BUY orders such a
  portfolio has placed name a limit that is not negative (`BuysNameALimit`, a condition on the rows,
  not on the calls): a fill within the limit
  costs at most what it releases (`BuysReserveTheirLimit`). The run `orders_cash_covered` shows why a
  limit is needed, section 6 why it must not be negative.
* **Engine** (`EngineProofs!UnitsAreDispatchedOnce`, `DispatchIsNeverAhead`,
  `PricesStayWithinLimit`, `LostLeaseEmptiesEveryBook`, `EngineTypeCorrect`): any number of
  engines that believe they own the symbol, with any reads, scans and activations under way.
  The argument is the level: orders are filled one depth after the other, so every quantity
  that ever was in a row is a multiple of the depth or all of it (`AtLevel`). `EngineInv` says
  that what engines read, scanned or keep is a level at or below the table's
  (`AnswersBehind`, `EntriesBehind`), that the quantity and the key of a job follow from the
  level it starts at and keys are unique (`JobsSound`), and that every level below the table's has
  an applied job (`LevelsApplied`). So two jobs never overlap, and a job that
  is applied starts exactly at the filled quantity, which keeps rows at levels.
  `ObjectsKept` says which pending activations still refer to an entry of the book; without it
  a late answer could write to an order of an empty book.
* **Outbox** (`OutboxProofs`): `NothingIsAcknowledgedUnqueued` from `AckFollowsAdd` (a loop
  is about to acknowledge a row only when its job is in the queue);
  `OnlyFailuresCount` from `RemembersFailures` (what a loop remembers of an event counts only
  failed calls about that event).
* **Liquidation** (`BackOfficeProofs!NeverTwoLiquidations`): `OneLiveLiquidation` does not
  say why the check and the insert, which are two steps, are safe. `LiqInv` adds
  `Exclusive`, two evaluations past their valuation are of different portfolios (the row
  lock), and `HasSeenNone`, such an evaluation is of a portfolio without a live liquidation.
* **Profits** (`ProfitsAreAccountedFor`): what the positions cost, with the cash, is the capital and
  what was realized (`BooksBalance`), to half a unit for each unit that was averaged: a fill changes
  one summand, in one of the five ways `Trade` names, and the remainder of one division bounds what
  rounding does; valuing at other prices moves only the unrealized part.
* **The close of the day** (`SweepsAreComplete`). The invariant has two halves. `NightParts` is about
  orders: only the holder of the lease of a day begins a sweep, in the second of the close, so the
  sweeps of one night are one (`OneSweepADay`, `LeaseIsHeld`); while it expires orders, every live
  one is on its list, came too late for it or failed (`ExpiryKnows`). `PageParts` is
  about portfolios: one that is due has its snapshot, is on the page being worked on, or has a
  rank no page has reached, and accounts that are opened only move it back.
* **Feed** (`MarketDataProofs!TwoFeedsOnlyAfterALapse`): the strengthening `FeedInv` says of every
  process without a lapse what it may rely on: what it owns it holds (`HoldsWhatItUses`), an
  `acquire` that was granted and is not yet known to the process is the only one and follows
  every release (`GrantsAreNews`), a release is sent once, after the simulations
  have stopped (`ReleasesAreLast`), and commands are executed in their order (`InOrder`).
  It was found by checking candidates with TLC with up to three commands under way.
* **Candles** (`CandlesTellTheirTicks`): a row is described by what it says of each tick that has a
  receipt, and of the sum of their volumes (`TellsOf`); a tick adds one summand and may be the new
  first, last, highest or lowest one, in any order of arrival.
* **Queries of candles** (`RepliesHaveWholeBuckets`): a row of one of the last n buckets is known by
  its bucket and its place in it, so n buckets of b minutes have at most n * b rows and the
  `limit * bucket size` rows that are read are enough, also with gaps and a last bucket cut by the
  end of the day.
* **Chart** (`ChartsCatchUp`): every candle that waits to be published, is on its way, in an answer or
  on the screen is an older version of its row (`Versions`), and a row of which nothing waits or
  is on its way is shown, unless its minute is in the gap or was late, and is shown or in the answer of
  every query that covers its gap (`Coverage`, `CatchesUp`). The proof corrected the model: the history variable let a late answer
  for the timeframe shown before close the gap of the present one, which takes more switches
  than the run has. `Select` now takes the cover from the queries under way, as `Disconnect` does.
* **Gateway** (`ClientsProofs!GatewayBooksKept`): between two awaits rooms and subscriptions
  differ. `RoomsAreExplained` says how: the last waiting handler about a market decides whether the
  socket is in its room, and where none waits the subscriptions do. `Counts` bounds the
  subscriptions together with the joins that wait.
* **Accounts** (`EveryUserHasOnePortfolio`): of one e-mail at most one request is
  between its two inserts, and only while there is no portfolio.
* **Webhooks** (`PostsStayBounded`): every post but the last belongs to a run that ended in an error
  or a stall, and both are counted in the job (`BoundedJob`).
* **Listings** (`MissesAreExplained`): a row that no other ties with has one place in every ordering
  the database may return (`RowAtItsPlace`). `Walks` says that a row that was not shown has a place
  behind the pages shown, that rows added later only move it back, and that a page that
  does not reach the count is not the last. The rows of the history all come at its end, so those
  that are before a row were there when the walk began.
* **Screens** (`StaleScreensAreExplained`): each change that is not silent is still to be announced, or
  is known to the best answer seen, a request or its answer (`Informed`), unless an event passed
  outside the room. That a panel hears of every change but those of `Untold` is a lemma about
  `Listens` and `Transactions` (`OnlyUntoldIsUnheard`).

**Only model-checked.** Liveness and ENABLED are out of the prover's reach: `EventuallyQueued`,
`EventuallyAcknowledged`, `EveryOrderEnds`, `GhostsLeave`, `UnderwaterIsLiquidated`,
`OpenMarketHasPrices` and `EventReachesEveryHook` stay with TLC, under the fairness above. Every
invariant and action property of a passing run is proved.

## 5. Not modelled, and why

* Process entry points, telemetry, deployment, load tests and the scripts in `scratch`:
  wiring and tooling without state that a part of the program reads.
* HTTP middlewares: rate limits and CSRF tokens are kept by libraries, the nonce of a signed
  request is one atomic command. Validation of request bodies and the shapes of answers.
* The bridge of `websocket.ts` (lines 53-85): it forwards messages from Redis to sockets and keeps
  no state; what it misses is a lost candle of `Chart`. Every API process emits to the sockets of all processes, so with several of them a
  client gets a message several times; the merge of the chart does not mind.
* The random walk of `MarketSimulatorService`, the payloads of `MarketDataPublisher`, signatures
  of webhooks, weekends and holidays, `getSessionOriginState`.
* Decimal rounding, but for the average entry price: amounts are exact integers. lockedCash grows by the unrounded
  product (`services/order.service.ts:139`) while the price it is released by has four
  decimals; a level of margin is rounded before it is compared.
* Forms, toasts, landing pages and layout of the web front end.
* The flag of a closed position. The margin check of placeOrder is in `Orders`, not in front of
  `Trade`.
* Graceful shutdown of an engine: it is a crash whose lease expires at once.

## 6. What the models show besides the findings

Behaviours that no document, comment or test contradicts, so that no run refutes a claim;
a reader of the code may still want to know them.

* A negative limit, stop or market price passes the checks of placeOrder (`services/order.service.ts:56-62`;
  `controllers/order.controller.ts` validates nothing before): such a BUY lowers `lockedCash`
  (`:80`, `:139`), and cash that is reserved for another order may be spent.
* `reconcilePortfolioCash` (`services/ledger.service.ts:73`), which nothing calls, would report the
  opening balance of every portfolio as drift: registration posts no deposit. `DriftNeverMoves` says
  that it never becomes more or less than that.
* A liquidation order stays in RECEIVED: no event of it is routed (`workers/liquidation.worker.ts:168`).
  While it is there no other is placed, also when the portfolio has become flat.
* A feed started while the market is closed takes the lease and idles (`main.feed.ts:125`).
* Several packets of one socket pass the limit on subscriptions together (`websocket.ts:183`). The
  counter of an address stays without expiry when the process ends between two commands (`:94`).
* A webhook that asks only for types that cannot be selected is subscribed to all
  (`controllers/webhooks.controller.ts:19`).
* Ledger rows and fills that share a time may be shown twice or passed over
  (`controllers/portfolio.controller.ts:181`, `:214`); the history keeps its oldest
  snapshots (`:145`); a walk over orders may end early, its rows and its count being two
  queries (`controllers/order.controller.ts:89`).
* The page of positions values at the price between bid and ask
  (`controllers/portfolio.controller.ts:84`), the valuation at the price of the side that closes.
* The chart merges an answer for the timeframe shown before (`web/components/terminal/chart.tsx:111`).
* The aggregator tells nobody that it closed a candle, and publishes a row after its commit
  (`workers/ohlcv-aggregator.worker.ts:63`, `:122`): two aggregators may publish versions of a closed candle
  in the wrong order, and the chart then keeps the older one.
* The metrics and the positions hear nothing of a partial fill that closes a position, the metrics nothing of new,
  cancelled and expired orders, which change the available cash it shows
  (`web/components/dashboard/portfolio-metrics.tsx:40`, `positions-table.tsx:41`).
* Only the terminal joins the room of the portfolio
  (`web/components/terminal/recent-trades.tsx:24`), so a dashboard opened directly hears no
  events; the positions table listens to a name that is never sent
  (`web/components/dashboard/positions-table.tsx:43`).

## 7. Possible continuations

A module of scaled decimals for rounding; the composition of `Engine` with
`Orders`, whose jobs are now allowed to be more than the engine's.
