---------------------------- MODULE Liquidation -----------------------------
(***************************************************************************)
(* Margin calls: ticks and fills put evaluations of portfolios in a queue, *)
(* at most one per portfolio and second, and workers evaluate portfolios   *)
(* under a lock of the row.  A portfolio whose equity is below its         *)
(* maintenance margin gets one liquidation order, for the position that    *)
(* binds most margin; one that is well again has its liquidations          *)
(* cancelled.                                                              *)
(*                                                                         *)
(* Prices are read twice in an evaluation, for the valuation and for the   *)
(* choice of the position, and move in between.  A tick is published and   *)
(* noticed in one step, and jobs that wait for a portfolio since earlier   *)
(* seconds are taken as one.  A liquidation order stays in RECEIVED: no    *)
(* code moves it on.                                                       *)
(*                                                                         *)
(* Quantities are whole and an amount of money is a whole number of the    *)
(* smallest units its column holds, so the average entry price is the one  *)
(* amount that is rounded.                                                 *)
(***************************************************************************)
EXTENDS Valuation

CONSTANTS
  Margined,       \* the portfolios, all with isMarginEnabled
  Opening,        \* their holdings at first
  RefPrices,      \* [Symbols -> SUBSET Nat]: the prices a tick may carry
  Slots,          \* evaluations that run at the same time (concurrency)
  TradeSizes,     \* what fills may buy (above zero) and sell (below)
  MaxTrades, MaxRounds,  \* bounds: fills of users; liquidations of a symbol
  MaxBreaks       \* bound: statements, reads and calls that fail

ASSUME LiquidationAssumption ==
  /\ Opening \in [Margined -> Holding] /\ RefPrices \in [Symbols -> SUBSET (Nat \ {0})]
  /\ \A s \in Symbols : \E x \in RefPrices[s] : \A y \in RefPrices[s] : x >= y
  /\ TradeSizes \subseteq Int \ {0} /\ MaxTrades \in Nat /\ MaxRounds \in Nat /\ MaxBreaks \in Nat

VARIABLES
  holdings,   \* tables portfolios and positions
  prices,     \* Redis: prices:latest
  liqOrders,  \* the rows of orders with isLiquidation
  filled,     \* portfolios of which a fill was published and not yet handled
  queue,      \* jobs that wait: the portfolio, and whether the job is of this second
  stuck,      \* portfolios of which a job of this second failed and is kept
  slots,      \* what each evaluation is doing
  trading,    \* the session is open
  averaged,   \* history: the units whose entry price was an average, at each averaging
  trades, breaks

liqVars == <<holdings, prices, liqOrders, filled, queue, stuck, slots, trading,
             averaged, trades, breaks>>

Free == [step |-> "free"]
Evaluation == [step : {"begin", "choose"}, portfolio : Margined, now : BOOLEAN]
Placing == [step : {"place"}, portfolio : Margined, now : BOOLEAN, symbol : Symbols, qty : Int]

LiqInit ==
  /\ holdings = Opening /\ prices = [s \in Symbols |-> CHOOSE x \in RefPrices[s] : \A y \in RefPrices[s] : x >= y]
  /\ liqOrders = {} /\ filled = {}
  /\ queue = {} /\ stuck = {} /\ slots = [c \in Slots |-> Free] /\ trading \in BOOLEAN
  /\ averaged = [p \in Margined |-> 0] /\ trades = 0 /\ breaks = 0

Underwater(p) == MarginStatus(holdings[p], prices) = "FORCED_LIQUIDATION"
LiveLiquidations(p) == {o \in liqOrders : o.portfolio = p /\ o.status = "RECEIVED"}

\* SELECT ... FOR UPDATE of the portfolio: an evaluation holds the row from
\* its valuation to its commit.
Locked(p) == \E c \in Slots : slots[c].step \in {"choose", "place"} /\ slots[c].portfolio = p

\* Mutant: evaluations do not lock the row.
RowFreeUnlocked(p) == TRUE

RowFree(p) == ~Locked(p)

-----------------------------------------------------------------------------
\* What makes a portfolio worth looking at.

\* The units of position s that a fill of n closes: none when it goes the same
\* way, and no more than are held.
Closed(h, s, n) ==
  IF h.qty[s] * n >= 0 THEN 0
  ELSE IF Magnitude(n) <= Magnitude(h.qty[s]) THEN Magnitude(n) ELSE Magnitude(h.qty[s])

\* A unit of a long position earns what it is sold above its entry price, one
\* of a short position what it is bought back below it.
Gain(h, s, price) == IF h.qty[s] > 0 THEN price - h.entry[s] ELSE h.entry[s] - price

\* Mutant: a fill that crosses zero is realized as a whole.
RealizedOnTheWholeFill(h, s, n, price) ==
  IF h.qty[s] * n >= 0 THEN 0 ELSE Magnitude(n) * Gain(h, s, price)

\* What adjustOnBuy and adjustOnSell realize.
RealizedPnl(h, s, n, price) == Closed(h, s, n) * Gain(h, s, price)

\* a / b as the column keeps it, to the nearest unit, for b > 0.
Rounded(a, b) == (2 * a + b) \div (2 * b)

Averages(h, s, n) == h.qty[s] * n > 0

\* A position that grows has the average price of its units, one that shrinks
\* keeps its price, and one that is opened, or comes out on the other side of
\* zero, has the price of the fill.
NewAverage(h, s, n, price) ==
  LET held == Magnitude(h.qty[s])
      size == Magnitude(n) IN
  IF Averages(h, s, n) THEN Rounded(held * h.entry[s] + size * price, held + size)
  ELSE IF h.qty[s] # 0 /\ size <= held THEN h.entry[s]
  ELSE price

\* A fill of an order of the user.  The order was placed at some time before,
\* against the position of that time, so nothing ties it to what is held now.
\* A short position, too, is entered and left at the price that was paid.
Trade(p, s, n) ==
  LET h == holdings[p]
      price == IF n > 0 THEN prices[s] + HalfSpread[s] ELSE prices[s] - HalfSpread[s] IN
  /\ trading /\ trades < MaxTrades /\ RowFree(p)
  /\ holdings' = [holdings EXCEPT ![p] =
       [cash |-> h.cash - n * price,
        realized |-> h.realized + RealizedPnl(h, s, n, price),
        qty |-> [h.qty EXCEPT ![s] = @ + n],
        entry |-> [h.entry EXCEPT ![s] = NewAverage(h, s, n, price)]]]
  /\ averaged' = [averaged EXCEPT ![p] =
       @ + (IF Averages(h, s, n) THEN Magnitude(h.qty[s] + n) ELSE 0)]
  /\ filled' = filled \cup {p}
  /\ trades' = trades + 1
  /\ UNCHANGED <<prices, liqOrders, queue, stuck, slots, trading, breaks>>

\* A job whose id (portfolio and second) the queue knows is not added again.
KnownJob(p) ==
  \/ [portfolio |-> p, now |-> TRUE] \in queue \/ p \in stuck
  \/ \E c \in Slots : slots[c].step # "free" /\ slots[c].portfolio = p /\ slots[c].now

Enqueue(ps) ==
  queue' = queue \cup {[portfolio |-> p, now |-> TRUE] : p \in {q \in ps : ~KnownJob(q)}}

\* A tick and LiquidationTriggerService, which gets it or does not: every
\* portfolio with a position in the symbol is to be evaluated.
MarketTick(s, price) ==
  /\ trading /\ prices' = [prices EXCEPT ![s] = price]
  /\ \/ /\ Enqueue({p \in Margined : holdings[p].qty[s] # 0})
        /\ UNCHANGED breaks
     \/ breaks < MaxBreaks /\ breaks' = breaks + 1 /\ UNCHANGED queue
  /\ UNCHANGED <<holdings, liqOrders, filled, stuck, slots, trading, averaged, trades>>

\* DomainEventDispatcherWorker, after a fill; a job that cannot be added is
\* only logged.
HandleFill(p) ==
  /\ p \in filled /\ filled' = filled \ {p}
  /\ \/ Enqueue({p}) /\ UNCHANGED breaks
     \/ breaks < MaxBreaks /\ breaks' = breaks + 1 /\ UNCHANGED queue
  /\ UNCHANGED <<holdings, prices, liqOrders, stuck, slots, trading, averaged, trades>>

SecondPasses ==
  /\ queue' = {[j EXCEPT !.now = FALSE] : j \in queue}
  /\ stuck' = {}
  /\ slots' = [c \in Slots |-> IF slots[c] = Free THEN Free ELSE [slots[c] EXCEPT !.now = FALSE]]
  /\ <<queue, stuck, slots>>' # <<queue, stuck, slots>>
  /\ UNCHANGED <<holdings, prices, liqOrders, filled, trading, averaged, trades, breaks>>

SessionTurns ==
  /\ breaks < MaxBreaks /\ breaks' = breaks + 1
  /\ trading' = ~trading
  /\ UNCHANGED <<holdings, prices, liqOrders, filled, queue, stuck, slots, averaged, trades>>

-----------------------------------------------------------------------------
\* LiquidationWorker.evaluatePortfolio.

\* Outside the session a job is done at once.
TakeJob(c, j) ==
  /\ slots[c] = Free /\ j \in queue
  /\ queue' = queue \ {j}
  /\ slots' = IF trading
              THEN [slots EXCEPT ![c] = [step |-> "begin", portfolio |-> j.portfolio, now |-> j.now]]
              ELSE slots
  /\ UNCHANGED <<holdings, prices, liqOrders, filled, stuck, trading, averaged, trades, breaks>>

\* What getLatestPrice returns for all symbols: an error is a missing price.
Readings == {prices} \cup
  (IF breaks < MaxBreaks THEN {[prices EXCEPT ![s] = NoPrice] : s \in Symbols} ELSE {})

Counted(seen) == breaks' = breaks + (IF seen = prices THEN 0 ELSE 1)

\* The row is locked, the portfolio valued and its live liquidations read.
Assess(c, seen) ==
  LET p == slots[c].portfolio
      status == MarginStatus(holdings[p], seen) IN
  /\ slots[c].step = "begin" /\ RowFree(p) /\ Counted(seen)
  /\ liqOrders' = IF status = "NORMAL"
                  THEN (liqOrders \ LiveLiquidations(p)) \cup
                       {[o EXCEPT !.status = "CANCELLED"] : o \in LiveLiquidations(p)}
                  ELSE liqOrders
  /\ slots' = [slots EXCEPT ![c] =
       IF status = "FORCED_LIQUIDATION" /\ LiveLiquidations(p) = {}
       THEN [@ EXCEPT !.step = "choose"] ELSE Free]
  /\ UNCHANGED <<holdings, prices, filled, queue, stuck, trading, averaged, trades>>

Notional(h, seen, s) == Magnitude(h.qty[s]) * seen[s]
MarginBound(h, seen, s) ==   \* twice the initial margin of the position
  Magnitude(h.qty[s]) * ClosingPrice(h.qty[s], seen[s], s)

\* The order of the candidates; equal ones are taken by their names, which
\* are not modelled.
Before(h, seen, s, t) ==
  \/ MarginBound(h, seen, s) > MarginBound(h, seen, t)
  \/ /\ MarginBound(h, seen, s) = MarginBound(h, seen, t)
     /\ Notional(h, seen, s) >= Notional(h, seen, t)

\* The prices are read again, and the position to close is chosen.
ChoosePosition(c, seen) ==
  LET h == holdings[slots[c].portfolio]
      candidates == {s \in Symbols : h.qty[s] # 0} IN
  /\ slots[c].step = "choose" /\ Counted(seen)
  /\ IF candidates = {} THEN slots' = [slots EXCEPT ![c] = Free]
     ELSE \E s \in candidates :
       /\ \A t \in candidates : Before(h, seen, s, t)
       /\ slots' = [slots EXCEPT ![c] =
            IF Notional(h, seen, s) <= 0 THEN Free
            ELSE [step |-> "place", portfolio |-> @.portfolio, now |-> @.now,
                  symbol |-> s, qty |-> h.qty[s]]]
  /\ UNCHANGED <<holdings, prices, liqOrders, filled, queue, stuck, trading, averaged, trades>>

\* Mutant: only live liquidations are counted.
RoundLive(p, s) == Cardinality({o \in LiveLiquidations(p) : o.symbol = s})

\* The number of the round is in the key of the order.
Round(p, s) == Cardinality({o \in liqOrders : o.portfolio = p /\ o.symbol = s})

\* The order is inserted, unless its key exists: then the job fails, is not
\* tried again and keeps its id.
PlaceLiquidation(c) ==
  LET v == slots[c]
      round == Round(v.portfolio, v.symbol)
      order == [portfolio |-> v.portfolio, symbol |-> v.symbol, round |-> round,
                qty |-> -v.qty, status |-> "RECEIVED"]
      clash == \E o \in liqOrders :
                 o.portfolio = v.portfolio /\ o.symbol = v.symbol /\ o.round = round IN
  /\ v.step = "place" /\ round < MaxRounds
  /\ liqOrders' = IF clash THEN liqOrders ELSE liqOrders \cup {order}
  /\ stuck' = IF clash /\ v.now THEN stuck \cup {v.portfolio} ELSE stuck
  /\ slots' = [slots EXCEPT ![c] = Free]
  /\ UNCHANGED <<holdings, prices, filled, queue, trading, averaged, trades, breaks>>

\* An error rolls the transaction back; a job is tried once.
EvaluationFails(c) ==
  /\ slots[c] # Free /\ breaks < MaxBreaks
  /\ breaks' = breaks + 1
  /\ stuck' = IF slots[c].now THEN stuck \cup {slots[c].portfolio} ELSE stuck
  /\ slots' = [slots EXCEPT ![c] = Free]
  /\ UNCHANGED <<holdings, prices, liqOrders, filled, queue, trading, averaged, trades>>

Evaluate(c) ==
  \/ \E j \in queue : TakeJob(c, j)
  \/ \E seen \in Readings : Assess(c, seen) \/ ChoosePosition(c, seen)
  \/ PlaceLiquidation(c)

LiqNext ==
  \/ \E s \in Symbols : \E x \in RefPrices[s] : MarketTick(s, x)
  \/ \E p \in Margined, s \in Symbols, n \in TradeSizes : Trade(p, s, n)
  \/ \E p \in Margined : HandleFill(p)
  \/ SecondPasses \/ SessionTurns
  \/ \E c \in Slots : Evaluate(c) \/ EvaluationFails(c)

LiqSpec == LiqInit /\ [][LiqNext]_liqVars

-----------------------------------------------------------------------------
LiqTypeOK ==
  /\ holdings \in [Margined -> Holding] /\ \A s \in Symbols : prices[s] \in RefPrices[s]
  /\ liqOrders \subseteq [portfolio : Margined, symbol : Symbols, round : 0 .. MaxRounds - 1,
                          qty : Int, status : {"RECEIVED", "CANCELLED"}]
  /\ filled \subseteq Margined
  /\ queue \subseteq [portfolio : Margined, now : BOOLEAN] /\ stuck \subseteq Margined
  /\ slots \in [Slots -> {Free} \cup Evaluation \cup Placing] /\ trading \in BOOLEAN
  /\ averaged \in [Margined -> Nat] /\ trades \in 0 .. MaxTrades /\ breaks \in 0 .. MaxBreaks

\* However many workers evaluate a portfolio at the same time, and whatever
\* prices do between their two looks at them, at most one liquidation of it is
\* under way (the check and the insert in evaluatePortfolio).
OneLiveLiquidation == \A p \in Margined : Cardinality(LiveLiquidations(p)) <= 1

\* What is owned beyond the capital, what was realized and what would be
\* realized now.
Discrepancy(p) ==
  LET h == holdings[p] IN
  Equity(h, prices)
    - (Opening[p].cash + SumOf([s \in Symbols |-> Opening[p].qty[s] * Opening[p].entry[s]])
         + (h.realized - Opening[p].realized) + UnrealizedPnl(h, prices))

\* What a portfolio owns is its capital, what it has realized and what it
\* would realize now, whether its fills open, add to, reduce, close or turn
\* over a position: fills and prices move no money in or out (PositionService
\* against PortfolioValuationService).  It is off by what rounding an average
\* entry price makes of the units it is the average of, half a unit of money
\* for each of them at most.  The page of positions
\* (PortfolioController.getPositions) shows that much and half a spread for
\* every unit.
ProfitsAddUp ==
  \A p \in Margined :
    LET h == holdings[p] IN
    /\ 2 * Magnitude(Discrepancy(p)) <= averaged[p]
    /\ ShownProfit(h, prices) =
         UnrealizedPnl(h, prices) + SumOf([s \in Symbols |-> Magnitude(h.qty[s]) * HalfSpread[s]])

\* A portfolio that stays below its maintenance margin while the market is
\* open has a liquidation in the end, though ticks get lost, jobs fail and a
\* job is dropped when another of its second is in the queue.
UnderwaterIsLiquidated ==
  \A p \in Margined :
    <>[](trading /\ Underwater(p) /\ \A s \in Symbols : Round(p, s) < MaxRounds)
      => <>[](LiveLiquidations(p) # {})
=============================================================================
