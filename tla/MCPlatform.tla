----------------------------- MODULE MCPlatform -----------------------------
(***************************************************************************)
(* Small instances, for TLC, of the components beside the life of an       *)
(* order.  Each is closed (what it needs of the others is an action of its *)
(* own), so one run checks them all: part says which of them runs, and the *)
(* others stand still.                                                     *)
(***************************************************************************)
EXTENDS TradingDay, Liquidation, Feed, Candles, MarketCandles, Chart, Gateway, Webhooks, Accounts, Listings, Screens, TLC

VARIABLE part

CONSTANTS A, B, p1, f1, f2, t1, t2, t3, s1, s2

Parts ==
  {"tradingDay", "liquidation", "feed", "candles", "marketCandles", "chart",
   "gateway", "webhooks", "accounts", "listings", "screens"}

PlatformInit ==
  /\ part \in Parts
  /\ DayInit /\ LiqInit /\ FeedInit /\ CandlesInit
  /\ MarketCandlesInit /\ ChartInit /\ GatewayInit /\ WebhooksInit
  /\ AccountsInit /\ ListingsInit /\ ScreensInit
  /\ trading = (part = "liquidation")
  /\ part = "screens" \/ panel = "orders"   \* at rest, one panel will do

AllVars ==
  <<dayVars, liqVars, feedVars, candlesVars, marketCandlesVars, chartVars,
    gatewayVars, webhooksVars, accountsVars, listingsVars, screensVars>>

\* The others do not move.
Only(name) ==
  /\ part = name /\ UNCHANGED part
  /\ name = "tradingDay" \/ UNCHANGED dayVars
  /\ name = "liquidation" \/ UNCHANGED liqVars
  /\ name = "feed" \/ UNCHANGED feedVars
  /\ name = "candles" \/ UNCHANGED candlesVars
  /\ name = "marketCandles" \/ UNCHANGED marketCandlesVars
  /\ name = "chart" \/ UNCHANGED chartVars
  /\ name = "gateway" \/ UNCHANGED gatewayVars
  /\ name = "webhooks" \/ UNCHANGED webhooksVars
  /\ name = "accounts" \/ UNCHANGED accountsVars
  /\ name = "listings" \/ UNCHANGED listingsVars
  /\ name = "screens" \/ UNCHANGED screensVars

PlatformNext ==
  \/ Only("tradingDay") /\ DayNext
  \/ Only("liquidation") /\ LiqNext
  \/ Only("feed") /\ FeedNext
  \/ Only("candles") /\ CandlesNext
  \/ Only("marketCandles") /\ MarketCandlesNext
  \/ Only("chart") /\ ChartNext
  \/ Only("gateway") /\ GatewayNext
  \/ Only("webhooks") /\ WebhooksNext
  \/ Only("accounts") /\ AccountsNext
  \/ Only("listings") /\ ListingsNext
  \/ Only("screens") /\ ScreensNext

\* Fairness of one component: what its processes keep doing.
LiquidationFairness ==
  /\ \A s \in Symbols : WF_liqVars(part = "liquidation" /\ \E x \in RefPrices[s] : MarketTick(s, x))
  /\ WF_liqVars(part = "liquidation" /\ SecondPasses)
  /\ WF_liqVars(part = "liquidation" /\ \E c \in Slots : Evaluate(c))

\* A lease runs out when its holder is dead or does not know of it.
FeedFairness ==
  /\ WF_feedVars(part = "feed" /\ Expire /\ ~Knows(feedLease))
  /\ \A p \in Feeds :
       /\ WF_feedVars(part = "feed" /\ Heartbeat(p))
       /\ WF_feedVars(part = "feed" /\ (Execute(p) \/ Answer(p)))
       /\ WF_feedVars(part = "feed" /\ Tick(p))

\* The two workers run their jobs.
WebhooksFairness ==
  /\ \A e \in Events :
       WF_webhooksVars(part = "webhooks" /\ (Dispatch(e) \/ ListHooks(e) \/ Dispatched(e)
                                               \/ \E h \in Hooks : AddJob(e, h)))
  /\ \A e \in Events, h \in Hooks :
       WF_webhooksVars(part = "webhooks" /\ (ReadHook(h, e) \/ Post(h, e) \/ Delivered(h, e)))

PlatformSpec ==
  /\ PlatformInit /\ [][PlatformNext]_<<part, AllVars>>
  /\ LiquidationFairness /\ FeedFairness /\ WebhooksFairness

\* The variables of every component keep their types.
PlatformTypeOK ==
  /\ DayTypeOK /\ LiqTypeOK /\ FeedTypeOK /\ CandlesTypeOK
  /\ MarketCandlesTypeOK /\ ChartTypeOK /\ GatewayTypeOK /\ WebhooksTypeOK
  /\ AccountsTypeOK /\ ListingsTypeOK /\ ScreensTypeOK

-----------------------------------------------------------------------------
\* Two symbols with a spread of two; the first may halve or double its price.
Spreads == [s \in {A, B} |-> 1]
Prices  == [s \in {A, B} |-> IF s = A THEN {6, 24} ELSE {8}]
\* Long the first and short the second, which a fall of the first ruins.
LongShort ==
  (p1 :> [cash |-> 2, realized |-> 0,
          qty |-> [s \in {A, B} |-> IF s = A THEN 1 ELSE -1],
          entry |-> [s \in {A, B} |-> 8]])

\* Turns the first position over and adds to the second.
FillSizes == {-2}

\* A stopped feed may start again while its last command is on its way.
Flights == [p \in Feeds |-> 1]

\* Two ticks of the first minute of the session, one of the second.
TickTable ==
  (t1 :> [minute |-> 0, time |-> 1, price |-> 5, volume |-> 1]) @@
  (t2 :> [minute |-> 0, time |-> 2, price |-> 7, volume |-> 2]) @@
  (t3 :> [minute |-> 1, time |-> 3, price |-> 4, volume |-> 1])

\* Timeframes of one minute, of an hour of two, of a day of three.
Sizes == ("1m" :> 1) @@ ("1h" :> 2) @@ ("1d" :> 3)

\* The portfolio of the first socket's user; its packets may come in pairs.
FolioOwners == [f \in Folios |-> {s1}]
Bursts      == [s \in Sockets |-> IF s = s1 THEN 2 ELSE 1]

\* One event; clients ask for a type that cannot be asked for, and get all.
EventTypes == [e \in Events |-> "ORDER_FILLED"]
=============================================================================
