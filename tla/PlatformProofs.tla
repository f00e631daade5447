--------------------------- MODULE PlatformProofs ---------------------------
(***************************************************************************)
(* Theorems about the components side by side.  What moves is one of them, *)
(* so the others stutter, and a behaviour of the platform is a behaviour   *)
(* of each of them: what is proved of a component holds of the platform,   *)
(* and the run checks the specifications the theorems are about.           *)
(***************************************************************************)
EXTENDS MCPlatform, BackOfficeProofs, MarketDataProofs, ClientsProofs

Step == [PlatformNext]_<<part, AllVars>>

LEMMA DayRuns == PlatformSpec => DaySpec
<1>1. PlatformInit => DayInit
  BY DEF PlatformInit
<1>2. Step => [DayNext]_dayVars
  BY DEF Step, PlatformNext, Only, AllVars
<1> QED BY <1>1, <1>2, PTL DEF PlatformSpec, Step, DaySpec

LEMMA LiqRuns == PlatformSpec => LiqSpec
<1>1. PlatformInit => LiqInit
  BY DEF PlatformInit
<1>2. Step => [LiqNext]_liqVars
  BY DEF Step, PlatformNext, Only, AllVars
<1> QED BY <1>1, <1>2, PTL DEF PlatformSpec, Step, LiqSpec

LEMMA FeedRuns == PlatformSpec => FeedSpec
<1>1. PlatformInit => FeedInit
  BY DEF PlatformInit
<1>2. Step => [FeedNext]_feedVars
  BY DEF Step, PlatformNext, Only, AllVars
<1> QED BY <1>1, <1>2, PTL DEF PlatformSpec, Step, FeedSpec

LEMMA CandlesRuns == PlatformSpec => CandlesSpec
<1>1. PlatformInit => CandlesInit
  BY DEF PlatformInit
<1>2. Step => [CandlesNext]_candlesVars
  BY DEF Step, PlatformNext, Only, AllVars
<1> QED BY <1>1, <1>2, PTL DEF PlatformSpec, Step, CandlesSpec

LEMMA MarketCandlesRuns == PlatformSpec => MarketCandlesSpec
<1>1. PlatformInit => MarketCandlesInit
  BY DEF PlatformInit
<1>2. Step => [MarketCandlesNext]_marketCandlesVars
  BY DEF Step, PlatformNext, Only, AllVars
<1> QED BY <1>1, <1>2, PTL DEF PlatformSpec, Step, MarketCandlesSpec

LEMMA ChartRuns == PlatformSpec => ChartSpec
<1>1. PlatformInit => ChartInit
  BY DEF PlatformInit
<1>2. Step => [ChartNext]_chartVars
  BY DEF Step, PlatformNext, Only, AllVars
<1> QED BY <1>1, <1>2, PTL DEF PlatformSpec, Step, ChartSpec

LEMMA GatewayRuns == PlatformSpec => GatewaySpec
<1>1. PlatformInit => GatewayInit
  BY DEF PlatformInit
<1>2. Step => [GatewayNext]_gatewayVars
  BY DEF Step, PlatformNext, Only, AllVars
<1> QED BY <1>1, <1>2, PTL DEF PlatformSpec, Step, GatewaySpec

LEMMA WebhooksRuns == PlatformSpec => WebhooksSpec
<1>1. PlatformInit => WebhooksInit
  BY DEF PlatformInit
<1>2. Step => [WebhooksNext]_webhooksVars
  BY DEF Step, PlatformNext, Only, AllVars
<1> QED BY <1>1, <1>2, PTL DEF PlatformSpec, Step, WebhooksSpec

LEMMA AccountsRuns == PlatformSpec => AccountsSpec
<1>1. PlatformInit => AccountsInit
  BY DEF PlatformInit
<1>2. Step => [AccountsNext]_accountsVars
  BY DEF Step, PlatformNext, Only, AllVars
<1> QED BY <1>1, <1>2, PTL DEF PlatformSpec, Step, AccountsSpec

LEMMA ListingsRuns == PlatformSpec => ListingsSpec
<1>1. PlatformInit => ListingsInit
  BY DEF PlatformInit
<1>2. Step => [ListingsNext]_listingsVars
  BY DEF Step, PlatformNext, Only, AllVars
<1> QED BY <1>1, <1>2, PTL DEF PlatformSpec, Step, ListingsSpec

LEMMA ScreensRuns == PlatformSpec => ScreensSpec
<1>1. PlatformInit => ScreensInit
  BY DEF PlatformInit
<1>2. Step => [ScreensNext]_screensVars
  BY DEF Step, PlatformNext, Only, AllVars
<1> QED BY <1>1, <1>2, PTL DEF PlatformSpec, Step, ScreensSpec

-----------------------------------------------------------------------------
\* Every variable of every component keeps its type, for all values of their
\* constants (the components beside the life of an order, together).
THEOREM PlatformTypeCorrect == PlatformSpec => []PlatformTypeOK
BY DayRuns, LiqRuns, FeedRuns, CandlesRuns, MarketCandlesRuns, ChartRuns, GatewayRuns,
   WebhooksRuns, AccountsRuns, ListingsRuns, ScreensRuns,
   DayTypeCorrect, LiqTypeCorrect, FeedTypeCorrect, CandlesTypeCorrect, RepliesTypeCorrect,
   ChartTypeCorrect, GatewayTypeCorrect, WebhooksTypeCorrect, AccountsTypeCorrect,
   ListingsTypeCorrect, ScreensTypeCorrect, PTL DEF PlatformTypeOK

\* The invariants the run of the platform checks, without the types.
PlatformSafe ==
  /\ SweepComplete /\ OneLiveLiquidation /\ ProfitsAddUp /\ TwoFeedsMeanALapse
  /\ CandleTellsItsTicks /\ BucketsAreWhole /\ ChartCatchesUp /\ GatewayKeepsItsBooks
  /\ PostsAreBounded /\ PortfolioUnlessInterrupted /\ MissesHaveACause
  /\ StaleScreenHasACause

\* For all values of the constants: a sweep expires every order it should, a
\* portfolio has one liquidation, profits, candles and subscriptions add up, and
\* what a client is not shown has a cause.
THEOREM PlatformIsSafe == PlatformSpec => []PlatformSafe
BY DayRuns, LiqRuns, FeedRuns, CandlesRuns, MarketCandlesRuns, ChartRuns, GatewayRuns,
   WebhooksRuns, AccountsRuns, ListingsRuns, ScreensRuns,
   SweepsAreComplete, NeverTwoLiquidations, ProfitsAreAccountedFor, TwoFeedsOnlyAfterALapse,
   CandlesTellTheirTicks, RepliesHaveWholeBuckets, ChartsCatchUp, GatewayBooksKept,
   PostsStayBounded, EveryUserHasOnePortfolio, MissesAreExplained, StaleScreensAreExplained,
   PTL DEF PlatformSafe
=============================================================================
