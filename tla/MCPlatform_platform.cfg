SPECIFICATION PlatformSpec
CONSTANTS
  A = A  B = B  p1 = p1  f1 = f1  f2 = f2  t1 = t1  t2 = t2  t3 = t3  s1 = s1  s2 = s2
  DayLength = 3  OpenAt = 1  CloseAt = 2  LastTime = 5  LeaseTime = 1
  SweepWorkers = {w1, w2}  DayOrders = {k1}  Accounts = {1, 2}  PageSize = 1  MaxMishaps = 1
  Symbols = {A, B}  HalfSpread <- Spreads  RefPrices <- Prices  Margined = {p1}
  Opening <- LongShort  Slots = {c1, c2}  TradeSizes <- FillSizes  MaxTrades = 1  MaxRounds = 2  MaxBreaks = 1
  Feeds = {f1, f2}  Nobody = Nobody  Departed = Departed  MaxFlight <- Flights  MaxLapses = 1
  Ticks = {t1, t2, t3}  Aggregators = {a1, a2}  TickData <- TickTable
  SessionMinutes = {0, 1}  MaxDrops = 1
  DayMinutes = 3  Days = 2  MaxLimit = 2  Limits = {0, 1, 2, 3}  BucketSize <- Sizes
  LastMinute = 1  MaxVolume = 2  Fetches = {1, 2}  MaxSwitches = 1
  Sockets = {s1, s2}  Markets = {m1, m2}  Folios = {f3}  OwnerOf <- FolioOwners
  ConnectionLimit = 1  MaxRequests = 2  MaxSubscriptions = 1  MaxBurst <- Bursts  MaxFaults = 1
  Hooks = {h1, h2}  Events = {e1}  TypeOf <- EventTypes  ValidEvents = {"ORDER_FILLED", "*"}
  Asks = {{"ORDER_EXPIRED"}}  Star = "*"
  EventAttempts = 2  HookAttempts = 1  MaxStalls = 1  MaxHookBreaks = 2
  Emails = {u1}  Clients = {b1, b2, b3}  Keys = {k2}  Tickets = {o1}  NoEmail = NoEmail
  MaxAborts = 2
  RowIds = {1, 2, 3}  PageLimit = 1  LastMoment = 2
  PanelSlots = {1, 2}  MaxChanges = 2  MaxTurns = 2
INVARIANTS
  PlatformTypeOK
  SweepComplete
  OneLiveLiquidation
  ProfitsAddUp
  TwoFeedsMeanALapse
  CandleTellsItsTicks
  BucketsAreWhole
  ChartCatchesUp
  GatewayKeepsItsBooks
  PostsAreBounded
  PortfolioUnlessInterrupted
  MissesHaveACause
  
PROPERTIES
  UnderwaterIsLiquidated
  OpenMarketHasPrices
  EventReachesEveryHook
CHECK_DEADLOCK FALSE
