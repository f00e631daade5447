\* One engine, one STOP_LIMIT order of one level, any two faults.
SPECIFICATION FairSpec
\* An engine that has lost its lease stops for good.
CHECK_DEADLOCK FALSE
CONSTANTS
  e1 = e1  e2 = e2  k1 = k1  k2 = k2  k3 = k3
  Engines = {e1}
  Orders = {k1}
  Type <- Types
  Side <- Sides
  Requested <- OneLevel
  LimitPrice <- Limits
  StopPrice <- Stops
  Depth = 2
  HalfSpread = 1
  Slippage = 1
  Prices = {11, 12}
  Attempts = 3
  Faults = {"route", "dispatch", "add", "job", "activate", "engine", "lease", "cancel", "close"}
  MaxFaults = 2
  Absent = Absent
INVARIANTS
  TypeOK
  PriceWithinLimit
PROPERTIES
  EveryOrderEnds
  GhostsLeave
