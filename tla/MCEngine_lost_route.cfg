\* One engine, an order of two levels, one route message that is lost.
SPECIFICATION FairSpec
CONSTANTS
  e1 = e1  e2 = e2  k1 = k1  k2 = k2  k3 = k3
  Engines = {e1}
  Orders = {k3}
  Type <- Types
  Side <- Sides
  Requested <- TwoLevels
  LimitPrice <- Limits
  StopPrice <- Stops
  Depth = 2
  HalfSpread = 1
  Slippage = 1
  Prices = {20}
  Attempts = 3
  Faults = {"route"}
  MaxFaults = 1
  Absent = Absent
PROPERTIES
  EveryOrderEnds
