\* Two engines of one symbol and a lease that runs out under the first.
SPECIFICATION Spec
CONSTANTS
  e1 = e1  e2 = e2  k1 = k1  k2 = k2  k3 = k3
  Engines = {e1, e2}
  Orders = {k2}
  Type <- Types
  Side <- Sides
  Requested <- TwoLevels
  LimitPrice <- Limits
  StopPrice <- Stops
  Depth = 2
  HalfSpread = 1
  Slippage = 1
  Prices = {20}
  Attempts = 3
  Faults = {"lease"}
  MaxFaults = 1
  Absent = Absent
SYMMETRY AlikeEngines
INVARIANTS
  UnitsDispatchedOnce
  NeverAheadOfTheTable
  LostLeaseEmptiesTheBook
