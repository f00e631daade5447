SPECIFICATION Spec
CONSTANTS
  u1 = u1  u2 = u2  p1 = p1  p2 = p2  s1 = s1  s2 = s2
  k1 = k1  k2 = k2  k3 = k3  k4 = k4
  c1 = c1  c2 = c2  c3 = c3  c4 = c4  c5 = c5
  Users = {u1}
  Portfolios = {p1}
  Symbols = {s1}
  Owner <- OneOwner
  Margin = {}
  Keys = {k1, k2}
  Calls = {c1, c2, c3}
  KeyOf <- MarketKeys
  Body <- MarketBodies
  FillPrices = {20, 40}
  Depth <- OneDepth
  OpeningCash <- Cash50
  NoOrder = NoOrder
PROPERTIES
  DuplicateGetsTheOrder
