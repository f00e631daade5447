------------------------------ MODULE MCOrders ------------------------------
(***************************************************************************)
(* Small instances of Orders for TLC.                                      *)
(***************************************************************************)
EXTENDS Orders, TLC

CONSTANTS u1, u2, p1, p2, s1, s2, k1, k2, k3, k4, c1, c2, c3, c4, c5

Ask(u, p, s, side, type, qty, limit, market) ==
  [user |-> u, portfolio |-> p, symbol |-> s, side |-> side, type |-> type,
   requested |-> qty, limit |-> limit,
   stop |-> IF type \in {"STOP", "STOP_LIMIT"} THEN 20 ELSE 0, market |-> market]

\* One user, one cash portfolio, one symbol.
OneOwner == (p1 :> u1)
OneDepth == (s1 :> 2)
Cash90   == (p1 :> 90)

\* A BUY of two levels of depth; a second BUY that the cash does not allow
\* for beside it or, under the same key, one with a negative limit; two
\* SELLs of what the fills bring in.
LimitKeys == (c1 :> k1) @@ (c2 :> k2) @@ (c3 :> k2) @@ (c4 :> k3) @@ (c5 :> k4)
LimitBodies ==
  (c1 :> Ask(u1, p1, s1, "BUY", "LIMIT", 4, 20, 20)) @@
  (c2 :> Ask(u1, p1, s1, "BUY", "LIMIT", 2, -10, 20)) @@
  (c3 :> Ask(u1, p1, s1, "BUY", "LIMIT", 2, 10, 20)) @@
  (c4 :> Ask(u1, p1, s1, "SELL", "LIMIT", 2, 20, 20)) @@
  (c5 :> Ask(u1, p1, s1, "SELL", "LIMIT", 2, 20, 20))

\* A second user with a margin portfolio.
TwoOwners == (p1 :> u1) @@ (p2 :> u2)
Cash50    == [p \in Portfolios |-> 50]

\* The margin portfolio goes short, then BUYs through zero; a call of one
\* user for the portfolio of the other, one without a limit price; MARKET
\* and STOP orders of the cash portfolio.
MixedKeys == (c1 :> k1) @@ (c2 :> k2) @@ (c3 :> k3) @@ (c4 :> k4) @@ (c5 :> k4)
MixedBodies ==
  (c1 :> Ask(u2, p2, s1, "SELL", "STOP_LIMIT", 2, 20, 20)) @@
  (c2 :> Ask(u2, p2, s1, "BUY", "LIMIT", 3, 20, 20)) @@
  (c3 :> Ask(u1, p1, s1, "BUY", "MARKET", 2, 0, 20)) @@
  (c4 :> Ask(u1, p2, s1, "BUY", "MARKET", 1, 0, 20)) @@
  (c5 :> Ask(u1, p1, s1, "BUY", "LIMIT", 1, 0, 20))

\* Two MARKET orders of a cash portfolio, the second a retry of the first.
MarketKeys == (c1 :> k1) @@ (c2 :> k1) @@ (c3 :> k2)
MarketBodies ==
  (c1 :> Ask(u1, p1, s1, "BUY", "MARKET", 2, 0, 20)) @@
  (c2 :> Ask(u1, p1, s1, "BUY", "MARKET", 2, 0, 20)) @@
  (c3 :> Ask(u1, p1, s1, "SELL", "STOP", 1, 0, 20))
=============================================================================
