----------------------------- MODULE Valuation ------------------------------
(***************************************************************************)
(* What a portfolio is worth: PortfolioValuationService.getValuation as    *)
(* functions of its cash, its positions and the prices that were read.     *)
(*                                                                         *)
(* Amounts are whole numbers.  The initial margin is half and the          *)
(* maintenance margin a quarter of the gross exposure, so an amount that   *)
(* is compared with one of them is multiplied by two or by four instead of *)
(* dividing.  Rounding to four decimals is left out: with whole numbers it *)
(* takes no level across 100 or 120.                                       *)
(***************************************************************************)
EXTENDS Integers, FiniteSets, Sums

CONSTANTS
  Symbols,     \* the instruments
  HalfSpread   \* [Symbols -> Nat]: half of baseSpread of the liquidity profile

ASSUME ValuationAssumption == IsFiniteSet(Symbols) /\ HalfSpread \in [Symbols -> Nat]

NoPrice == 0   \* getLatestPrice returned null

\* A portfolio that may trade on margin, with its positions.
Holding == [cash : Int, realized : Int,
            qty : [Symbols -> Int], entry : [Symbols -> Int]]

Magnitude(n) == IF n < 0 THEN -n ELSE n

\* calculateExecutablePrice at the first level: a long position is sold at
\* the bid, a short one bought back at the ask.
ClosingPrice(qty, ref, s) == IF qty > 0 THEN ref - HalfSpread[s] ELSE ref + HalfSpread[s]

\* A position without a price is valued at its average entry price.
Reference(h, prices, s) == IF prices[s] = NoPrice THEN h.entry[s] ELSE prices[s]

Worth(h, prices, s) ==
  IF h.qty[s] = 0 THEN 0
  ELSE h.qty[s] * ClosingPrice(h.qty[s], Reference(h, prices, s), s)

NetMarketValue(h, prices) == SumOf([s \in Symbols |-> Worth(h, prices, s)])
GrossExposure(h, prices) == SumOf([s \in Symbols |-> Magnitude(Worth(h, prices, s))])
Equity(h, prices) == h.cash + NetMarketValue(h, prices)

UnrealizedPnl(h, prices) ==
  SumOf([s \in Symbols |-> Worth(h, prices, s) - h.qty[s] * h.entry[s]])

\* The profit the page of positions adds up: without the spread, and without
\* the positions that have no price.
ShownProfit(h, prices) ==
  SumOf([s \in Symbols |-> IF prices[s] = NoPrice THEN 0
                           ELSE (prices[s] - h.entry[s]) * h.qty[s]])

\* marginLevel and marginStatus: equity over a quarter of the exposure, in
\* per cent; none for a portfolio without exposure.
MarginStatus(h, prices) ==
  LET gross == GrossExposure(h, prices)
      equity == Equity(h, prices) IN
  IF gross <= 0 THEN "NONE"
  ELSE IF 4 * equity < gross THEN "FORCED_LIQUIDATION"
  ELSE IF 10 * equity < 3 * gross THEN "MARGIN_CALL"
  ELSE "NORMAL"
=============================================================================
