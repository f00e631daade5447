-------------------------- MODULE BackOfficeProofs --------------------------
(***************************************************************************)
(* Theorems about what the platform does beside trading: the liquidation   *)
(* of underwater portfolios and the close of the day.                      *)
(***************************************************************************)
EXTENDS Liquidation, TradingDay, SumsProofs

-----------------------------------------------------------------------------
(***************************************************************************)
(* A theorem about margin calls: no portfolio has two liquidations under   *)
(* way, for any number of workers, symbols, prices and rounds.             *)
(***************************************************************************)

\* Orders have a status, evaluations a portfolio.
Shaped ==
  /\ \A o \in liqOrders : "status" \in DOMAIN o
  /\ DOMAIN slots = Slots
  /\ \A c \in Slots : \/ slots[c] = Free
                      \/ /\ "step" \in DOMAIN slots[c] /\ "portfolio" \in DOMAIN slots[c]
                         /\ slots[c].step # "free"

\* An evaluation between its valuation and its commit holds the row, and has
\* seen the portfolio without a live liquidation.
Holds(c, p) == slots[c].step \in {"choose", "place"} /\ slots[c].portfolio = p

Exclusive == \A c, d \in Slots : \A p : Holds(c, p) /\ Holds(d, p) => c = d
HasSeenNone == \A c \in Slots : \A p : Holds(c, p) => LiveLiquidations(p) = {}
AtMostOne == \A p : \A a, b \in LiveLiquidations(p) : a = b

LiqInv == Shaped /\ Exclusive /\ HasSeenNone /\ AtMostOne

LEMMA LiqInvInit == LiqInit => LiqInv
<1> SUFFICES ASSUME LiqInit PROVE LiqInv
  OBVIOUS
<1>1. \A c \in Slots : slots[c] = Free /\ slots[c].step = "free"
  BY DEF LiqInit, Free
<1>2. liqOrders = {} /\ DOMAIN slots = Slots
  BY DEF LiqInit
<1>3. QED
  BY <1>1, <1>2 DEF LiqInv, Shaped, Exclusive, HasSeenNone, AtMostOne, Holds, LiveLiquidations

\* A slot that gives its row back, or never had it, disturbs nothing.
LEMMA ReleasedSlot ==
  ASSUME LiqInv, NEW c \in Slots, NEW v, slots' = [slots EXCEPT ![c] = v],
         \/ v = Free
         \/ /\ "step" \in DOMAIN v /\ "portfolio" \in DOMAIN v
            /\ v.step \notin {"free", "choose", "place"},
         liqOrders' = liqOrders
  PROVE  LiqInv'
<1>1. v.step \notin {"choose", "place"}
  BY DEF Free
<1>2. /\ DOMAIN slots' = Slots /\ slots'[c] = v
      /\ \A d \in Slots : d # c => slots'[d] = slots[d]
  BY DEF LiqInv, Shaped
<1>3. Shaped'
  BY <1>2 DEF LiqInv, Shaped
<1>4. \A d \in Slots : \A p : Holds(d, p)' => d # c /\ Holds(d, p)
  BY <1>1, <1>2 DEF Holds
<1>5. \A p : LiveLiquidations(p)' = LiveLiquidations(p)
  BY DEF LiveLiquidations
<1>6. QED
  BY <1>3, <1>4, <1>5 DEF LiqInv, Exclusive, HasSeenNone, AtMostOne

LEMMA SecondStep == ASSUME LiqInv, SecondPasses PROVE LiqInv'
<1>1. /\ DOMAIN slots' = Slots /\ liqOrders' = liqOrders
      /\ \A c \in Slots :
           slots'[c] = IF slots[c] = Free THEN Free ELSE [slots[c] EXCEPT !.now = FALSE]
  BY DEF SecondPasses
<1>2. ASSUME NEW c \in Slots
      PROVE  /\ slots'[c].step = slots[c].step
             /\ \/ slots'[c] = Free /\ slots[c] = Free
                \/ /\ slots'[c].portfolio = slots[c].portfolio /\ slots'[c].step # "free"
                   /\ "step" \in DOMAIN slots'[c] /\ "portfolio" \in DOMAIN slots'[c]
  BY <1>1 DEF LiqInv, Shaped, Free
<1>3. Shaped'
  BY <1>1, <1>2 DEF LiqInv, Shaped
<1>4. \A c \in Slots : \A p : Holds(c, p)' => Holds(c, p)
  BY <1>2 DEF Holds, Free
<1>5. \A p : LiveLiquidations(p)' = LiveLiquidations(p)
  BY <1>1 DEF LiveLiquidations
<1>6. QED
  BY <1>3, <1>4, <1>5 DEF LiqInv, Exclusive, HasSeenNone, AtMostOne

\* A live liquidation after the valuation was one before it.
LEMMA AssessStep ==
  ASSUME LiqInv, NEW c \in Slots, NEW seen \in Readings, Assess(c, seen)
  PROVE  LiqInv'
<1> DEFINE p == slots[c].portfolio
<1>1. /\ slots[c].step = "begin" /\ "step" \in DOMAIN slots[c]
      /\ "portfolio" \in DOMAIN slots[c]
  BY DEF Assess, LiqInv, Shaped, Free
<1>2. ASSUME NEW o \in liqOrders
      PROVE  /\ [o EXCEPT !.status = "CANCELLED"].status = "CANCELLED"
             /\ "status" \in DOMAIN [o EXCEPT !.status = "CANCELLED"]
  BY DEF LiqInv, Shaped
<1>3. \/ liqOrders' = liqOrders
      \/ liqOrders' = (liqOrders \ LiveLiquidations(p)) \cup
                        {[o EXCEPT !.status = "CANCELLED"] : o \in LiveLiquidations(p)}
  BY DEF Assess
<1>4. \A o \in liqOrders' : "status" \in DOMAIN o /\ (o.status = "RECEIVED" => o \in liqOrders)
  <2>1. CASE liqOrders' = liqOrders
    BY <2>1 DEF LiqInv, Shaped
  <2>2. CASE liqOrders' # liqOrders
    <3>1. ASSUME NEW o \in liqOrders'
          PROVE  o \in liqOrders \/ \E x \in liqOrders : o = [x EXCEPT !.status = "CANCELLED"]
      BY <1>3, <2>2 DEF LiveLiquidations
    <3>2. QED
      BY <1>2, <3>1 DEF LiqInv, Shaped
  <2>3. QED
    BY <2>1, <2>2
<1>5. \A q : LiveLiquidations(q)' \subseteq LiveLiquidations(q)
  BY <1>4 DEF LiveLiquidations
<1>6. PICK v : /\ slots' = [slots EXCEPT ![c] = v]
               /\ \/ v = Free
                  \/ v = [slots[c] EXCEPT !.step = "choose"] /\ LiveLiquidations(p) = {}
  BY DEF Assess
<1>7. /\ DOMAIN slots' = Slots /\ slots'[c] = v
      /\ \A d \in Slots : d # c => slots'[d] = slots[d]
  BY <1>6 DEF LiqInv, Shaped
<1>8. \/ v = Free
      \/ /\ "step" \in DOMAIN v /\ "portfolio" \in DOMAIN v /\ v.step = "choose"
         /\ v.portfolio = p /\ LiveLiquidations(p) = {}
  BY <1>1, <1>6
<1>9. Shaped'
  BY <1>4, <1>7, <1>8 DEF LiqInv, Shaped
<1>10. \A d \in Slots : ~Holds(d, p)
  BY DEF Assess, RowFree, Locked, Holds
<1>11. ASSUME NEW d \in Slots, NEW q, Holds(d, q)'
       PROVE  \/ d # c /\ q # p /\ Holds(d, q)
              \/ d = c /\ q = p /\ LiveLiquidations(p) = {}
  BY <1>7, <1>8, <1>10, <1>11 DEF Holds, Free
<1>12. Exclusive' /\ HasSeenNone' /\ AtMostOne'
  BY <1>5, <1>11 DEF LiqInv, Exclusive, HasSeenNone, AtMostOne
<1>13. QED
  BY <1>9, <1>12 DEF LiqInv

LEMMA ChooseStep ==
  ASSUME LiqInv, NEW c \in Slots, NEW seen \in Readings, ChoosePosition(c, seen)
  PROVE  LiqInv'
<1>1. slots[c].step = "choose" /\ liqOrders' = liqOrders
  BY DEF ChoosePosition
<1>2. PICK v : /\ slots' = [slots EXCEPT ![c] = v]
               /\ \/ v = Free
                  \/ \E s \in Symbols : \E n :
                       v = [step |-> "place", portfolio |-> slots[c].portfolio,
                            now |-> slots[c].now, symbol |-> s, qty |-> n]
  <2>1. CASE slots' = [slots EXCEPT ![c] = Free]
    BY <2>1
  <2>2. CASE slots' # [slots EXCEPT ![c] = Free]
    <3>1. PICK s \in Symbols :
            slots' = [slots EXCEPT ![c] =
              [step |-> "place", portfolio |-> slots[c].portfolio, now |-> slots[c].now,
               symbol |-> s, qty |-> holdings[slots[c].portfolio].qty[s]]]
      BY <2>2 DEF ChoosePosition
    <3>2. QED
      BY <3>1
  <2>3. QED
    BY <2>1, <2>2
<1>3. CASE v = Free
  BY <1>1, <1>2, <1>3, ReleasedSlot
<1>4. CASE v # Free
  <2>1. /\ "step" \in DOMAIN v /\ "portfolio" \in DOMAIN v /\ v.step = "place"
        /\ v.portfolio = slots[c].portfolio
    BY <1>2, <1>4
  <2>2. /\ DOMAIN slots' = Slots /\ slots'[c] = v
        /\ \A d \in Slots : d # c => slots'[d] = slots[d]
    BY <1>2 DEF LiqInv, Shaped
  <2>3. Shaped'
    BY <1>1, <2>1, <2>2 DEF LiqInv, Shaped
  <2>4. \A d \in Slots : \A p : Holds(d, p)' => Holds(d, p)
    BY <1>1, <2>1, <2>2 DEF Holds
  <2>5. \A p : LiveLiquidations(p)' = LiveLiquidations(p)
    BY <1>1 DEF LiveLiquidations
  <2>6. QED
    BY <2>3, <2>4, <2>5 DEF LiqInv, Exclusive, HasSeenNone, AtMostOne
<1>5. QED
  BY <1>3, <1>4

\* The evaluation that inserts holds the row and has seen no live liquidation,
\* so no other evaluation of the portfolio relies on there being none.
LEMMA PlaceStep ==
  ASSUME LiqInv, NEW c \in Slots, PlaceLiquidation(c)
  PROVE  LiqInv'
<1>0. PICK p : p = slots[c].portfolio
  OBVIOUS
<1>1. Holds(c, p) /\ slots' = [slots EXCEPT ![c] = Free]
  BY <1>0 DEF PlaceLiquidation, Holds
<1>2. PICK o : /\ "status" \in DOMAIN o /\ o.portfolio = p
               /\ liqOrders' = liqOrders \/ liqOrders' = liqOrders \cup {o}
  <2> DEFINE order == [portfolio |-> p, symbol |-> slots[c].symbol,
                       round |-> Round(p, slots[c].symbol), qty |-> -slots[c].qty,
                       status |-> "RECEIVED"]
  <2>1. liqOrders' = liqOrders \/ liqOrders' = liqOrders \cup {order}
    BY <1>0 DEF PlaceLiquidation
  <2>2. "status" \in DOMAIN order /\ order.portfolio = p
    OBVIOUS
  <2>3. QED
    BY <2>1, <2>2
<1>3. /\ DOMAIN slots' = Slots /\ slots'[c] = Free
      /\ \A d \in Slots : d # c => slots'[d] = slots[d]
  BY <1>1 DEF LiqInv, Shaped
<1>4. Shaped'
  BY <1>2, <1>3 DEF LiqInv, Shaped
<1>5. ASSUME NEW d \in Slots, NEW q, Holds(d, q)' PROVE Holds(d, q) /\ q # p
  <2>1. d # c /\ Holds(d, q)
    BY <1>3, <1>5 DEF Holds, Free
  <2>2. QED
    BY <1>1, <2>1 DEF LiqInv, Exclusive
<1>6. LiveLiquidations(p) = {} /\ LiveLiquidations(p)' \subseteq {o}
  <2>1. LiveLiquidations(p) = {}
    BY <1>1 DEF LiqInv, HasSeenNone
  <2>2. QED
    BY <1>2, <2>1 DEF LiveLiquidations
<1>7. \A q : q # p => LiveLiquidations(q)' = LiveLiquidations(q)
  BY <1>2 DEF LiveLiquidations
<1>8. Exclusive' /\ HasSeenNone'
  BY <1>5, <1>7 DEF LiqInv, Exclusive, HasSeenNone
<1>9. AtMostOne'
  <2>1. SUFFICES ASSUME NEW q PROVE \A a, b \in LiveLiquidations(q)' : a = b
    BY DEF AtMostOne
  <2>2. CASE q = p
    BY <1>6, <2>2
  <2>3. CASE q # p
    BY <1>7, <2>3 DEF LiqInv, AtMostOne
  <2>4. QED
    BY <2>2, <2>3
<1>10. QED
  BY <1>4, <1>8, <1>9 DEF LiqInv

LEMMA LiqInvStep == LiqInv /\ [LiqNext]_liqVars => LiqInv'
<1> SUFFICES ASSUME LiqInv, [LiqNext]_liqVars PROVE LiqInv'
  OBVIOUS
<1>1. ASSUME UNCHANGED <<liqOrders, slots>> PROVE LiqInv'
  BY <1>1 DEF LiqInv, Shaped, Exclusive, HasSeenNone, AtMostOne, Holds, LiveLiquidations
<1>2. CASE \/ \E s \in Symbols : \E x \in RefPrices[s] : MarketTick(s, x)
           \/ \E p \in Margined, s \in Symbols, n \in TradeSizes : Trade(p, s, n)
           \/ \E p \in Margined : HandleFill(p)
           \/ SessionTurns \/ UNCHANGED liqVars
  <2>1. UNCHANGED <<liqOrders, slots>>
    <3>1. CASE \E s \in Symbols : \E x \in RefPrices[s] : MarketTick(s, x)
      BY <3>1 DEF MarketTick
    <3>2. CASE \E p \in Margined, s \in Symbols, n \in TradeSizes : Trade(p, s, n)
      BY <3>2 DEF Trade
    <3>3. CASE (\E p \in Margined : HandleFill(p)) \/ SessionTurns \/ UNCHANGED liqVars
      BY <3>3 DEF HandleFill, SessionTurns, liqVars
    <3>4. QED
      BY <1>2, <3>1, <3>2, <3>3
  <2>2. QED
    BY <1>1, <2>1
<1>3. CASE SecondPasses
  BY <1>3, SecondStep
<1>4. ASSUME NEW c \in Slots, NEW j \in queue, TakeJob(c, j) PROVE LiqInv'
  <2>1. CASE slots' = slots
    BY <1>1, <1>4, <2>1 DEF TakeJob
  <2>2. CASE slots' # slots
    <3>1. PICK v : v = [step |-> "begin", portfolio |-> j.portfolio, now |-> j.now]
      OBVIOUS
    <3>2. /\ slots' = [slots EXCEPT ![c] = v] /\ liqOrders' = liqOrders
          /\ "step" \in DOMAIN v /\ "portfolio" \in DOMAIN v
          /\ v.step \notin {"free", "choose", "place"}
      BY <1>4, <2>2, <3>1 DEF TakeJob
    <3>3. QED
      BY <3>2, ReleasedSlot
  <2>3. QED
    BY <2>1, <2>2
<1>5. ASSUME NEW c \in Slots, EvaluationFails(c) PROVE LiqInv'
  BY <1>5, ReleasedSlot DEF EvaluationFails
<1>6. ASSUME NEW c \in Slots, Evaluate(c) PROVE LiqInv'
  BY <1>4, <1>6, AssessStep, ChooseStep, PlaceStep DEF Evaluate
<1>7. QED
  BY <1>2, <1>3, <1>5, <1>6 DEF LiqNext

\* However many evaluations of a portfolio run at the same time, and whatever
\* prices do between their reads, one liquidation of it at most is under way
\* (the lock, the check and the insert of LiquidationWorker.evaluatePortfolio).
THEOREM NeverTwoLiquidations == LiqSpec => []OneLiveLiquidation
<1>1. LiqInv => OneLiveLiquidation
  <2> SUFFICES ASSUME LiqInv, NEW p \in Margined
               PROVE  Cardinality(LiveLiquidations(p)) <= 1
    BY DEF OneLiveLiquidation
  <2>1. CASE LiveLiquidations(p) = {}
    BY <2>1, FS_EmptySet
  <2>2. CASE LiveLiquidations(p) # {}
    <3>1. PICK o : LiveLiquidations(p) = {o}
      BY <2>2 DEF LiqInv, AtMostOne
    <3>2. QED
      BY <3>1, FS_Singleton
  <2>3. QED
    BY <2>1, <2>2
<1>2. QED
  BY <1>1, LiqInvInit, LiqInvStep, PTL DEF LiqSpec

-----------------------------------------------------------------------------
(***************************************************************************)
(* Types.  The number of a round is a count of orders, of which there are  *)
(* finitely many.                                                          *)
(***************************************************************************)

LiqTypeInv == LiqTypeOK /\ IsFiniteSet(liqOrders) /\ prices \in [Symbols -> Nat \ {0}]

LiqOrder == [portfolio : Margined, symbol : Symbols, round : 0 .. MaxRounds - 1,
             qty : Int, status : {"RECEIVED", "CANCELLED"}]

LEMMA RefPricesArePrices ==
  ASSUME NEW s \in Symbols, NEW x \in RefPrices[s]
  PROVE  x \in Nat \ {0}
BY LiquidationAssumption

LEMMA LiqTypeInit == LiqInit => LiqTypeInv
<1> SUFFICES ASSUME LiqInit PROVE LiqTypeInv
  OBVIOUS
<1>1. \A s \in Symbols : prices[s] \in RefPrices[s]
  BY LiquidationAssumption DEF LiqInit
<1>2. prices \in [Symbols -> Nat \ {0}]
  <2>1. \A s \in Symbols : prices[s] \in Nat \ {0}
    BY <1>1, RefPricesArePrices
  <2>2. QED
    BY <2>1 DEF LiqInit
<1>3. liqOrders = {} /\ IsFiniteSet(liqOrders)
  BY FS_EmptySet DEF LiqInit
<1>4. holdings \in [Margined -> Holding] /\ slots \in [Slots -> {Free} \cup Evaluation \cup Placing]
      /\ filled = {} /\ queue = {} /\ stuck = {} /\ trading \in BOOLEAN
      /\ trades \in 0 .. MaxTrades /\ breaks \in 0 .. MaxBreaks
      /\ averaged \in [Margined -> Nat]
  BY LiquidationAssumption DEF LiqInit
<1>5. QED
  BY <1>1, <1>2, <1>3, <1>4 DEF LiqTypeInv, LiqTypeOK

\* The nearest whole number to a quotient: half a unit off at most.
LEMMA RoundedIsNear ==
  ASSUME NEW a \in Int, NEW b \in Nat \ {0}
  PROVE  /\ Rounded(a, b) \in Int
         /\ 2 * (Rounded(a, b) * b) - 2 * a <= b
         /\ 2 * a - 2 * (Rounded(a, b) * b) <= b
<1>1. PICK n \in Int, c \in Nat \ {0} : n = 2 * a + b /\ c = 2 * b
  OBVIOUS
<1>2. n \div c \in Int /\ n % c \in 0 .. c - 1 /\ n = c * (n \div c) + (n % c)
  BY SMT
<1>3. PICK q \in Int, r \in Int : q = n \div c /\ r = n % c
  BY <1>2
<1>4. 2 * a + b = 2 * (b * q) + r /\ 0 <= r /\ r < 2 * b
  BY <1>1, <1>2, <1>3
<1>5. Rounded(a, b) = q
  BY <1>1, <1>3 DEF Rounded
<1>6. PICK k \in Int : k = q * b /\ k = b * q
  OBVIOUS
<1>7. QED
  BY <1>4, <1>5, <1>6

LEMMA SizesAreWhole == \A n \in TradeSizes : n \in Int /\ n # 0
BY LiquidationAssumption

LEMMA MagnitudeType == \A n \in Int : Magnitude(n) \in Nat /\ (n # 0 => Magnitude(n) # 0)
BY DEF Magnitude

\* A fill leaves whole numbers behind.
LEMMA FillTypes ==
  ASSUME NEW h \in Holding, NEW s \in Symbols, NEW n \in Int, n # 0, NEW price \in Int
  PROVE  RealizedPnl(h, s, n, price) \in Int /\ NewAverage(h, s, n, price) \in Int
<1>1. PICK q \in Int, e \in Int : q = h.qty[s] /\ e = h.entry[s]
  BY DEF Holding
<1>2. PICK held \in Nat, size \in Nat \ {0} : held = Magnitude(q) /\ size = Magnitude(n)
  BY MagnitudeType
<1>3. RealizedPnl(h, s, n, price) \in Int
  <2>1. Closed(h, s, n) \in Int /\ Gain(h, s, price) \in Int
    BY <1>1, <1>2 DEF Closed, Gain
  <2>2. QED
    BY <2>1 DEF RealizedPnl
<1>4. NewAverage(h, s, n, price) \in Int
  <2>1. PICK a \in Int, b \in Nat \ {0} : a = held * e + size * price /\ b = held + size
    OBVIOUS
  <2>2. Rounded(a, b) \in Int
    BY RoundedIsNear
  <2>3. QED
    BY <1>1, <1>2, <2>1, <2>2 DEF NewAverage
<1>5. QED
  BY <1>3, <1>4

\* m is what a fill of n at a price makes of the holding h.
FilledTo(h, m, s, n, price) ==
  /\ m.cash = h.cash - n * price
  /\ m.realized = h.realized + RealizedPnl(h, s, n, price)
  /\ m.qty = [h.qty EXCEPT ![s] = h.qty[s] + n]
  /\ m.entry = [h.entry EXCEPT ![s] = NewAverage(h, s, n, price)]

LEMMA Traded ==
  ASSUME LiqTypeInv, NEW p \in Margined, NEW s \in Symbols, NEW n \in TradeSizes, Trade(p, s, n)
  PROVE  \E h \in Holding, m \in Holding, price \in Int :
           /\ h = holdings[p] /\ holdings' = [holdings EXCEPT ![p] = m]
           /\ FilledTo(h, m, s, n, price)
<1>1. PICK h \in Holding : h = holdings[p]
  BY DEF LiqTypeInv, LiqTypeOK
<1>2. PICK price \in Int :
        price = IF n > 0 THEN prices[s] + HalfSpread[s] ELSE prices[s] - HalfSpread[s]
  BY ValuationAssumption DEF LiqTypeInv
<1>3. n \in Int /\ n # 0
  BY SizesAreWhole
<1>4. PICK m : m = [cash |-> h.cash - n * price,
                    realized |-> h.realized + RealizedPnl(h, s, n, price),
                    qty |-> [h.qty EXCEPT ![s] = h.qty[s] + n],
                    entry |-> [h.entry EXCEPT ![s] = NewAverage(h, s, n, price)]]
  OBVIOUS
<1>5. /\ h.cash \in Int /\ h.realized \in Int
      /\ h.qty \in [Symbols -> Int] /\ h.entry \in [Symbols -> Int]
  BY DEF Holding
<1>6. RealizedPnl(h, s, n, price) \in Int /\ NewAverage(h, s, n, price) \in Int
  BY <1>3, FillTypes
<1>7. m \in Holding
  <2>1. h.cash - n * price \in Int
    BY <1>3, <1>5
  <2>2. h.realized + RealizedPnl(h, s, n, price) \in Int
    BY <1>5, <1>6
  <2>3. [h.qty EXCEPT ![s] = h.qty[s] + n] \in [Symbols -> Int]
    BY <1>3, <1>5
  <2>4. [h.entry EXCEPT ![s] = NewAverage(h, s, n, price)] \in [Symbols -> Int]
    BY <1>5, <1>6
  <2>5. QED
    BY <1>4, <2>1, <2>2, <2>3, <2>4 DEF Holding
<1>8. holdings' = [holdings EXCEPT ![p] = m]
  BY <1>1, <1>2, <1>4 DEF Trade
<1>9. FilledTo(h, m, s, n, price)
  BY <1>4 DEF FilledTo
<1>10. QED
  BY <1>1, <1>7, <1>8, <1>9

LEMMA TradeType ==
  ASSUME LiqTypeInv, NEW p \in Margined, NEW s \in Symbols, NEW n \in TradeSizes, Trade(p, s, n)
  PROVE  holdings' \in [Margined -> Holding] /\ averaged' \in [Margined -> Nat]
<1>1. holdings' \in [Margined -> Holding]
  <2>1. PICK m \in Holding : holdings' = [holdings EXCEPT ![p] = m]
    BY Traded
  <2>2. QED
    BY <2>1 DEF LiqTypeInv, LiqTypeOK
<1>2. averaged' \in [Margined -> Nat]
  <2>1. PICK k \in Nat : averaged' = [averaged EXCEPT ![p] = @ + k]
    <3>1. holdings[p].qty[s] + n \in Int
      BY SizesAreWhole DEF LiqTypeInv, LiqTypeOK, Holding
    <3>2. Magnitude(holdings[p].qty[s] + n) \in Nat
      BY <3>1, MagnitudeType
    <3>3. QED
      BY <3>2 DEF Trade
  <2>2. QED
    BY <2>1 DEF LiqTypeInv, LiqTypeOK
<1>3. QED
  BY <1>1, <1>2

LEMMA EnqueueType ==
  ASSUME LiqTypeInv, NEW ps, ps \subseteq Margined, Enqueue(ps)
  PROVE  queue' \subseteq [portfolio : Margined, now : BOOLEAN]
<1>1. \A p \in Margined : [portfolio |-> p, now |-> TRUE] \in [portfolio : Margined, now : BOOLEAN]
  OBVIOUS
<1>2. queue \subseteq [portfolio : Margined, now : BOOLEAN]
  BY DEF LiqTypeInv, LiqTypeOK
<1>3. QED
  BY <1>1, <1>2 DEF Enqueue

LEMMA LiqTypeStep == LiqTypeInv /\ [LiqNext]_liqVars => LiqTypeInv'
<1> SUFFICES ASSUME LiqTypeInv, [LiqNext]_liqVars PROVE LiqTypeInv'
  OBVIOUS
<1> USE DEF LiqTypeInv, LiqTypeOK
<1>0. /\ MaxTrades \in Nat /\ MaxRounds \in Nat /\ MaxBreaks \in Nat
      /\ trades \in Int /\ breaks \in Int
  BY LiquidationAssumption
<1>1. ASSUME NEW s \in Symbols, NEW x \in RefPrices[s], MarketTick(s, x) PROVE LiqTypeInv'
  <2>1. prices' \in [Symbols -> Nat \ {0}] /\ \A t \in Symbols : prices'[t] \in RefPrices[t]
    BY <1>1, RefPricesArePrices DEF MarketTick
  <2>2. queue' \subseteq [portfolio : Margined, now : BOOLEAN] /\ breaks' \in 0 .. MaxBreaks
    <3>1. CASE UNCHANGED queue
      BY <1>0, <1>1, <3>1 DEF MarketTick
    <3>2. CASE Enqueue({p \in Margined : holdings[p].qty[s] # 0}) /\ UNCHANGED breaks
      BY <3>2, EnqueueType
    <3>3. QED
      BY <1>1, <3>1, <3>2 DEF MarketTick
  <2>3. QED
    BY <1>1, <2>1, <2>2 DEF MarketTick
<1>2. ASSUME NEW p \in Margined, NEW s \in Symbols, NEW n \in TradeSizes, Trade(p, s, n)
      PROVE  LiqTypeInv'
  <2>1. holdings' \in [Margined -> Holding] /\ averaged' \in [Margined -> Nat]
    BY <1>2, TradeType
  <2>2. filled' \subseteq Margined /\ trades' \in 0 .. MaxTrades
    BY <1>0, <1>2 DEF Trade
  <2>3. UNCHANGED <<prices, liqOrders, queue, stuck, slots, trading, breaks>>
    BY <1>2 DEF Trade
  <2>4. QED
    BY <2>1, <2>2, <2>3
<1>3. ASSUME NEW p \in Margined, HandleFill(p) PROVE LiqTypeInv'
  <2>1. queue' \subseteq [portfolio : Margined, now : BOOLEAN] /\ breaks' \in 0 .. MaxBreaks
    <3>1. CASE UNCHANGED queue
      BY <1>0, <1>3, <3>1 DEF HandleFill
    <3>2. CASE Enqueue({p}) /\ UNCHANGED breaks
      BY <3>2, EnqueueType
    <3>3. QED
      BY <1>3, <3>1, <3>2 DEF HandleFill
  <2>2. QED
    BY <1>3, <2>1 DEF HandleFill
<1>4. CASE SecondPasses
  <2>1. queue' \subseteq [portfolio : Margined, now : BOOLEAN]
    <3>1. \A j \in [portfolio : Margined, now : BOOLEAN] :
            [j EXCEPT !.now = FALSE] \in [portfolio : Margined, now : BOOLEAN]
      OBVIOUS
    <3>2. queue' = {[j EXCEPT !.now = FALSE] : j \in queue}
      BY <1>4 DEF SecondPasses
    <3>3. QED
      BY <3>1, <3>2
  <2>2. slots' \in [Slots -> {Free} \cup Evaluation \cup Placing]
    <3>1. ASSUME NEW c \in Slots, slots[c] # Free
          PROVE  [slots[c] EXCEPT !.now = FALSE] \in Evaluation \cup Placing
      <4>1. slots[c] \in Evaluation \/ slots[c] \in Placing
        BY <3>1
      <4>2. \A v \in Evaluation : [v EXCEPT !.now = FALSE] \in Evaluation
        BY DEF Evaluation
      <4>3. \A v \in Placing : [v EXCEPT !.now = FALSE] \in Placing
        BY DEF Placing
      <4>4. QED
        BY <4>1, <4>2, <4>3
    <3>2. QED
      BY <1>4, <3>1 DEF SecondPasses
  <2>3. QED
    BY <1>4, <2>1, <2>2 DEF SecondPasses
<1>5. CASE SessionTurns
  BY <1>0, <1>5 DEF SessionTurns
<1>6. ASSUME NEW c \in Slots, NEW j \in queue, TakeJob(c, j) PROVE LiqTypeInv'
  <2>1. slots' \in [Slots -> {Free} \cup Evaluation \cup Placing]
    BY <1>6 DEF TakeJob, Evaluation
  <2>2. QED
    BY <1>6, <2>1 DEF TakeJob
<1>7. ASSUME NEW c \in Slots, NEW seen \in Readings, Assess(c, seen) PROVE LiqTypeInv'
  <2>1. breaks' \in 0 .. MaxBreaks
    BY <1>0, <1>7 DEF Assess, Counted, Readings
  <2>2. slots[c] \in Evaluation
    BY <1>7 DEF Assess, Free, Placing
  <2>3. [slots[c] EXCEPT !.step = "choose"] \in Evaluation
    BY <2>2 DEF Evaluation
  <2>4. slots' \in [Slots -> {Free} \cup Evaluation \cup Placing]
    BY <1>7, <2>3 DEF Assess
  <2>5. liqOrders' \subseteq LiqOrder /\ IsFiniteSet(liqOrders')
    <3> DEFINE L == LiveLiquidations(slots[c].portfolio)
               C == {[o EXCEPT !.status = "CANCELLED"] : o \in L}
    <3>1. L \subseteq liqOrders
      BY DEF LiveLiquidations
    <3>2. liqOrders' = liqOrders \/ liqOrders' = (liqOrders \ L) \cup C
      BY <1>7 DEF Assess
    <3> HIDE DEF L
    <3>3. C \subseteq LiqOrder
      BY <3>1 DEF LiqOrder
    <3>4. IsFiniteSet(L) /\ IsFiniteSet(liqOrders \ L)
      BY <3>1, FS_Subset
    <3>5. IsFiniteSet(C)
      <4>0. PICK f : f = [o \in L |-> [o EXCEPT !.status = "CANCELLED"]]
        OBVIOUS
      <4>1. IsFiniteSet({f[o] : o \in L})
        BY <3>4, <4>0, FiniteImage
      <4>2. {f[o] : o \in L} = C
        BY <4>0
      <4>3. QED
        BY <4>1, <4>2
    <3> HIDE DEF C
    <3>6. IsFiniteSet((liqOrders \ L) \cup C)
      BY <3>4, <3>5, FS_Union
    <3>7. QED
      BY <3>2, <3>3, <3>6 DEF LiqOrder
  <2>6. QED
    BY <1>7, <2>1, <2>4, <2>5 DEF Assess, LiqOrder
<1>8. ASSUME NEW c \in Slots, NEW seen \in Readings, ChoosePosition(c, seen) PROVE LiqTypeInv'
  <2>1. breaks' \in 0 .. MaxBreaks
    BY <1>0, <1>8 DEF ChoosePosition, Counted, Readings
  <2>2. slots[c] \in Evaluation /\ slots[c].portfolio \in Margined /\ slots[c].now \in BOOLEAN
    BY <1>8 DEF ChoosePosition, Free, Placing, Evaluation
  <2>3. holdings[slots[c].portfolio].qty \in [Symbols -> Int]
    BY <2>2 DEF Holding
  <2>4. ASSUME NEW s \in Symbols
        PROVE  [step |-> "place", portfolio |-> slots[c].portfolio, now |-> slots[c].now,
                symbol |-> s, qty |-> holdings[slots[c].portfolio].qty[s]] \in Placing
    BY <2>2, <2>3 DEF Placing
  <2>5. slots' \in [Slots -> {Free} \cup Evaluation \cup Placing]
    <3>1. PICK v : /\ slots' = [slots EXCEPT ![c] = v] /\ v \in {Free} \cup Placing
      <4>1. CASE slots' = [slots EXCEPT ![c] = Free]
        BY <4>1
      <4>2. CASE slots' # [slots EXCEPT ![c] = Free]
        <5>1. PICK s \in Symbols : slots' = [slots EXCEPT ![c] =
                [step |-> "place", portfolio |-> slots[c].portfolio, now |-> slots[c].now,
                 symbol |-> s, qty |-> holdings[slots[c].portfolio].qty[s]]]
          BY <1>8, <4>2 DEF ChoosePosition
        <5>2. QED
          BY <2>4, <5>1
      <4>3. QED
        BY <4>1, <4>2
    <3>2. QED
      BY <3>1
  <2>6. QED
    BY <1>8, <2>1, <2>5 DEF ChoosePosition
<1>9. ASSUME NEW c \in Slots, PlaceLiquidation(c) PROVE LiqTypeInv'
  <2> DEFINE v == slots[c]
             round == Round(v.portfolio, v.symbol)
             order == [portfolio |-> v.portfolio, symbol |-> v.symbol, round |-> round,
                       qty |-> -v.qty, status |-> "RECEIVED"]
  <2>1. v \in Placing
    BY <1>9 DEF PlaceLiquidation, Free, Evaluation
  <2>2. v.portfolio \in Margined /\ v.symbol \in Symbols /\ v.qty \in Int /\ -v.qty \in Int
    BY <2>1 DEF Placing
  <2>3. round \in 0 .. MaxRounds - 1
    <3>1. {o \in liqOrders : o.portfolio = v.portfolio /\ o.symbol = v.symbol} \subseteq liqOrders
      OBVIOUS
    <3>2. round \in Nat
      BY <3>1, FS_Subset, FS_CardinalityType DEF Round
    <3>3. round < MaxRounds
      BY <1>9 DEF PlaceLiquidation
    <3>4. QED
      BY <1>0, <3>2, <3>3
  <2>4. order \in LiqOrder
    BY <2>2, <2>3 DEF LiqOrder
  <2>5. liqOrders' = liqOrders \/ liqOrders' = liqOrders \cup {order}
    BY <1>9 DEF PlaceLiquidation
  <2> HIDE DEF order
  <2>6. liqOrders' \subseteq LiqOrder /\ IsFiniteSet(liqOrders')
    BY <2>4, <2>5, FS_AddElement DEF LiqOrder
  <2>7. stuck' \subseteq Margined /\ slots' \in [Slots -> {Free} \cup Evaluation \cup Placing]
    BY <1>9, <2>2 DEF PlaceLiquidation
  <2>8. QED
    BY <1>9, <2>6, <2>7 DEF PlaceLiquidation, LiqOrder
<1>10. ASSUME NEW c \in Slots, EvaluationFails(c) PROVE LiqTypeInv'
  <2>1. slots[c] \in Evaluation \cup Placing
    BY <1>10 DEF EvaluationFails
  <2>2. slots[c].portfolio \in Margined
    BY <2>1 DEF Evaluation, Placing
  <2>3. stuck' \subseteq Margined /\ slots' \in [Slots -> {Free} \cup Evaluation \cup Placing]
        /\ breaks' \in 0 .. MaxBreaks
    BY <1>0, <1>10, <2>2 DEF EvaluationFails
  <2>4. QED
    BY <1>10, <2>3 DEF EvaluationFails
<1>11. CASE UNCHANGED liqVars
  BY <1>11 DEF liqVars
<1>12. QED
  BY <1>1, <1>2, <1>3, <1>4, <1>5, <1>6, <1>7, <1>8, <1>9, <1>10, <1>11 DEF LiqNext, Evaluate

LEMMA LiqTypeInvariant == LiqSpec => []LiqTypeInv
BY LiqTypeInit, LiqTypeStep, PTL DEF LiqSpec

\* Holdings, prices, the queue of evaluations and the orders they place keep
\* their types, for any number of portfolios, symbols and evaluations.
THEOREM LiqTypeCorrect == LiqSpec => []LiqTypeOK
<1>1. LiqTypeInv => LiqTypeOK
  BY DEF LiqTypeInv
<1>2. QED
  BY <1>1, LiqTypeInvariant, PTL

-----------------------------------------------------------------------------
(***************************************************************************)
(* The books.  What the positions of a holding cost, with its cash, is the *)
(* capital it began with and what it has realized since, but for what the  *)
(* rounding of averages has made of it.                                    *)
(***************************************************************************)

Cost(h) == [s \in Symbols |-> h.qty[s] * h.entry[s]]

Off(h, first) ==
  h.cash + SumOf(Cost(h)) - (first.cash + SumOf(Cost(first)) + (h.realized - first.realized))

BooksBalance ==
  \A p \in Margined : /\ 2 * Off(holdings[p], Opening[p]) <= averaged[p]
                      /\ -(2 * Off(holdings[p], Opening[p])) <= averaged[p]

LEMMA CostType ==
  ASSUME NEW h \in Holding
  PROVE  Cost(h) \in [Symbols -> Int] /\ SumOf(Cost(h)) \in Int
<1>1. h.qty \in [Symbols -> Int] /\ h.entry \in [Symbols -> Int]
  BY DEF Holding
<1>2. Cost(h) \in [Symbols -> Int]
  BY <1>1 DEF Cost
<1>3. QED
  BY <1>2, ValuationAssumption, SumIsInt

\* What a fill pays, what the position then cost and what it realized add up,
\* but for the rounding of an average.
LEMMA FillAddsUp ==
  ASSUME NEW h \in Holding, NEW s \in Symbols, NEW n \in Int, n # 0, NEW price \in Int,
         NEW d \in Int, NEW u \in Int,
         d = (h.qty[s] + n) * NewAverage(h, s, n, price) - h.qty[s] * h.entry[s]
               - n * price - RealizedPnl(h, s, n, price),
         u = IF Averages(h, s, n) THEN Magnitude(h.qty[s] + n) ELSE 0
  PROVE  2 * d <= u /\ -(2 * d) <= u
<1>1. PICK q \in Int, e \in Int : q = h.qty[s] /\ e = h.entry[s]
  BY DEF Holding
<1>2. PICK new \in Int, gain \in Int :
        new = NewAverage(h, s, n, price) /\ gain = RealizedPnl(h, s, n, price)
  BY FillTypes
<1>3. d = (q + n) * new - q * e - n * price - gain
  BY <1>1, <1>2
<1>4. CASE q > 0 /\ n > 0
  <2>1. q * n > 0
    BY <1>4
  <2>2. PICK a \in Int, b \in Nat \ {0} : a = q * e + n * price /\ b = q + n
    BY <1>4
  <2>3. new = Rounded(a, b) /\ u = b
    BY <1>1, <1>2, <1>4, <2>1, <2>2 DEF NewAverage, Averages, Magnitude
  <2>4. gain = 0
    <3>1. Closed(h, s, n) = 0 /\ price - e \in Int
      BY <1>1, <2>1 DEF Closed
    <3>2. QED
      BY <1>1, <1>2, <1>4, <3>1 DEF RealizedPnl, Gain
  <2>5. PICK k \in Int : k = new * b
    OBVIOUS
  <2>6. d = k - a
    <3>1. (q + n) * new = k
      BY <2>2, <2>5
    <3>2. QED
      BY <1>3, <2>2, <2>4, <3>1
  <2>7. 2 * k - 2 * a <= b /\ 2 * a - 2 * k <= b
    BY <2>3, <2>5, RoundedIsNear
  <2>8. QED
    BY <2>3, <2>6, <2>7
<1>5. CASE q < 0 /\ n < 0
  <2>1. q * n > 0
    BY <1>5
  <2>2. PICK a \in Int, b \in Nat \ {0} : a = (-q) * e + (-n) * price /\ b = (-q) + (-n)
    BY <1>5
  <2>3. new = Rounded(a, b) /\ u = b
    <3>1. Magnitude(q) = -q /\ Magnitude(n) = -n /\ Magnitude(q + n) = b
      BY <1>5, <2>2 DEF Magnitude
    <3>2. Averages(h, s, n)
      BY <1>1, <2>1 DEF Averages
    <3>3. QED
      BY <1>1, <1>2, <2>2, <3>1, <3>2 DEF NewAverage
  <2>4. gain = 0
    <3>1. Closed(h, s, n) = 0 /\ e - price \in Int
      BY <1>1, <2>1 DEF Closed
    <3>2. QED
      BY <1>1, <1>2, <1>5, <3>1 DEF RealizedPnl, Gain
  <2>5. PICK k \in Int : k = new * b
    OBVIOUS
  <2>6. d = a - k
    <3>1. (q + n) * new = -k
      BY <2>2, <2>5
    <3>2. QED
      BY <1>3, <2>2, <2>4, <3>1
  <2>7. 2 * k - 2 * a <= b /\ 2 * a - 2 * k <= b
    BY <2>3, <2>5, RoundedIsNear
  <2>8. QED
    BY <2>3, <2>6, <2>7
<1>6. CASE q = 0
  <2>1. q * n = 0
    BY <1>6
  <2>2. new = price /\ u = 0
    BY <1>1, <1>2, <1>6, <2>1 DEF NewAverage, Averages
  <2>3. gain = 0
    <3>1. Closed(h, s, n) = 0 /\ e - price \in Int
      BY <1>1, <2>1 DEF Closed
    <3>2. QED
      BY <1>1, <1>2, <1>6, <3>1 DEF RealizedPnl, Gain
  <2>4. QED
    BY <1>3, <1>6, <2>2, <2>3
<1>7. CASE q > 0 /\ n < 0
  <2>1. q * n < 0
    BY <1>7
  <2>2. u = 0
    BY <1>1, <2>1 DEF Averages
  <2>3. CASE -n <= q
    <3>1. new = e
      BY <1>1, <1>2, <1>7, <2>1, <2>3 DEF NewAverage, Averages, Magnitude
    <3>2. Closed(h, s, n) = -n /\ Gain(h, s, price) = price - e
      BY <1>1, <1>7, <2>1, <2>3 DEF Closed, Gain, Magnitude
    <3>3. gain = (-n) * (price - e)
      BY <1>2, <3>2 DEF RealizedPnl
    <3>4. d = 0
      <4>1. PICK ne \in Int, qe \in Int, np \in Int :
              ne = n * e /\ qe = q * e /\ np = n * price
        OBVIOUS
      <4>2. (q + n) * e = qe + ne
        BY <4>1
      <4>3. d = (qe + ne) - qe - np - gain
        BY <1>3, <3>1, <4>1, <4>2
      <4>4. gain = ne - np
        BY <3>3, <4>1
      <4>5. QED
        BY <4>3, <4>4
    <3>5. QED
      BY <2>2, <3>4
  <2>4. CASE ~(-n <= q)
    <3>1. new = price
      BY <1>1, <1>2, <1>7, <2>1, <2>4 DEF NewAverage, Averages, Magnitude
    <3>2. Closed(h, s, n) = q /\ Gain(h, s, price) = price - e
      BY <1>1, <1>7, <2>1, <2>4 DEF Closed, Gain, Magnitude
    <3>3. gain = q * (price - e)
      BY <1>2, <3>2 DEF RealizedPnl
    <3>4. d = 0
      <4>1. PICK qp \in Int, qe \in Int, np \in Int :
              qp = q * price /\ qe = q * e /\ np = n * price
        OBVIOUS
      <4>2. (q + n) * price = qp + np
        BY <4>1
      <4>3. d = (qp + np) - qe - np - gain
        BY <1>3, <3>1, <4>1, <4>2
      <4>4. gain = qp - qe
        BY <3>3, <4>1
      <4>5. QED
        BY <4>3, <4>4
    <3>5. QED
      BY <2>2, <3>4
  <2>5. QED
    BY <2>3, <2>4
<1>8. CASE q < 0 /\ n > 0
  <2>1. q * n < 0
    BY <1>8
  <2>2. u = 0
    BY <1>1, <2>1 DEF Averages
  <2>3. CASE n <= -q
    <3>1. new = e
      BY <1>1, <1>2, <1>8, <2>1, <2>3 DEF NewAverage, Averages, Magnitude
    <3>2. Closed(h, s, n) = n /\ Gain(h, s, price) = e - price
      BY <1>1, <1>8, <2>1, <2>3 DEF Closed, Gain, Magnitude
    <3>3. gain = n * (e - price)
      BY <1>2, <3>2 DEF RealizedPnl
    <3>4. d = 0
      <4>1. PICK ne \in Int, qe \in Int, np \in Int :
              ne = n * e /\ qe = q * e /\ np = n * price
        OBVIOUS
      <4>2. (q + n) * e = qe + ne
        BY <4>1
      <4>3. d = (qe + ne) - qe - np - gain
        BY <1>3, <3>1, <4>1, <4>2
      <4>4. gain = ne - np
        BY <3>3, <4>1
      <4>5. QED
        BY <4>3, <4>4
    <3>5. QED
      BY <2>2, <3>4
  <2>4. CASE ~(n <= -q)
    <3>1. new = price
      BY <1>1, <1>2, <1>8, <2>1, <2>4 DEF NewAverage, Averages, Magnitude
    <3>2. Closed(h, s, n) = -q /\ Gain(h, s, price) = e - price
      BY <1>1, <1>8, <2>1, <2>4 DEF Closed, Gain, Magnitude
    <3>3. gain = (-q) * (e - price)
      BY <1>2, <3>2 DEF RealizedPnl
    <3>4. d = 0
      <4>1. PICK qp \in Int, qe \in Int, np \in Int :
              qp = q * price /\ qe = q * e /\ np = n * price
        OBVIOUS
      <4>2. (q + n) * price = qp + np
        BY <4>1
      <4>3. d = (qp + np) - qe - np - gain
        BY <1>3, <3>1, <4>1, <4>2
      <4>4. gain = qp - qe
        BY <3>3, <4>1
      <4>5. QED
        BY <4>3, <4>4
    <3>5. QED
      BY <2>2, <3>4
  <2>5. QED
    BY <2>3, <2>4
<1>9. QED
  BY <1>4, <1>5, <1>6, <1>7, <1>8

\* A trade moves between cash, cost and what is realized.
LEMMA TradeIsBooked ==
  ASSUME NEW h \in Holding, NEW m \in Holding, NEW s \in Symbols, NEW n \in Int, n # 0,
         NEW price \in Int, NEW first \in Holding,
         FilledTo(h, m, s, n, price)
  PROVE  /\ Off(h, first) \in Int
         /\ Off(m, first) = Off(h, first) + ((h.qty[s] + n) * NewAverage(h, s, n, price)
              - h.qty[s] * h.entry[s] - n * price - RealizedPnl(h, s, n, price))
<1>1. /\ h.cash \in Int /\ h.realized \in Int /\ h.qty \in [Symbols -> Int]
      /\ h.entry \in [Symbols -> Int] /\ m.cash \in Int /\ m.realized \in Int
      /\ first.cash \in Int /\ first.realized \in Int
  BY DEF Holding
<1>2. /\ Cost(h) \in [Symbols -> Int] /\ Cost(m) \in [Symbols -> Int] /\ IsFiniteSet(Symbols)
      /\ SumOf(Cost(h)) \in Int /\ SumOf(Cost(m)) \in Int /\ SumOf(Cost(first)) \in Int
  BY CostType, ValuationAssumption
<1>3. \A t \in Symbols \ {s} : Cost(m)[t] = Cost(h)[t]
  BY <1>1 DEF Cost, FilledTo
<1>4. SumOf(Cost(m)) = SumOf(Cost(h)) + (Cost(m)[s] - Cost(h)[s])
  BY <1>2, <1>3, SumChanges
<1>5. PICK new \in Int, gain \in Int :
        new = NewAverage(h, s, n, price) /\ gain = RealizedPnl(h, s, n, price)
  BY FillTypes
<1>6. PICK old \in Int, cost \in Int, paid \in Int :
        old = h.qty[s] * h.entry[s] /\ cost = (h.qty[s] + n) * new /\ paid = n * price
  BY <1>1
<1>7. Cost(m)[s] = cost /\ Cost(h)[s] = old
  BY <1>1, <1>5, <1>6 DEF Cost, FilledTo
<1>8. PICK x \in Int, y \in Int, z \in Int :
        x = SumOf(Cost(h)) /\ y = SumOf(Cost(m)) /\ z = SumOf(Cost(first))
  BY <1>2
<1>9. Off(h, first) = h.cash + x - (first.cash + z + (h.realized - first.realized))
  BY <1>8 DEF Off
<1>10. Off(m, first) = m.cash + y - (first.cash + z + (m.realized - first.realized))
  BY <1>8 DEF Off
<1>11. m.cash = h.cash - paid /\ m.realized = h.realized + gain /\ y = x + (cost - old)
  BY <1>4, <1>5, <1>6, <1>7, <1>8 DEF FilledTo
<1>12. QED
  BY <1>1, <1>5, <1>6, <1>9, <1>10, <1>11

LEMMA BooksStep == LiqTypeInv /\ BooksBalance /\ [LiqNext]_liqVars => BooksBalance'
<1> SUFFICES ASSUME LiqTypeInv, BooksBalance, [LiqNext]_liqVars PROVE BooksBalance'
  OBVIOUS
<1>1. CASE UNCHANGED <<holdings, averaged>>
  BY <1>1 DEF BooksBalance
<1>2. ASSUME NEW p \in Margined, NEW s \in Symbols, NEW n \in TradeSizes, Trade(p, s, n)
      PROVE  BooksBalance'
  <2>1. n \in Int /\ n # 0
    BY SizesAreWhole
  <2>2. PICK h \in Holding, m \in Holding, price \in Int :
           /\ h = holdings[p] /\ holdings' = [holdings EXCEPT ![p] = m]
           /\ FilledTo(h, m, s, n, price)
    BY <1>2, Traded
  <2>3. PICK first \in Holding : first = Opening[p]
    BY LiquidationAssumption
  <2>4. PICK u \in Int : u = IF Averages(h, s, n) THEN Magnitude(h.qty[s] + n) ELSE 0
    BY <2>1, MagnitudeType DEF Holding
  <2>5. PICK d \in Int : d = (h.qty[s] + n) * NewAverage(h, s, n, price)
              - h.qty[s] * h.entry[s] - n * price - RealizedPnl(h, s, n, price)
    BY <2>1, FillTypes DEF Holding
  <2>6. 2 * d <= u /\ -(2 * d) <= u
    BY <2>1, <2>4, <2>5, FillAddsUp
  <2>7. Off(h, first) \in Int /\ Off(m, first) = Off(h, first) + d
    BY <2>1, <2>2, <2>5, TradeIsBooked
  <2>8. averaged \in [Margined -> Nat] /\ averaged' = [averaged EXCEPT ![p] = averaged[p] + u]
    BY <1>2, <2>2, <2>4 DEF Trade, LiqTypeInv, LiqTypeOK
  <2>9. PICK v \in Nat, o \in Int : v = averaged[p] /\ o = Off(h, first)
    BY <2>7, <2>8
  <2>10. 2 * o <= v /\ -(2 * o) <= v
    BY <2>2, <2>3, <2>9 DEF BooksBalance
  <2>11. holdings'[p] = m /\ averaged'[p] = v + u
    BY <2>2, <2>8, <2>9 DEF LiqTypeInv, LiqTypeOK
  <2>12. 2 * Off(m, first) <= v + u /\ -(2 * Off(m, first)) <= v + u
    BY <2>6, <2>7, <2>9, <2>10
  <2>13. ASSUME NEW r \in Margined
         PROVE  /\ 2 * Off(holdings'[r], Opening[r]) <= averaged'[r]
                /\ -(2 * Off(holdings'[r], Opening[r])) <= averaged'[r]
    <3>1. CASE r = p
      BY <2>3, <2>11, <2>12, <3>1
    <3>2. CASE r # p
      <4>1. holdings'[r] = holdings[r] /\ averaged'[r] = averaged[r]
        BY <2>2, <2>8, <3>2 DEF LiqTypeInv, LiqTypeOK
      <4>2. QED
        BY <4>1 DEF BooksBalance
    <3>3. QED
      BY <3>1, <3>2
  <2>14. QED
    BY <2>13 DEF BooksBalance, Off, Cost
<1>3. QED
  BY <1>1, <1>2 DEF LiqNext, Evaluate, MarketTick, HandleFill, SecondPasses, SessionTurns,
     TakeJob, Assess, ChoosePosition, PlaceLiquidation, EvaluationFails, liqVars

LEMMA BooksInit == LiqInit => BooksBalance
<1> SUFFICES ASSUME LiqInit, NEW p \in Margined
             PROVE  /\ 2 * Off(holdings[p], Opening[p]) <= averaged[p]
                    /\ -(2 * Off(holdings[p], Opening[p])) <= averaged[p]
  BY DEF BooksBalance
<1>1. holdings[p] = Opening[p] /\ averaged[p] = 0
  BY DEF LiqInit
<1>2. PICK g \in Holding : g = Opening[p]
  BY LiquidationAssumption
<1>3. g.cash \in Int /\ g.realized \in Int /\ SumOf(Cost(g)) \in Int
  BY CostType DEF Holding
<1>4. Off(g, g) = 0
  BY <1>3 DEF Off
<1>5. QED
  BY <1>1, <1>2, <1>4

\* What a position is worth, what it cost and what the page of positions shows.
LEMMA Valued ==
  ASSUME LiqTypeInv, NEW h \in Holding
  PROVE  /\ Equity(h, prices) = h.cash + SumOf(Cost(h)) + UnrealizedPnl(h, prices)
         /\ ShownProfit(h, prices) =
              UnrealizedPnl(h, prices) + SumOf([s \in Symbols |-> Magnitude(h.qty[s]) * HalfSpread[s]])
         /\ UnrealizedPnl(h, prices) \in Int
<1>1. /\ h.cash \in Int /\ h.qty \in [Symbols -> Int] /\ h.entry \in [Symbols -> Int]
      /\ IsFiniteSet(Symbols) /\ HalfSpread \in [Symbols -> Nat]
      /\ prices \in [Symbols -> Nat \ {0}]
  BY ValuationAssumption DEF Holding, LiqTypeInv
<1>2. PICK worth, gain, shown, half :
        /\ worth = [s \in Symbols |-> Worth(h, prices, s)]
        /\ gain = [s \in Symbols |-> Worth(h, prices, s) - h.qty[s] * h.entry[s]]
        /\ shown = [s \in Symbols |-> IF prices[s] = NoPrice THEN 0
                                      ELSE (prices[s] - h.entry[s]) * h.qty[s]]
        /\ half = [s \in Symbols |-> Magnitude(h.qty[s]) * HalfSpread[s]]
  OBVIOUS
<1>3. ASSUME NEW s \in Symbols
      PROVE  /\ worth[s] \in Int /\ gain[s] \in Int /\ shown[s] \in Int /\ half[s] \in Int
             /\ Cost(h)[s] \in Int
             /\ worth[s] = gain[s] + Cost(h)[s]
             /\ shown[s] = gain[s] + half[s]
  <2>1. PICK q \in Int, e \in Int, r \in Nat \ {0}, d \in Nat :
          q = h.qty[s] /\ e = h.entry[s] /\ r = prices[s] /\ d = HalfSpread[s]
    BY <1>1
  <2>2. worth[s] = IF q = 0 THEN 0 ELSE IF q > 0 THEN q * (r - d) ELSE q * (r + d)
    BY <1>2, <2>1 DEF Worth, ClosingPrice, Reference, NoPrice
  <2>3. /\ Cost(h)[s] = q * e /\ gain[s] = worth[s] - q * e
        /\ shown[s] = (r - e) * q /\ half[s] = (IF q < 0 THEN -q ELSE q) * d
    BY <1>2, <2>1 DEF Cost, NoPrice, Magnitude
  <2>4. worth[s] \in Int /\ q * e \in Int /\ (r - e) * q \in Int /\ q * d \in Int /\ -q * d \in Int
    BY <2>2
  <2>5. worth[s] = gain[s] + Cost(h)[s]
    BY <2>3, <2>4
  <2>6. CASE q > 0
    <3>1. q * (r - d) - q * e + q * d = (r - e) * q
      OBVIOUS
    <3>2. QED
      BY <2>2, <2>3, <2>4, <2>5, <2>6, <3>1
  <2>7. CASE q < 0
    <3>1. q * (r + d) - q * e + (-q) * d = (r - e) * q
      OBVIOUS
    <3>2. QED
      BY <2>2, <2>3, <2>4, <2>5, <2>7, <3>1
  <2>8. CASE q = 0
    BY <2>2, <2>3, <2>4, <2>5, <2>8
  <2>9. QED
    BY <2>6, <2>7, <2>8
<1>4. /\ DOMAIN worth = Symbols /\ worth = [s \in Symbols |-> worth[s]]
      /\ gain = [s \in Symbols |-> gain[s]] /\ shown = [s \in Symbols |-> shown[s]]
      /\ half = [s \in Symbols |-> half[s]] /\ Cost(h) = [s \in Symbols |-> Cost(h)[s]]
  BY <1>2 DEF Cost
<1>5. /\ worth \in [Symbols -> Int] /\ gain \in [Symbols -> Int] /\ shown \in [Symbols -> Int]
      /\ half \in [Symbols -> Int] /\ Cost(h) \in [Symbols -> Int]
  BY <1>3, <1>4
<1>6. SumOf(worth) = SumOf(gain) + SumOf(Cost(h)) /\ SumOf(shown) = SumOf(gain) + SumOf(half)
  BY <1>1, <1>3, <1>5, SumsAdd
<1>7. SumOf(gain) \in Int /\ SumOf(Cost(h)) \in Int
  BY <1>1, <1>5, SumIsInt
<1>8. /\ Equity(h, prices) = h.cash + SumOf(worth) /\ UnrealizedPnl(h, prices) = SumOf(gain)
      /\ ShownProfit(h, prices) = SumOf(shown)
  BY <1>2 DEF Equity, NetMarketValue, UnrealizedPnl, ShownProfit
<1>9. QED
  BY <1>1, <1>2, <1>6, <1>7, <1>8

\* Fills and prices move no money in or out: what a portfolio is worth is its
\* capital, what it has realized and what it would realize now, but for half a
\* unit of money for each unit a rounded average was taken of; and the page of
\* positions is off by half a spread for every unit and nothing else.
THEOREM ProfitsAreAccountedFor == LiqSpec => []ProfitsAddUp
<1>1. LiqTypeInv /\ BooksBalance => ProfitsAddUp
  <2> SUFFICES ASSUME LiqTypeInv, BooksBalance, NEW p \in Margined
               PROVE  LET h == holdings[p] IN
                 /\ 2 * Magnitude(Discrepancy(p)) <= averaged[p]
                 /\ ShownProfit(h, prices) = UnrealizedPnl(h, prices)
                      + SumOf([s \in Symbols |-> Magnitude(h.qty[s]) * HalfSpread[s]])
    BY DEF ProfitsAddUp
  <2>1. PICK h \in Holding, first \in Holding : h = holdings[p] /\ first = Opening[p]
    BY LiquidationAssumption DEF LiqTypeInv, LiqTypeOK
  <2>2. /\ Equity(h, prices) = h.cash + SumOf(Cost(h)) + UnrealizedPnl(h, prices)
        /\ ShownProfit(h, prices) =
             UnrealizedPnl(h, prices) + SumOf([s \in Symbols |-> Magnitude(h.qty[s]) * HalfSpread[s]])
        /\ UnrealizedPnl(h, prices) \in Int
    BY Valued
  <2>3. /\ h.cash \in Int /\ h.realized \in Int /\ first.cash \in Int /\ first.realized \in Int
        /\ SumOf(Cost(h)) \in Int /\ SumOf(Cost(first)) \in Int /\ averaged[p] \in Nat
    BY CostType DEF Holding, LiqTypeInv, LiqTypeOK
  <2>4. Discrepancy(p) = Equity(h, prices)
          - (first.cash + SumOf(Cost(first)) + (h.realized - first.realized) + UnrealizedPnl(h, prices))
    BY <2>1 DEF Discrepancy, Cost
  <2>5. PICK d \in Int : d = Off(h, first) /\ d = Discrepancy(p)
    BY <2>2, <2>3, <2>4 DEF Off
  <2>6. 2 * d <= averaged[p] /\ -(2 * d) <= averaged[p]
    BY <2>1, <2>5 DEF BooksBalance
  <2>7. 2 * Magnitude(Discrepancy(p)) <= averaged[p]
    BY <2>3, <2>5, <2>6 DEF Magnitude
  <2>8. QED
    BY <2>1, <2>2, <2>7
<1>2. QED
  BY <1>1, BooksInit, BooksStep, LiqTypeInvariant, PTL DEF LiqSpec

-----------------------------------------------------------------------------
(***************************************************************************)
(* The close of the day.  The clock is read through its day and its time   *)
(* of day, so the proofs rest on division with remainder.                  *)
(***************************************************************************)

LEMMA Division ==
  ASSUME NEW n \in Nat, NEW b \in Nat \ {0}
  PROVE  n \div b \in Nat /\ n % b \in Nat /\ n % b < b /\ n = b * (n \div b) + (n % b)
<1>1. n = b * (n \div b) + (n % b)
  BY SMT
<1>2. n \div b \in Nat /\ n % b \in Nat /\ n % b < b
  OBVIOUS
<1>3. QED
  BY <1>1, <1>2

LEMMA DivisionIsUnique ==
  ASSUME NEW a \in Nat, NEW b \in Nat \ {0}, NEW r \in 0 .. b - 1
  PROVE  (a * b + r) \div b = a /\ (a * b + r) % b = r
OBVIOUS

\* A second later the day is the same, unless it is midnight.
LEMMA NextSecond ==
  ASSUME NEW n \in Nat, NEW b \in Nat \ {0}, (n + 1) % b # 0
  PROVE  (n + 1) % b = (n % b) + 1 /\ (n + 1) \div b = n \div b
<1>1. PICK q \in Nat, r \in Nat : q = (n + 1) \div b /\ r = (n + 1) % b
  BY Division
<1>2. r < b /\ n + 1 = b * q + r
  BY <1>1, Division
<1>3. r - 1 \in 0 .. b - 1
  BY <1>1, <1>2
<1>4. n = q * b + (r - 1)
  BY <1>2
<1>5. n \div b = q /\ n % b = r - 1
  BY <1>3, <1>4, DivisionIsUnique
<1>6. QED
  BY <1>1, <1>5

\* Of two days, the one that begins before the other has ended is not later.
LEMMA EarlierDay ==
  ASSUME NEW d \in Nat, NEW e \in Nat, NEW b \in Nat, d * b < (e + 1) * b
  PROVE  d <= e
<1>1. ASSUME ~ (d <= e) PROVE FALSE
  <2>1. PICK k \in Nat : d = e + 1 + k
    <3>1. d - (e + 1) \in Nat
      BY <1>1
    <3>2. QED
      BY <3>1
  <2>2. d * b = (e + 1) * b + k * b
    BY <2>1
  <2>3. k * b >= 0
    OBVIOUS
  <2>4. QED
    BY <2>2, <2>3
<1>2. QED
  BY <1>1

\* What the clock says is a day and a time of that day.
LEMMA ClockRead ==
  DayTypeOK => /\ TimeOfDay \in Nat /\ TimeOfDay < DayLength /\ Day \in Nat
               /\ now = DayLength * Day + TimeOfDay
<1> SUFFICES ASSUME DayTypeOK
             PROVE  /\ TimeOfDay \in Nat /\ TimeOfDay < DayLength /\ Day \in Nat
                    /\ now = DayLength * Day + TimeOfDay
  OBVIOUS
<1>1. now \in Nat /\ DayLength \in Nat \ {0}
  BY DayAssumption DEF DayTypeOK
<1>2. QED
  BY <1>1, Division DEF TimeOfDay, Day

Sweep == [step : {"rest", "read", "expire", "page"}, day : Nat,
          todo : SUBSET (DayOrders \cup Accounts), skip : Nat, due : SUBSET Accounts]

\* What a sweep has to do is a page of portfolios once the orders are expired.
DayTypes ==
  /\ DayTypeOK /\ IsFiniteSet(accounts)
  /\ \A w \in SweepWorkers : /\ sweeps[w].step = "page" => sweeps[w].todo \subseteq accounts
                             /\ sweeps[w].step = "read" => sweeps[w].todo = {}

LEMMA DayTypesInit == DayInit => DayTypes
BY DayAssumption, FS_EmptySet DEF DayInit, DayTypes, DayTypeOK, AtRest

\* The portfolio a sweep takes next is the first of its page.
LEMMA FirstOfPage ==
  ASSUME DayTypes, NEW w \in SweepWorkers, sweeps[w].step = "page", sweeps[w].todo # {}
  PROVE  (CHOOSE q \in sweeps[w].todo : \A r \in sweeps[w].todo : q <= r) \in sweeps[w].todo
<1>1. PICK todo : todo = sweeps[w].todo
  OBVIOUS
<1>2. todo \subseteq accounts /\ IsFiniteSet(todo)
  BY <1>1, FS_Subset DEF DayTypes
<1>3. todo \subseteq Int
  BY <1>2, DayAssumption DEF DayTypes, DayTypeOK
<1>4. \E q \in todo : \A r \in todo : q <= r
  BY <1>1, <1>2, <1>3, SmallestElement
<1>5. QED
  BY <1>1, <1>4

LEMMA PagingSweep ==
  ASSUME NEW s \in Sweep, NEW d \in SUBSET Accounts
  PROVE  /\ [s EXCEPT !.step = "page", !.due = d] \in Sweep
         /\ [s EXCEPT !.step = "page", !.due = d].todo = s.todo
BY DEF Sweep

LEMMA DayTypesStep == DayTypes /\ [DayNext]_dayVars => DayTypes'
<1> SUFFICES ASSUME DayTypes, [DayNext]_dayVars PROVE DayTypes'
  OBVIOUS
<1>0. \A w \in SweepWorkers : sweeps[w] \in Sweep
  BY DEF DayTypes, DayTypeOK, Sweep
<1> USE DayAssumption DEF DayTypes, DayTypeOK
<1>1. ASSUME Passes PROVE DayTypes'
  <2>1. now' \in 0 .. LastTime
    BY <1>1 DEF Passes
  <2>2. night' \in [swept : BOOLEAN, late : SUBSET DayOrders, failed : SUBSET DayOrders,
                    complete : SUBSET (Accounts \X Nat)]
    BY <1>1 DEF Passes
  <2>3. \A l \in leases' : l.key \in {"bod", "eod"} \X Nat /\ l.expires \in Nat
    BY <1>1 DEF Passes
  <2>4. QED
    BY <1>1, <2>1, <2>2, <2>3 DEF Passes
<1>2. ASSUME NEW k \in DayOrders, AssertOpen(k) \/ Insert(k) PROVE DayTypes'
  BY <1>2 DEF AssertOpen, Insert, LiveStages
<1>3. ASSUME NEW k \in DayOrders, MarkPending(k) \/ CommitPending(k) PROVE DayTypes'
  <2>1. marking' \subseteq DayOrders
    BY <1>3 DEF MarkPending, CommitPending
  <2>2. stage' \in [DayOrders -> LiveStages \cup {"none", "checked", "FILLED", "EXPIRED"}]
    BY <1>3 DEF MarkPending, CommitPending, LiveStages
  <2>3. QED
    BY <1>3, <2>1, <2>2 DEF MarkPending, CommitPending
<1>4. ASSUME NEW k \in DayOrders, FillOrder(k) PROVE DayTypes'
  BY <1>4 DEF FillOrder, LiveStages
<1>5. ASSUME NEW p \in Accounts, OpenAccount(p) PROVE DayTypes'
  BY <1>5, FS_AddElement DEF OpenAccount
<1>6. ASSUME NEW w \in SweepWorkers, AnnounceOpen(w) PROVE DayTypes'
  BY <1>6, ClockRead DEF AnnounceOpen, Acquire
<1>7. ASSUME NEW w \in SweepWorkers, BeginSweep(w) PROVE DayTypes'
  <2>1. PICK s \in Sweep : s = [AtRest EXCEPT !.step = "read", !.day = Day]
    BY ClockRead DEF AtRest, Sweep
  <2>2. sweeps' = [sweeps EXCEPT ![w] = s] /\ s.step = "read" /\ s.todo = {}
    BY <1>7, <2>1 DEF BeginSweep, AtRest
  <2>3. sweeps' \in [SweepWorkers -> Sweep]
    BY <1>0, <2>2
  <2>4. \A l \in leases' : l.key \in {"bod", "eod"} \X Nat /\ l.expires \in Nat
    BY <1>7, ClockRead DEF BeginSweep, Acquire
  <2>5. \A v \in SweepWorkers : /\ sweeps'[v].step = "page" => sweeps'[v].todo \subseteq accounts
                                /\ sweeps'[v].step = "read" => sweeps'[v].todo = {}
    BY <2>2
  <2>6. QED
    BY <1>7, <2>3, <2>4, <2>5 DEF BeginSweep, Sweep
<1>8. ASSUME NEW w \in SweepWorkers, ReadOrders(w) PROVE DayTypes'
  <2>1. sweeps' \in [SweepWorkers -> Sweep]
    BY <1>0, <1>8 DEF ReadOrders, Sweep
  <2>2. night' \in [swept : BOOLEAN, late : SUBSET DayOrders, failed : SUBSET DayOrders,
                    complete : SUBSET (Accounts \X Nat)]
    BY <1>8 DEF ReadOrders
  <2>3. mishaps' \in 0 .. MaxMishaps
    BY <1>8 DEF ReadOrders
  <2>4. \A v \in SweepWorkers : /\ sweeps'[v].step = "page" => sweeps'[v].todo \subseteq accounts
                                /\ sweeps'[v].step = "read" => sweeps'[v].todo = {}
    BY <1>0, <1>8 DEF ReadOrders, Sweep
  <2>5. QED
    BY <1>8, <2>1, <2>2, <2>3, <2>4 DEF ReadOrders, Sweep
<1>9. ASSUME NEW w \in SweepWorkers, NEW k \in DayOrders, ExpireOrder(w, k) PROVE DayTypes'
  <2>1. sweeps' \in [SweepWorkers -> Sweep]
    BY <1>0, <1>9 DEF ExpireOrder, Sweep
  <2>2. QED
    BY <1>9, <2>1 DEF ExpireOrder, Sweep, LiveOrders
<1>10. ASSUME NEW w \in SweepWorkers, EndExpiry(w) PROVE DayTypes'
  <2>1. sweeps' = [sweeps EXCEPT ![w].step = "page", ![w].due = accounts] /\ sweeps[w].todo = {}
    BY <1>10 DEF EndExpiry
  <2>2. PICK r \in Sweep : r = sweeps[w]
    BY <1>0
  <2>3. PICK s : s = [r EXCEPT !.step = "page", !.due = accounts]
    OBVIOUS
  <2>4. s \in Sweep /\ s.todo = {}
    BY <2>1, <2>2, <2>3, PagingSweep
  <2>5. sweeps' \in [SweepWorkers -> Sweep] /\ \A v \in SweepWorkers : sweeps'[v] = IF v = w THEN s ELSE sweeps[v]
    BY <1>0, <2>1, <2>2, <2>3, <2>4
  <2>6. night' \in [swept : BOOLEAN, late : SUBSET DayOrders, failed : SUBSET DayOrders,
                    complete : SUBSET (Accounts \X Nat)]
    <3>1. SameNight(w) \in BOOLEAN
      BY DEF SameNight
    <3>2. QED
      BY <1>10, <3>1 DEF EndExpiry
  <2>7. \A v \in SweepWorkers : /\ sweeps'[v].step = "page" => sweeps'[v].todo \subseteq accounts
                                /\ sweeps'[v].step = "read" => sweeps'[v].todo = {}
    BY <2>4, <2>5
  <2>8. QED
    BY <1>10, <2>5, <2>6, <2>7 DEF EndExpiry, Sweep
<1>11. ASSUME NEW w \in SweepWorkers, ReadPage(w) PROVE DayTypes'
  <2>1. PICK page \in SUBSET accounts : page = Page(sweeps[w].skip)
    BY DEF Page
  <2>2. AtRest \in Sweep /\ AtRest.step = "rest"
    BY DEF AtRest, Sweep
  <2>3. sweeps' \in [SweepWorkers -> Sweep]
    BY <1>0, <1>11, <2>1, <2>2 DEF ReadPage, Sweep
  <2>4. \A v \in SweepWorkers : /\ sweeps'[v].step = "page" => sweeps'[v].todo \subseteq accounts
                                /\ sweeps'[v].step = "read" => sweeps'[v].todo = {}
    BY <1>0, <1>11, <2>1, <2>2 DEF ReadPage, Sweep
  <2>5. sweeps[w].due \X {sweeps[w].day} \subseteq Accounts \X Nat
    BY <1>0 DEF Sweep
  <2>6. night' \in [swept : BOOLEAN, late : SUBSET DayOrders, failed : SUBSET DayOrders,
                    complete : SUBSET (Accounts \X Nat)]
    BY <1>11, <2>5 DEF ReadPage
  <2>7. QED
    BY <1>11, <2>3, <2>4, <2>6 DEF ReadPage, Sweep
<1>12. ASSUME NEW w \in SweepWorkers, Capture(w) PROVE DayTypes'
  <2>1. PICK p \in sweeps[w].todo :
          p = CHOOSE q \in sweeps[w].todo : \A r \in sweeps[w].todo : q <= r
    <3> HIDE DEF DayTypes
    <3> QED
      BY <1>12, FirstOfPage DEF Capture
  <2>2. p \in accounts
    BY <1>12, <2>1 DEF Capture
  <2>3. \/ /\ sweeps' = [sweeps EXCEPT ![w].todo = @ \ {p}]
           /\ snapshots' = snapshots \cup {<<p, sweeps[w].day>>} /\ mishaps' = mishaps
        \/ /\ mishaps < MaxMishaps /\ mishaps' = mishaps + 1
           /\ sweeps' = [sweeps EXCEPT ![w].todo = @ \ {p}, ![w].due = @ \ {p}]
           /\ snapshots' = snapshots
    BY <1>12, <2>1 DEF Capture
  <2>4. sweeps' \in [SweepWorkers -> Sweep]
    BY <1>0, <2>3 DEF Sweep
  <2>5. snapshots' \subseteq Accounts \X Nat
    BY <1>0, <2>2, <2>3 DEF Sweep
  <2>6. mishaps' \in 0 .. MaxMishaps
    BY <2>3
  <2>7. \A v \in SweepWorkers : /\ sweeps'[v].step = "page" => sweeps'[v].todo \subseteq accounts
                                /\ sweeps'[v].step = "read" => sweeps'[v].todo = {}
    BY <1>0, <2>3 DEF Sweep
  <2>8. QED
    BY <1>12, <2>4, <2>5, <2>6, <2>7 DEF Capture, Sweep
<1>13. ASSUME NEW w \in SweepWorkers, WorkerCrash(w) PROVE DayTypes'
  <2>1. AtRest \in Sweep /\ AtRest.step = "rest"
    BY DEF AtRest, Sweep
  <2>2. QED
    BY <1>0, <1>13, <2>1 DEF WorkerCrash, Sweep
<1>14. CASE UNCHANGED dayVars
  BY <1>14 DEF dayVars
<1>15. QED
  BY <1>1, <1>2, <1>3, <1>4, <1>5, <1>6, <1>7, <1>8, <1>9, <1>10, <1>11, <1>12, <1>13, <1>14
     DEF DayNext

-----------------------------------------------------------------------------
(***************************************************************************)
(* The night after the close.  A sweep is late for nothing it read before: *)
(* only the holder of the lease of a day begins one, in the second of the  *)
(* close, so that two sweeps that look for orders in one night are one.    *)
(***************************************************************************)

Busy(w) == sweeps[w].step \in {"read", "expire"}

Marked == \A k \in marking : stage[k] = "ACCEPTED"

\* A sweep runs after the close of its day,
SweepsFollowTheClose ==
  \A w \in SweepWorkers : sweeps[w].step # "rest" => sweeps[w].day * DayLength + CloseAt <= now

\* alone,
OneSweepADay ==
  \A v, w \in SweepWorkers : Busy(v) /\ Busy(w) /\ sweeps[v].day = sweeps[w].day => v = w

\* and in the second of the close its lease keeps others from beginning.
Leased(d) == \E l \in leases : l.key = <<"eod", d>> /\ l.expires > now

Begun == night.swept \/ \E w \in SweepWorkers : sweeps[w].step # "rest" /\ sweeps[w].day = Day

LeaseIsHeld == TimeOfDay = CloseAt /\ Begun => Leased(Day)

\* After the sweep the session is closed, and no other sweep of the night runs.
SweptIsNight == night.swept => ~IsOpen /\ \A w \in SweepWorkers : Busy(w) => ~SameNight(w)

Explained(todo) == LiveOrders \subseteq todo \cup night.late \cup night.failed

ExpiryKnows ==
  \A w \in SweepWorkers :
    sweeps[w].step = "expire" /\ SameNight(w) => Explained(sweeps[w].todo)

NightParts ==
  /\ Marked /\ SweepsFollowTheClose /\ OneSweepADay /\ LeaseIsHeld
  /\ SweptIsNight /\ ExpiryKnows /\ NightOrdersExplained

LEMMA NightInit == DayInit => NightParts
BY DEF DayInit, NightParts, Marked, SweepsFollowTheClose, OneSweepADay, LeaseIsHeld, Begun,
       SweptIsNight, ExpiryKnows, NightOrdersExplained, Busy, AtRest

\* While the clock stands still.
LEMMA SameTime ==
  ASSUME now' = now
  PROVE  /\ TimeOfDay' = TimeOfDay /\ Day' = Day /\ (IsOpen' <=> IsOpen)
         /\ \A w \in SweepWorkers : sweeps'[w].day = sweeps[w].day => (SameNight(w)' <=> SameNight(w))
BY DEF TimeOfDay, Day, IsOpen, SameNight

LEMMA SameLease ==
  ASSUME now' = now, leases \subseteq leases', NEW d, Leased(d)
  PROVE  Leased(d)'
BY DEF Leased

\* Orders move, and the sweeps do not.
LEMMA OrdersMove ==
  ASSUME DayTypes, NightParts, now' = now, sweeps' = sweeps, leases \subseteq leases',
         night'.swept = night.swept, night.late \subseteq night'.late,
         night.failed \subseteq night'.failed,
         LiveOrders' \subseteq LiveOrders \cup night'.late, Marked'
  PROVE  NightParts'
<1> USE SameTime DEF NightParts
<1>1. SweepsFollowTheClose' /\ OneSweepADay'
  BY DEF SweepsFollowTheClose, OneSweepADay, Busy
<1>2. LeaseIsHeld'
  BY SameLease DEF LeaseIsHeld, Begun
<1>3. SweptIsNight'
  BY DEF SweptIsNight, Busy
<1>4. \A todo : Explained(todo) => Explained(todo)'
  BY DEF Explained
<1>5. ExpiryKnows'
  BY <1>4 DEF ExpiryKnows
<1>6. NightOrdersExplained'
  BY DEF NightOrdersExplained
<1>7. QED
  BY <1>1, <1>2, <1>3, <1>5, <1>6

\* A sweep goes on to the portfolios, or ends.
LEMMA SweepGoesOn ==
  ASSUME DayTypes, NightParts, NEW w \in SweepWorkers, NEW s,
         s.step = "rest" \/ (s.step = "page" /\ s.day = sweeps[w].day /\ sweeps[w].step # "rest"),
         sweeps' = [sweeps EXCEPT ![w] = s],
         now' = now, leases' = leases, stage' = stage, marking' = marking,
         night'.swept = night.swept, night'.late = night.late, night'.failed = night.failed
  PROVE  NightParts'
<1> USE SameTime DEF NightParts
<1>0. \A v \in SweepWorkers : sweeps'[v] = IF v = w THEN s ELSE sweeps[v]
  BY DEF DayTypes, DayTypeOK
<1>1. \A v \in SweepWorkers : sweeps'[v].step # "rest" =>
        sweeps[v].step # "rest" /\ sweeps'[v].day = sweeps[v].day
  BY <1>0
<1>2. \A v \in SweepWorkers : Busy(v)' => v # w /\ Busy(v) /\ sweeps'[v] = sweeps[v]
  BY <1>0 DEF Busy
<1>3. SweepsFollowTheClose'
  BY <1>1 DEF SweepsFollowTheClose
<1>4. OneSweepADay'
  BY <1>2 DEF OneSweepADay
<1>5. LeaseIsHeld'
  <2>1. Begun' => Begun
    BY <1>1 DEF Begun
  <2>2. QED
    BY <2>1, SameLease DEF LeaseIsHeld
<1>6. SweptIsNight'
  BY <1>2 DEF SweptIsNight
<1>7. LiveOrders' = LiveOrders
  BY DEF LiveOrders
<1>8. ExpiryKnows'
  <2>1. \A todo : Explained(todo) => Explained(todo)'
    BY <1>7 DEF Explained
  <2>2. QED
    BY <1>0, <2>1 DEF ExpiryKnows
<1>9. NightOrdersExplained' /\ Marked'
  BY <1>7 DEF NightOrdersExplained, Marked
<1>10. QED
  BY <1>3, <1>4, <1>5, <1>6, <1>8, <1>9

\* Two sweeps of one night are sweeps of one day,
LEMMA OneDayANight ==
  ASSUME DayTypes, SweepsFollowTheClose,
         NEW v \in SweepWorkers, sweeps[v].step # "rest", SameNight(v),
         NEW w \in SweepWorkers, sweeps[w].step # "rest", SameNight(w)
  PROVE  sweeps[v].day = sweeps[w].day
<1>1. PICK d \in Nat, e \in Nat : d = sweeps[v].day /\ e = sweeps[w].day
  BY DEF DayTypes, DayTypeOK
<1>2. /\ d * DayLength + CloseAt <= now /\ now < (d + 1) * DayLength + OpenAt
      /\ e * DayLength + CloseAt <= now /\ now < (e + 1) * DayLength + OpenAt
  BY <1>1 DEF SweepsFollowTheClose, SameNight
<1>3. now \in Nat /\ DayLength \in Nat /\ OpenAt \in Nat /\ CloseAt \in Nat /\ OpenAt < CloseAt
  BY DayAssumption DEF DayTypes, DayTypeOK
<1>4. /\ d * DayLength \in Nat /\ (d + 1) * DayLength \in Nat
      /\ e * DayLength \in Nat /\ (e + 1) * DayLength \in Nat
  BY <1>3
<1>5. d * DayLength < (e + 1) * DayLength /\ e * DayLength < (d + 1) * DayLength
  BY <1>2, <1>3, <1>4
<1>6. d <= e /\ e <= d
  BY <1>3, <1>5, EarlierDay
<1>7. QED
  BY <1>1, <1>6

\* and in their night the session is closed.
LEMMA NightIsClosed ==
  ASSUME DayTypes, SweepsFollowTheClose,
         NEW w \in SweepWorkers, sweeps[w].step # "rest", SameNight(w)
  PROVE  ~IsOpen /\ (TimeOfDay = CloseAt => sweeps[w].day = Day)
<1>1. PICK d \in Nat, e \in Nat, r \in Nat : d = sweeps[w].day /\ e = Day /\ r = TimeOfDay
  BY ClockRead DEF DayTypes, DayTypeOK
<1>2. d * DayLength + CloseAt <= now /\ now < (d + 1) * DayLength + OpenAt
  BY <1>1 DEF SweepsFollowTheClose, SameNight
<1>3. now = DayLength * e + r /\ r < DayLength
  BY <1>1, ClockRead DEF DayTypes
<1>4. /\ now \in Nat /\ DayLength \in Nat /\ OpenAt \in Nat /\ CloseAt \in Nat
      /\ OpenAt < CloseAt /\ CloseAt < DayLength
  BY DayAssumption DEF DayTypes, DayTypeOK
<1>5. d * DayLength \in Nat /\ e * DayLength \in Nat /\ DayLength * e = e * DayLength
  BY <1>4
<1>6. (d + 1) * DayLength = d * DayLength + DayLength /\ (e + 1) * DayLength = e * DayLength + DayLength
  BY <1>4
<1>7. d <= e
  <2>1. d * DayLength < (e + 1) * DayLength
    BY <1>2, <1>3, <1>4, <1>5, <1>6
  <2>2. QED
    BY <1>4, <2>1, EarlierDay
<1>8. e <= d + 1
  <2>1. (d + 1 + 1) * DayLength = d * DayLength + DayLength + DayLength
    BY <1>4
  <2>2. e * DayLength < (d + 1 + 1) * DayLength
    BY <1>2, <1>3, <1>4, <1>5, <1>6, <2>1
  <2>3. QED
    BY <1>4, <2>2, EarlierDay
<1>9. CASE d = e
  <2>1. r >= CloseAt
    BY <1>2, <1>3, <1>4, <1>5, <1>9
  <2>2. QED
    BY <1>1, <1>4, <1>9, <2>1 DEF IsOpen
<1>10. CASE e = d + 1
  <2>1. r < OpenAt
    BY <1>2, <1>3, <1>4, <1>5, <1>6, <1>10
  <2>2. QED
    BY <1>1, <1>4, <2>1 DEF IsOpen
<1>11. QED
  BY <1>7, <1>8, <1>9, <1>10

LEMMA PassesNight ==
  ASSUME DayTypes, NightParts, Passes
  PROVE  NightParts'
<1> USE DEF NightParts
<1>0. /\ now \in Nat /\ now' = now + 1 /\ DayLength \in Nat \ {0} /\ OpenAt \in Nat /\ CloseAt \in Nat
      /\ 0 < OpenAt /\ OpenAt < CloseAt
  BY DayAssumption DEF Passes, DayTypes, DayTypeOK
<1>1. /\ sweeps' = sweeps /\ stage' = stage /\ marking' = marking
      /\ night'.late = night.late /\ night'.failed = night.failed
  BY DEF Passes, DayTypes, DayTypeOK
<1>2. \A w \in SweepWorkers : (Busy(w)' <=> Busy(w)) /\ (SameNight(w)' => SameNight(w))
  <2>1. ASSUME NEW w \in SweepWorkers PROVE SameNight(w)' => SameNight(w)
    <3>1. PICK d \in Nat : d = sweeps[w].day
      BY DEF DayTypes, DayTypeOK
    <3>2. (d + 1) * DayLength \in Nat
      BY <1>0
    <3>3. QED
      BY <1>0, <1>1, <3>1, <3>2 DEF SameNight
  <2>2. QED
    BY <1>1, <2>1 DEF Busy
<1>3. TimeOfDay' # 0 => TimeOfDay' = TimeOfDay + 1 /\ Day' = Day
  BY <1>0, NextSecond DEF TimeOfDay, Day
<1>4. night'.swept => night.swept /\ TimeOfDay' # OpenAt
  BY DEF Passes, DayTypes, DayTypeOK
<1>5. TimeOfDay \in Nat /\ Day \in Nat /\ now = DayLength * Day + TimeOfDay
  BY ClockRead DEF DayTypes
<1>6. SweepsFollowTheClose'
  <2>1. ASSUME NEW w \in SweepWorkers, sweeps[w].step # "rest"
        PROVE  sweeps[w].day * DayLength + CloseAt <= now'
    <3>1. PICK d \in Nat : d = sweeps[w].day
      BY DEF DayTypes, DayTypeOK
    <3>2. d * DayLength + CloseAt <= now /\ d * DayLength \in Nat
      BY <1>0, <2>1, <3>1 DEF SweepsFollowTheClose
    <3>3. QED
      BY <1>0, <3>1, <3>2
  <2>2. QED
    BY <1>1, <2>1 DEF SweepsFollowTheClose
<1>7. SweptIsNight'
  <2>1. ASSUME night'.swept, IsOpen' PROVE FALSE
    <3>1. TimeOfDay' # 0 /\ TimeOfDay' # OpenAt /\ OpenAt <= TimeOfDay' /\ TimeOfDay' < CloseAt
      BY <1>0, <1>4, <2>1 DEF IsOpen
    <3>2. OpenAt <= TimeOfDay /\ TimeOfDay < CloseAt
      BY <1>0, <1>3, <1>5, <3>1
    <3>3. QED
      BY <1>4, <2>1, <3>2 DEF SweptIsNight, IsOpen
  <2>2. QED
    BY <1>2, <1>4, <2>1 DEF SweptIsNight
<1>8. LeaseIsHeld'
  <2>1. ASSUME TimeOfDay' = CloseAt, Begun' PROVE FALSE
    <3>1. TimeOfDay = CloseAt - 1 /\ Day' = Day
      BY <1>0, <1>3, <1>5, <2>1
    <3>2. IsOpen
      BY <1>0, <3>1 DEF IsOpen
    <3>3. PICK w \in SweepWorkers : sweeps[w].step # "rest" /\ sweeps[w].day = Day
      BY <1>1, <1>4, <2>1, <3>1, <3>2 DEF Begun, SweptIsNight
    <3>4. Day * DayLength + CloseAt <= now
      BY <3>3 DEF SweepsFollowTheClose
    <3>5. Day * DayLength \in Nat /\ Day * DayLength = DayLength * Day
      BY <1>0, <1>5
    <3>6. QED
      BY <1>0, <1>5, <3>1, <3>4, <3>5
  <2>2. QED
    BY <2>1 DEF LeaseIsHeld
<1>9. OneSweepADay' /\ Marked'
  BY <1>1 DEF OneSweepADay, Marked, Busy
<1>10. \A todo : Explained(todo)' <=> Explained(todo)
  BY <1>1 DEF Explained, LiveOrders
<1>11. ExpiryKnows' /\ NightOrdersExplained'
  BY <1>1, <1>2, <1>4, <1>10 DEF ExpiryKnows, NightOrdersExplained, LiveOrders
<1>12. QED
  BY <1>6, <1>7, <1>8, <1>9, <1>11

LEMMA BeginNight ==
  ASSUME DayTypes, NightParts, NEW w \in SweepWorkers, BeginSweep(w)
  PROVE  NightParts'
<1> USE SameTime DEF NightParts
<1>0. /\ now' = now /\ stage' = stage /\ marking' = marking /\ night' = night
      /\ TimeOfDay = CloseAt /\ \A l \in leases : l.key # <<"eod", Day>>
      /\ leases' = leases \cup {[key |-> <<"eod", Day>>, expires |-> now + LeaseTime]}
  BY DEF BeginSweep, Acquire
<1>1. PICK s : s = [AtRest EXCEPT !.step = "read", !.day = Day]
  OBVIOUS
<1>2. s.step = "read" /\ s.day = Day
  BY <1>1 DEF AtRest
<1>3. \A v \in SweepWorkers : sweeps'[v] = IF v = w THEN s ELSE sweeps[v]
  BY <1>1 DEF BeginSweep, DayTypes, DayTypeOK
<1>4. ~Begun
  BY <1>0 DEF LeaseIsHeld, Leased
<1>5. SweepsFollowTheClose'
  <2>1. /\ now = DayLength * Day + CloseAt /\ Day \in Nat /\ DayLength \in Nat
        /\ Day * DayLength = DayLength * Day
    BY <1>0, ClockRead, DayAssumption DEF DayTypes
  <2>2. Day * DayLength + CloseAt <= now
    BY <2>1, DayAssumption
  <2>3. QED
    BY <1>0, <1>2, <1>3, <2>2 DEF SweepsFollowTheClose
<1>6. OneSweepADay'
  BY <1>2, <1>3, <1>4 DEF OneSweepADay, Begun, Busy
<1>7. LeaseIsHeld'
  <2>1. now + LeaseTime > now
    BY DayAssumption DEF DayTypes, DayTypeOK
  <2>2. PICK l \in leases' : l.key = <<"eod", Day>> /\ l.expires > now
    <3>1. PICK l : l = [key |-> <<"eod", Day>>, expires |-> now + LeaseTime]
      OBVIOUS
    <3>2. l.key = <<"eod", Day>> /\ l.expires > now
      BY <2>1, <3>1
    <3>3. l \in leases'
      BY <1>0, <3>1
    <3>4. QED
      BY <3>2, <3>3
  <2>3. Leased(Day)'
    BY <1>0, <2>2 DEF Leased, Day
  <2>4. QED
    BY <2>3 DEF LeaseIsHeld
<1>8. SweptIsNight'
  BY <1>0, <1>4 DEF SweptIsNight, Begun
<1>9. ExpiryKnows'
  <2>1. \A todo : Explained(todo)' <=> Explained(todo)
    BY <1>0 DEF Explained, LiveOrders
  <2>2. QED
    BY <1>0, <1>2, <1>3, <2>1 DEF ExpiryKnows
<1>10. NightOrdersExplained' /\ Marked'
  BY <1>0, <1>4 DEF NightOrdersExplained, Marked, Begun
<1>11. QED
  BY <1>5, <1>6, <1>7, <1>8, <1>9, <1>10

\* A sweep that changes only what it has to do.
LEMMA SweepStays ==
  ASSUME DayTypes, NightParts, NEW w \in SweepWorkers, Busy(w), NEW s,
         s.step = "expire", s.day = sweeps[w].day, sweeps' = [sweeps EXCEPT ![w] = s],
         now' = now, leases' = leases, night'.swept = night.swept
  PROVE  /\ \A v \in SweepWorkers : /\ (Busy(v)' <=> Busy(v)) /\ (SameNight(v)' <=> SameNight(v))
                                    /\ sweeps'[v] = IF v = w THEN s ELSE sweeps[v]
         /\ SweepsFollowTheClose' /\ OneSweepADay' /\ LeaseIsHeld' /\ SweptIsNight'
<1> USE SameTime DEF NightParts
<1>0. \A v \in SweepWorkers : sweeps'[v] = IF v = w THEN s ELSE sweeps[v]
  BY DEF DayTypes, DayTypeOK
<1>1. \A v \in SweepWorkers : /\ sweeps'[v].day = sweeps[v].day
                              /\ sweeps'[v].step # "rest" <=> sweeps[v].step # "rest"
  BY <1>0 DEF Busy
<1>2. \A v \in SweepWorkers : (Busy(v)' <=> Busy(v)) /\ (SameNight(v)' <=> SameNight(v))
  BY <1>0, <1>1 DEF Busy
<1>3. SweepsFollowTheClose'
  BY <1>1 DEF SweepsFollowTheClose
<1>4. OneSweepADay'
  BY <1>1, <1>2 DEF OneSweepADay
<1>5. LeaseIsHeld'
  <2>1. Begun' => Begun
    BY <1>1 DEF Begun
  <2>2. QED
    BY <2>1, SameLease DEF LeaseIsHeld
<1>6. SweptIsNight'
  BY <1>2 DEF SweptIsNight
<1>7. QED
  BY <1>0, <1>2, <1>3, <1>4, <1>5, <1>6

LEMMA ReadNight ==
  ASSUME DayTypes, NightParts, NEW w \in SweepWorkers, sweeps[w].step = "read",
         sweeps' = [sweeps EXCEPT ![w].step = "expire", ![w].todo = LiveOrders],
         night' = IF SameNight(w) THEN [night EXCEPT !.late = {}, !.failed = {}] ELSE night,
         now' = now, stage' = stage, marking' = marking, leases' = leases
  PROVE  NightParts'
<1>0. PICK s : s = [sweeps[w] EXCEPT !.step = "expire", !.todo = LiveOrders]
  OBVIOUS
<1>1. /\ s.step = "expire" /\ s.day = sweeps[w].day /\ s.todo = LiveOrders
      /\ sweeps' = [sweeps EXCEPT ![w] = s]
  BY <1>0 DEF DayTypes, DayTypeOK
<1>2. night'.swept = night.swept
  BY DEF DayTypes, DayTypeOK
<1>3. /\ \A v \in SweepWorkers : /\ (Busy(v)' <=> Busy(v)) /\ (SameNight(v)' <=> SameNight(v))
                                 /\ sweeps'[v] = IF v = w THEN s ELSE sweeps[v]
      /\ SweepsFollowTheClose' /\ OneSweepADay' /\ LeaseIsHeld' /\ SweptIsNight'
  <2>1. Busy(w)
    BY DEF Busy
  <2>2. QED
    BY <1>1, <1>2, <2>1, SweepStays
<1>4. LiveOrders' = LiveOrders
  BY DEF LiveOrders
<1>5. ASSUME NEW v \in SweepWorkers, sweeps'[v].step = "expire", SameNight(v)'
      PROVE  Explained(sweeps[v].todo)'
  <2>1. CASE v = w
    BY <1>1, <1>3, <1>4, <2>1 DEF Explained
  <2>2. CASE v # w
    <3>1. sweeps'[v] = sweeps[v] /\ Busy(v) /\ SameNight(v)
      BY <1>3, <1>5, <2>2 DEF Busy
    <3>2. ~SameNight(w)
      <4>1. Busy(w) /\ sweeps[w].step # "rest" /\ sweeps[v].step # "rest"
        BY <3>1 DEF Busy
      <4>2. QED
        BY <2>2, <3>1, <4>1, OneDayANight DEF NightParts, OneSweepADay
    <3>3. night' = night
      BY <3>2
    <3>4. Explained(sweeps[v].todo)
      BY <1>5, <3>1 DEF NightParts, ExpiryKnows
    <3>5. QED
      BY <1>4, <3>1, <3>3, <3>4 DEF Explained
  <2>3. QED
    BY <2>1, <2>2
<1>6. NightOrdersExplained'
  <2>1. CASE SameNight(w)
    BY <1>2, <2>1 DEF NightParts, SweptIsNight, NightOrdersExplained, Busy
  <2>2. CASE ~SameNight(w)
    BY <1>4, <2>2 DEF NightParts, NightOrdersExplained
  <2>3. QED
    BY <2>1, <2>2
<1>7. QED
  BY <1>3, <1>5, <1>6 DEF NightParts, ExpiryKnows, Marked

LEMMA ExpireNight ==
  ASSUME DayTypes, NightParts, NEW w \in SweepWorkers, NEW k \in DayOrders, ExpireOrder(w, k)
  PROVE  NightParts'
<1>0. PICK s : s = [sweeps[w] EXCEPT !.todo = @ \ {k}]
  OBVIOUS
<1>1. /\ s.step = "expire" /\ s.day = sweeps[w].day /\ s.todo = sweeps[w].todo \ {k}
      /\ sweeps' = [sweeps EXCEPT ![w] = s]
  BY <1>0 DEF ExpireOrder, DayTypes, DayTypeOK
<1>2. /\ night'.swept = night.swept /\ night'.late = night.late /\ night.failed \subseteq night'.failed
      /\ now' = now /\ leases' = leases /\ marking' = marking /\ k \notin marking /\ Busy(w)
  BY DEF ExpireOrder, DayTypes, DayTypeOK, Busy
<1>3. /\ \A v \in SweepWorkers : /\ (Busy(v)' <=> Busy(v)) /\ (SameNight(v)' <=> SameNight(v))
                                 /\ sweeps'[v] = IF v = w THEN s ELSE sweeps[v]
      /\ SweepsFollowTheClose' /\ OneSweepADay' /\ LeaseIsHeld' /\ SweptIsNight'
  BY <1>1, <1>2, SweepStays
<1>4. LiveOrders' \subseteq LiveOrders /\ (k \notin LiveOrders' \/ k \in night'.failed)
  BY DEF ExpireOrder, LiveOrders, LiveStages, DayTypes, DayTypeOK
<1>5. \A todo : Explained(todo) => Explained(todo)' /\ Explained(todo \ {k})'
  BY <1>2, <1>4 DEF Explained
<1>6. ExpiryKnows'
  <2>1. ASSUME NEW v \in SweepWorkers, sweeps'[v].step = "expire", SameNight(v)'
        PROVE  Explained(sweeps[v].todo)'
    <3>1. sweeps[v].step = "expire" /\ SameNight(v)
      BY <1>3, <2>1 DEF ExpireOrder
    <3>2. Explained(sweeps[v].todo)
      BY <3>1 DEF NightParts, ExpiryKnows
    <3>3. sweeps'[v].todo = sweeps[v].todo \/ sweeps'[v].todo = sweeps[v].todo \ {k}
      BY <1>1, <1>3
    <3>4. QED
      BY <1>5, <3>2, <3>3 DEF Explained
  <2>2. QED
    BY <2>1 DEF ExpiryKnows
<1>7. NightOrdersExplained'
  BY <1>2, <1>4 DEF NightParts, NightOrdersExplained
<1>8. Marked'
  BY <1>2 DEF NightParts, Marked, ExpireOrder, DayTypes, DayTypeOK
<1>9. QED
  BY <1>3, <1>6, <1>7, <1>8 DEF NightParts

LEMMA EndNight ==
  ASSUME DayTypes, NightParts, NEW w \in SweepWorkers, EndExpiry(w)
  PROVE  NightParts'
<1> USE SameTime DEF NightParts
<1>0. PICK s : s = [sweeps[w] EXCEPT !.step = "page", !.due = accounts]
  OBVIOUS
<1>1. s.step = "page" /\ s.day = sweeps[w].day /\ sweeps' = [sweeps EXCEPT ![w] = s]
  BY <1>0 DEF EndExpiry, DayTypes, DayTypeOK
<1>2. /\ now' = now /\ leases' = leases /\ stage' = stage /\ marking' = marking
      /\ night'.late = night.late /\ night'.failed = night.failed
      /\ (night'.swept <=> night.swept \/ SameNight(w))
      /\ sweeps[w].step = "expire" /\ sweeps[w].todo = {} /\ Busy(w)
  BY DEF EndExpiry, DayTypes, DayTypeOK, Busy
<1>3. \A v \in SweepWorkers : sweeps'[v] = IF v = w THEN s ELSE sweeps[v]
  BY <1>1 DEF DayTypes, DayTypeOK
<1>4. \A v \in SweepWorkers : /\ sweeps'[v].day = sweeps[v].day
                              /\ sweeps'[v].step # "rest" <=> sweeps[v].step # "rest"
  BY <1>1, <1>2, <1>3
<1>5. \A v \in SweepWorkers : Busy(v)' => v # w /\ Busy(v) /\ sweeps'[v] = sweeps[v]
  BY <1>1, <1>3 DEF Busy
<1>6. SweepsFollowTheClose' /\ OneSweepADay' /\ Marked'
  <2>1. SweepsFollowTheClose'
    BY <1>2, <1>4 DEF SweepsFollowTheClose
  <2>2. OneSweepADay'
    BY <1>5 DEF OneSweepADay
  <2>3. QED
    BY <1>2, <2>1, <2>2 DEF Marked
<1>7. SameNight(w) => ~IsOpen /\ (TimeOfDay = CloseAt => sweeps[w].day = Day)
  BY <1>2, NightIsClosed
<1>8. LeaseIsHeld'
  <2>1. TimeOfDay = CloseAt /\ Begun' => Begun
    BY <1>2, <1>4, <1>7 DEF Begun
  <2>2. Leased(Day) => Leased(Day)'
    BY <1>2 DEF Leased, Day
  <2>3. QED
    BY <1>2, <2>1, <2>2 DEF LeaseIsHeld
<1>9. SweptIsNight'
  <2>1. ASSUME SameNight(w), NEW v \in SweepWorkers, Busy(v)' PROVE ~SameNight(v)'
    <3>1. v # w /\ Busy(v) /\ sweeps'[v] = sweeps[v]
      BY <1>5, <2>1
    <3>2. sweeps[v].step # "rest" /\ sweeps[w].step # "rest"
      BY <1>2, <3>1 DEF Busy
    <3>3. ~SameNight(v)
      BY <1>2, <2>1, <3>1, <3>2, OneDayANight DEF OneSweepADay
    <3>4. QED
      BY <1>2, <3>1, <3>3
  <2>2. ASSUME ~SameNight(w), night'.swept, NEW v \in SweepWorkers, Busy(v)' PROVE ~SameNight(v)'
    BY <1>2, <1>5, <2>2 DEF SweptIsNight
  <2>3. night'.swept => ~IsOpen'
    BY <1>2, <1>7 DEF SweptIsNight
  <2>4. QED
    BY <2>1, <2>2, <2>3 DEF SweptIsNight
<1>10. LiveOrders' = LiveOrders
  BY <1>2 DEF LiveOrders
<1>11. ExpiryKnows'
  <2>1. \A todo : Explained(todo)' <=> Explained(todo)
    BY <1>2, <1>10 DEF Explained
  <2>2. \A v \in SweepWorkers : sweeps'[v].step = "expire" => sweeps'[v] = sweeps[v]
    BY <1>1, <1>3
  <2>3. QED
    BY <1>2, <2>1, <2>2 DEF ExpiryKnows
<1>12. NightOrdersExplained'
  <2>1. SameNight(w) => LiveOrders \subseteq night.late \cup night.failed
    BY <1>2 DEF ExpiryKnows, Explained
  <2>2. QED
    BY <1>2, <1>10, <2>1 DEF NightOrdersExplained
<1>13. QED
  BY <1>6, <1>8, <1>9, <1>11, <1>12

LEMMA NightStep == DayTypes /\ NightParts /\ [DayNext]_dayVars => NightParts'
<1> SUFFICES ASSUME DayTypes, NightParts, [DayNext]_dayVars PROVE NightParts'
  OBVIOUS
<1>1. ASSUME Passes PROVE NightParts'
  BY <1>1, PassesNight
<1>2. ASSUME NEW k \in DayOrders, AssertOpen(k) PROVE NightParts'
  <2>1. LiveOrders' \subseteq LiveOrders /\ Marked'
    BY <1>2 DEF AssertOpen, LiveOrders, LiveStages, NightParts, Marked, DayTypes, DayTypeOK
  <2>2. QED
    BY <1>2, <2>1, OrdersMove DEF AssertOpen
<1>3. ASSUME NEW k \in DayOrders, Insert(k) PROVE NightParts'
  <2>1. /\ night'.late = night.late \cup {k} /\ night'.swept = night.swept
        /\ night'.failed = night.failed
    BY <1>3 DEF Insert, DayTypes, DayTypeOK
  <2>2. LiveOrders' \subseteq LiveOrders \cup {k} /\ Marked'
    BY <1>3 DEF Insert, LiveOrders, LiveStages, NightParts, Marked, DayTypes, DayTypeOK
  <2>3. QED
    BY <1>3, <2>1, <2>2, OrdersMove DEF Insert
<1>4. ASSUME NEW k \in DayOrders, MarkPending(k) \/ CommitPending(k) PROVE NightParts'
  <2>1. LiveOrders' \subseteq LiveOrders /\ Marked'
    BY <1>4 DEF MarkPending, CommitPending, LiveOrders, LiveStages, NightParts, Marked,
                DayTypes, DayTypeOK
  <2>2. QED
    BY <1>4, <2>1, OrdersMove DEF MarkPending, CommitPending
<1>5. ASSUME NEW k \in DayOrders, FillOrder(k) PROVE NightParts'
  <2>1. LiveOrders' \subseteq LiveOrders /\ Marked'
    BY <1>5 DEF FillOrder, LiveOrders, LiveStages, NightParts, Marked, DayTypes, DayTypeOK
  <2>2. QED
    BY <1>5, <2>1, OrdersMove DEF FillOrder
<1>6. ASSUME UNCHANGED <<now, stage, marking, sweeps, night>>, leases \subseteq leases'
      PROVE  NightParts'
  <2>1. LiveOrders' \subseteq LiveOrders /\ Marked'
    BY <1>6 DEF LiveOrders, NightParts, Marked
  <2>2. QED
    BY <1>6, <2>1, OrdersMove
<1>7. ASSUME NEW p \in Accounts, OpenAccount(p) PROVE NightParts'
  BY <1>6, <1>7 DEF OpenAccount
<1>8. ASSUME NEW w \in SweepWorkers, AnnounceOpen(w) PROVE NightParts'
  BY <1>6, <1>8 DEF AnnounceOpen, Acquire
<1>9. ASSUME NEW w \in SweepWorkers, BeginSweep(w) PROVE NightParts'
  BY <1>9, BeginNight
<1>10. ASSUME NEW w \in SweepWorkers, ReadOrders(w) PROVE NightParts'
  <2>1. CASE sweeps' = [sweeps EXCEPT ![w].step = "page"] /\ night' = night
    <3>1. PICK s : s = [sweeps[w] EXCEPT !.step = "page"]
      OBVIOUS
    <3>2. s.step = "page" /\ s.day = sweeps[w].day /\ sweeps' = [sweeps EXCEPT ![w] = s]
      BY <2>1, <3>1 DEF DayTypes, DayTypeOK
    <3>3. sweeps[w].step # "rest"
      BY <1>10 DEF ReadOrders
    <3>4. QED
      BY <1>10, <2>1, <3>2, <3>3, SweepGoesOn DEF ReadOrders
  <2>2. CASE /\ sweeps' = [sweeps EXCEPT ![w].step = "expire", ![w].todo = LiveOrders]
             /\ night' = IF SameNight(w) THEN [night EXCEPT !.late = {}, !.failed = {}] ELSE night
    BY <1>10, <2>2, ReadNight DEF ReadOrders
  <2>3. QED
    BY <1>10, <2>1, <2>2 DEF ReadOrders, ReadStatuses, LiveOrders
<1>11. ASSUME NEW w \in SweepWorkers, NEW k \in DayOrders, ExpireOrder(w, k) PROVE NightParts'
  BY <1>11, ExpireNight
<1>12. ASSUME NEW w \in SweepWorkers, EndExpiry(w) PROVE NightParts'
  BY <1>12, EndNight
<1>13. ASSUME NEW w \in SweepWorkers, ReadPage(w) \/ Capture(w) \/ WorkerCrash(w) PROVE NightParts'
  <2>1. PICK s : /\ sweeps' = [sweeps EXCEPT ![w] = s]
                 /\ \/ s.step = "rest"
                    \/ s.step = "page" /\ s.day = sweeps[w].day /\ sweeps[w].step # "rest"
    <3>1. CASE sweeps' = [sweeps EXCEPT ![w] = AtRest]
      <4>1. AtRest.step = "rest"
        BY DEF AtRest
      <4>2. QED
        BY <3>1, <4>1
    <3>2. CASE ReadPage(w) /\ sweeps' # [sweeps EXCEPT ![w] = AtRest]
      <4>1. PICK page, skip : sweeps' = [sweeps EXCEPT ![w].todo = page, ![w].skip = skip]
        BY <3>2 DEF ReadPage
      <4>2. PICK s : s = [sweeps[w] EXCEPT !.todo = page, !.skip = skip]
        OBVIOUS
      <4>3. s.step = "page" /\ s.day = sweeps[w].day /\ sweeps[w].step # "rest"
        BY <3>2, <4>2 DEF ReadPage, DayTypes, DayTypeOK
      <4>4. sweeps' = [sweeps EXCEPT ![w] = s]
        BY <4>1, <4>2 DEF DayTypes, DayTypeOK
      <4>5. QED
        BY <4>3, <4>4
    <3>3. CASE Capture(w)
      <4>1. sweeps[w].step = "page"
        BY <3>3 DEF Capture
      <4>2. PICK p : \/ sweeps' = [sweeps EXCEPT ![w].todo = @ \ {p}]
                     \/ sweeps' = [sweeps EXCEPT ![w].todo = @ \ {p}, ![w].due = @ \ {p}]
        BY <3>3 DEF Capture
      <4>3. CASE sweeps' = [sweeps EXCEPT ![w].todo = @ \ {p}]
        <5>1. PICK s : s = [sweeps[w] EXCEPT !.todo = @ \ {p}]
          OBVIOUS
        <5>2. s.step = "page" /\ s.day = sweeps[w].day /\ sweeps' = [sweeps EXCEPT ![w] = s]
          BY <4>1, <4>3, <5>1 DEF DayTypes, DayTypeOK
        <5>3. QED
          BY <4>1, <5>2
      <4>4. CASE sweeps' = [sweeps EXCEPT ![w].todo = @ \ {p}, ![w].due = @ \ {p}]
        <5>1. PICK s : s = [sweeps[w] EXCEPT !.todo = @ \ {p}, !.due = @ \ {p}]
          OBVIOUS
        <5>2. s.step = "page" /\ s.day = sweeps[w].day
          BY <4>1, <5>1 DEF DayTypes, DayTypeOK
        <5>3. sweeps' = [sweeps EXCEPT ![w] = s]
          BY <4>4, <5>1 DEF DayTypes, DayTypeOK
        <5>4. QED
          BY <4>1, <5>2, <5>3
      <4>5. QED
        BY <4>2, <4>3, <4>4
    <3>4. QED
      BY <1>13, <3>1, <3>2, <3>3 DEF WorkerCrash
  <2>2. /\ now' = now /\ leases' = leases /\ stage' = stage /\ marking' = marking
        /\ night'.swept = night.swept /\ night'.late = night.late /\ night'.failed = night.failed
    BY <1>13 DEF ReadPage, Capture, WorkerCrash, DayTypes, DayTypeOK
  <2>3. QED
    BY <2>1, <2>2, SweepGoesOn
<1>14. CASE UNCHANGED dayVars
  BY <1>6, <1>14 DEF dayVars
<1>15. QED
  BY <1>1, <1>2, <1>3, <1>4, <1>5, <1>7, <1>8, <1>9, <1>10, <1>11, <1>12, <1>13, <1>14 DEF DayNext

-----------------------------------------------------------------------------
(***************************************************************************)
(* The snapshots.  A portfolio that is due has its snapshot, is on the     *)
(* page being worked on, or comes after the pages that were read: accounts *)
(* that are opened move it to a later place, and never to an earlier one.  *)
(***************************************************************************)

Rank(p) == RankIn(accounts, p)

Seen(w, p) == <<p, sweeps[w].day>> \in snapshots \/ p \in sweeps[w].todo

PageParts ==
  /\ \A w \in SweepWorkers :
       /\ Busy(w) => sweeps[w].due = {} /\ sweeps[w].skip = 0
       /\ sweeps[w].step = "page" =>
            /\ sweeps[w].due \subseteq accounts
            /\ \A p \in sweeps[w].due : Seen(w, p) \/ Rank(p) >= sweeps[w].skip
  /\ SnapshotsComplete

LEMMA PageInit == DayInit => PageParts
BY DEF DayInit, PageParts, Busy, AtRest, SnapshotsComplete

LEMMA RankType == ASSUME DayTypes, NEW p PROVE Rank(p) \in Nat
<1>1. {q \in accounts : q < p} \subseteq accounts
  OBVIOUS
<1>2. QED
  BY <1>1, FS_Subset, FS_CardinalityType DEF Rank, RankIn, DayTypes

LEMMA RankGrows ==
  ASSUME DayTypes, DayTypes', accounts \subseteq accounts', NEW p
  PROVE  Rank(p)' >= Rank(p) /\ Rank(p)' \in Nat /\ Rank(p) \in Nat
<1>1. PICK S, T : S = {q \in accounts : q < p} /\ T = {q \in accounts' : q < p}
  OBVIOUS
<1>2. S \subseteq T /\ T \subseteq accounts' /\ IsFiniteSet(accounts')
  BY <1>1 DEF DayTypes
<1>3. IsFiniteSet(T)
  BY <1>2, FS_Subset
<1>4. Cardinality(S) <= Cardinality(T) /\ Cardinality(S) \in Nat /\ Cardinality(T) \in Nat
  BY <1>2, <1>3, FS_Subset, FS_CardinalityType
<1>5. QED
  BY <1>1, <1>4 DEF Rank, RankIn

\* Nothing a sweep of the snapshots looks at moves backwards.
LEMMA PagesStay ==
  ASSUME DayTypes, DayTypes', PageParts, accounts \subseteq accounts',
         snapshots \subseteq snapshots', night'.complete = night.complete,
         \A w \in SweepWorkers :
           \/ sweeps'[w] = sweeps[w]
           \/ sweeps'[w].step = "rest"
           \/ sweeps'[w].step # "rest" /\ sweeps'[w].due = {} /\ sweeps'[w].skip = 0
  PROVE  PageParts'
<1>1. ASSUME NEW w \in SweepWorkers, Busy(w)'
      PROVE  sweeps'[w].due = {} /\ sweeps'[w].skip = 0
  BY <1>1 DEF PageParts, Busy
<1>2. ASSUME NEW w \in SweepWorkers, sweeps'[w].step = "page"
      PROVE  /\ sweeps'[w].due \subseteq accounts'
             /\ \A p \in sweeps'[w].due : Seen(w, p)' \/ Rank(p)' >= sweeps'[w].skip
  <2>1. CASE sweeps'[w].due = {}
    BY <2>1
  <2>2. CASE sweeps'[w] = sweeps[w]
    <3>1. sweeps[w].due \subseteq accounts
          /\ \A p \in sweeps[w].due : Seen(w, p) \/ Rank(p) >= sweeps[w].skip
      BY <1>2, <2>2 DEF PageParts
    <3>2. \A p : Seen(w, p) => Seen(w, p)'
      BY <2>2 DEF Seen
    <3>3. sweeps[w].skip \in Nat
      BY DEF DayTypes, DayTypeOK
    <3>4. ASSUME NEW p, Rank(p) >= sweeps[w].skip PROVE Rank(p)' >= sweeps[w].skip
      <4>1. Rank(p)' >= Rank(p) /\ Rank(p)' \in Nat /\ Rank(p) \in Nat
        BY RankGrows
      <4>2. QED
        BY <3>3, <3>4, <4>1
    <3>5. QED
      BY <2>2, <3>1, <3>2, <3>4
  <2>3. QED
    BY <1>2, <2>1, <2>2
<1>3. SnapshotsComplete'
  BY DEF PageParts, SnapshotsComplete
<1>4. QED
  BY <1>1, <1>2, <1>3 DEF PageParts

\* The pages are expired orders' successors: all portfolios are due.
LEMMA EndPages ==
  ASSUME DayTypes, DayTypes', PageParts, NEW w \in SweepWorkers, EndExpiry(w)
  PROVE  PageParts'
<1>1. /\ sweeps' = [sweeps EXCEPT ![w].step = "page", ![w].due = accounts]
      /\ accounts' = accounts /\ snapshots' = snapshots /\ night'.complete = night.complete
      /\ sweeps[w].step = "expire"
  BY DEF EndExpiry, DayTypes, DayTypeOK
<1>2. \A v \in SweepWorkers \ {w} : sweeps'[v] = sweeps[v]
  BY <1>1 DEF DayTypes, DayTypeOK
<1>3. sweeps'[w].step = "page" /\ sweeps'[w].due = accounts /\ sweeps'[w].skip = 0
  BY <1>1 DEF DayTypes, DayTypeOK, PageParts, Busy
<1>4. \A p : Rank(p)' = Rank(p) /\ Rank(p) \in Nat
  BY <1>1, RankType DEF Rank
<1>5. \A v \in SweepWorkers : Busy(v)' => v # w
  BY <1>3 DEF Busy
<1>6. \A v \in SweepWorkers : Busy(v)' => sweeps'[v].due = {} /\ sweeps'[v].skip = 0
  BY <1>2, <1>5 DEF PageParts, Busy
<1>7. ASSUME NEW v \in SweepWorkers, sweeps'[v].step = "page"
      PROVE  /\ sweeps'[v].due \subseteq accounts'
             /\ \A p \in sweeps'[v].due : Seen(v, p)' \/ Rank(p)' >= sweeps'[v].skip
  <2>1. CASE v = w
    <3>1. \A p : Rank(p)' >= 0
      BY <1>4
    <3>2. QED
      BY <1>1, <1>3, <2>1, <3>1
  <2>2. CASE v # w
    <3>1. sweeps'[v] = sweeps[v]
      BY <1>2, <2>2
    <3>2. \A p : Seen(v, p)' <=> Seen(v, p)
      BY <1>1, <3>1 DEF Seen
    <3>3. QED
      BY <1>1, <1>4, <1>7, <3>1, <3>2 DEF PageParts
  <2>3. QED
    BY <2>1, <2>2
<1>8. SnapshotsComplete'
  BY <1>1 DEF PageParts, SnapshotsComplete
<1>9. QED
  BY <1>6, <1>7, <1>8 DEF PageParts

\* The sweep changes what it has to do, and loses sight of nothing that is due.
LEMMA SweepPages ==
  ASSUME DayTypes, PageParts, NEW w \in SweepWorkers, NEW s, s.step = "page",
         s.day = sweeps[w].day, sweeps' = [sweeps EXCEPT ![w] = s],
         accounts' = accounts, snapshots \subseteq snapshots', night' = night,
         s.due \subseteq accounts,
         \A p \in s.due : \/ <<p, s.day>> \in snapshots' \/ p \in s.todo
                          \/ Rank(p) >= s.skip
  PROVE  PageParts'
<1>1. \A v \in SweepWorkers : sweeps'[v] = IF v = w THEN s ELSE sweeps[v]
  BY DEF DayTypes, DayTypeOK
<1>2. \A p : Rank(p)' = Rank(p)
  BY DEF Rank
<1>3. \A v \in SweepWorkers : Busy(v)' => v # w
  BY <1>1 DEF Busy
<1>4. \A v \in SweepWorkers : Busy(v)' => sweeps'[v].due = {} /\ sweeps'[v].skip = 0
  BY <1>1, <1>3 DEF PageParts, Busy
<1>5. ASSUME NEW v \in SweepWorkers, sweeps'[v].step = "page"
      PROVE  /\ sweeps'[v].due \subseteq accounts'
             /\ \A p \in sweeps'[v].due : Seen(v, p)' \/ Rank(p)' >= sweeps'[v].skip
  <2>1. CASE v = w
    BY <1>1, <1>2, <2>1 DEF Seen
  <2>2. CASE v # w
    <3>1. sweeps'[v] = sweeps[v]
      BY <1>1, <2>2
    <3>2. \A p : Seen(v, p) => Seen(v, p)'
      BY <3>1 DEF Seen
    <3>3. QED
      BY <1>2, <1>5, <3>1, <3>2 DEF PageParts
  <2>3. QED
    BY <2>1, <2>2
<1>6. SnapshotsComplete'
  BY DEF PageParts, SnapshotsComplete
<1>7. QED
  BY <1>4, <1>5, <1>6 DEF PageParts

\* An empty page comes after all portfolios.
LEMMA EmptyPage ==
  ASSUME DayTypes, NEW skip \in Nat, Page(skip) = {}, NEW p \in accounts, Rank(p) >= skip
  PROVE  FALSE
<1>1. PICK S : S = accounts
  OBVIOUS
<1>2. S \subseteq Int
  BY <1>1, DayAssumption DEF DayTypes, DayTypeOK
<1>3. IsFiniteSet(S)
  BY <1>1 DEF DayTypes
<1>4. p \in S /\ RankIn(S, p) >= skip
  BY <1>1 DEF Rank
<1>5. PICK q \in S : RankIn(S, q) = skip
  BY <1>2, <1>3, <1>4, RanksHaveNoGaps
<1>6. skip \in skip .. skip + PageSize - 1
  BY DayAssumption
<1>7. QED
  BY <1>1, <1>5, <1>6 DEF Page, RankIn

LEMMA ReadPages ==
  ASSUME DayTypes, DayTypes', PageParts, NEW w \in SweepWorkers, ReadPage(w)
  PROVE  PageParts'
<1>0. PICK skip \in Nat : skip = sweeps[w].skip
  BY DEF DayTypes, DayTypeOK
<1>1. /\ sweeps[w].step = "page" /\ sweeps[w].todo = {} /\ sweeps[w].due \subseteq accounts
      /\ \A p \in sweeps[w].due : <<p, sweeps[w].day>> \in snapshots \/ Rank(p) >= skip
      /\ accounts' = accounts /\ snapshots' = snapshots
  BY <1>0 DEF ReadPage, PageParts, Seen
<1>2. CASE Page(skip) # {}
  <2>1. PICK page : page = Page(skip)
    OBVIOUS
  <2>2. sweeps' = [sweeps EXCEPT ![w].todo = page, ![w].skip = @ + PageSize] /\ night' = night
    BY <1>0, <1>2, <2>1 DEF ReadPage
  <2>3. PICK s : s = [sweeps[w] EXCEPT !.todo = page, !.skip = @ + PageSize]
    OBVIOUS
  <2>4. /\ s.step = "page" /\ s.day = sweeps[w].day /\ s.todo = page
        /\ s.skip = skip + PageSize /\ s.due = sweeps[w].due
    BY <1>0, <1>1, <2>3 DEF DayTypes, DayTypeOK
  <2>5. sweeps' = [sweeps EXCEPT ![w] = s]
    BY <2>2, <2>3 DEF DayTypes, DayTypeOK
  <2>6. ASSUME NEW p \in s.due
        PROVE  <<p, s.day>> \in snapshots' \/ p \in s.todo \/ Rank(p) >= s.skip
    <3>1. p \in accounts /\ (<<p, s.day>> \in snapshots \/ Rank(p) >= skip)
      BY <1>1, <2>4
    <3>2. Rank(p) \in Nat
      BY RankType
    <3>3. Rank(p) >= skip => Rank(p) \in skip .. skip + PageSize - 1 \/ Rank(p) >= skip + PageSize
      BY <3>2, DayAssumption
    <3>4. Rank(p) \in skip .. skip + PageSize - 1 => p \in page
      BY <2>1, <3>1 DEF Page, Rank, RankIn
    <3>5. QED
      BY <1>1, <2>4, <3>1, <3>3, <3>4
  <2>7. QED
    BY <1>1, <2>2, <2>4, <2>5, <2>6, SweepPages
<1>3. CASE Page(skip) = {}
  <2>1. /\ sweeps' = [sweeps EXCEPT ![w] = AtRest]
        /\ night'.complete = night.complete \cup (sweeps[w].due \X {sweeps[w].day})
    BY <1>0, <1>3 DEF ReadPage, DayTypes, DayTypeOK
  <2>2. \A p \in sweeps[w].due : <<p, sweeps[w].day>> \in snapshots
    BY <1>1, <1>3, EmptyPage
  <2>3. SnapshotsComplete'
    <3>1. \A x \in sweeps[w].due \X {sweeps[w].day} : x \in snapshots
      BY <2>2
    <3>2. QED
      BY <1>1, <2>1, <3>1 DEF PageParts, SnapshotsComplete
  <2>4. \A v \in SweepWorkers : sweeps'[v] = IF v = w THEN AtRest ELSE sweeps[v]
    BY <2>1 DEF DayTypes, DayTypeOK
  <2>5. AtRest.step = "rest"
    BY DEF AtRest
  <2>6. \A v \in SweepWorkers : Busy(v)' => sweeps'[v].due = {} /\ sweeps'[v].skip = 0
    BY <2>4, <2>5 DEF PageParts, Busy
  <2>7. ASSUME NEW v \in SweepWorkers, sweeps'[v].step = "page"
        PROVE  /\ sweeps'[v].due \subseteq accounts'
               /\ \A p \in sweeps'[v].due : Seen(v, p)' \/ Rank(p)' >= sweeps'[v].skip
    <3>1. sweeps'[v] = sweeps[v]
      BY <2>4, <2>5, <2>7
    <3>2. \A p : (Seen(v, p) => Seen(v, p)') /\ Rank(p)' = Rank(p)
      BY <1>1, <3>1 DEF Seen, Rank
    <3>3. QED
      BY <1>1, <2>7, <3>1, <3>2 DEF PageParts
  <2>8. QED
    BY <2>3, <2>6, <2>7 DEF PageParts
<1>4. QED
  BY <1>2, <1>3

LEMMA CapturePages ==
  ASSUME DayTypes, PageParts, NEW w \in SweepWorkers, Capture(w)
  PROVE  PageParts'
<1>1. /\ sweeps[w].step = "page" /\ sweeps[w].due \subseteq accounts
      /\ \A p \in sweeps[w].due : Seen(w, p) \/ Rank(p) >= sweeps[w].skip
      /\ accounts' = accounts /\ night' = night
  BY DEF Capture, PageParts
<1>2. PICK p : \/ /\ sweeps' = [sweeps EXCEPT ![w].todo = @ \ {p}]
                  /\ snapshots' = snapshots \cup {<<p, sweeps[w].day>>}
               \/ /\ sweeps' = [sweeps EXCEPT ![w].todo = @ \ {p}, ![w].due = @ \ {p}]
                  /\ snapshots' = snapshots
  BY DEF Capture
<1>3. CASE /\ sweeps' = [sweeps EXCEPT ![w].todo = @ \ {p}]
           /\ snapshots' = snapshots \cup {<<p, sweeps[w].day>>}
  <2>1. PICK s : s = [sweeps[w] EXCEPT !.todo = @ \ {p}]
    OBVIOUS
  <2>2. /\ s.step = "page" /\ s.day = sweeps[w].day /\ s.todo = sweeps[w].todo \ {p}
        /\ s.skip = sweeps[w].skip /\ s.due = sweeps[w].due
    BY <1>1, <2>1 DEF DayTypes, DayTypeOK
  <2>3. sweeps' = [sweeps EXCEPT ![w] = s]
    BY <1>3, <2>1 DEF DayTypes, DayTypeOK
  <2>4. \A q \in s.due : <<q, s.day>> \in snapshots' \/ q \in s.todo \/ Rank(q) >= s.skip
    BY <1>1, <1>3, <2>2 DEF Seen
  <2>5. QED
    BY <1>1, <1>3, <2>2, <2>3, <2>4, SweepPages
<1>4. CASE /\ sweeps' = [sweeps EXCEPT ![w].todo = @ \ {p}, ![w].due = @ \ {p}]
           /\ snapshots' = snapshots
  <2>1. PICK s : s = [sweeps[w] EXCEPT !.todo = @ \ {p}, !.due = @ \ {p}]
    OBVIOUS
  <2>2. /\ s.step = "page" /\ s.day = sweeps[w].day /\ s.todo = sweeps[w].todo \ {p}
        /\ s.skip = sweeps[w].skip /\ s.due = sweeps[w].due \ {p}
    BY <1>1, <2>1 DEF DayTypes, DayTypeOK
  <2>3. sweeps' = [sweeps EXCEPT ![w] = s]
    BY <1>4, <2>1 DEF DayTypes, DayTypeOK
  <2>4. \A q \in s.due : <<q, s.day>> \in snapshots' \/ q \in s.todo \/ Rank(q) >= s.skip
    BY <1>1, <1>4, <2>2 DEF Seen
  <2>5. QED
    BY <1>1, <1>4, <2>2, <2>3, <2>4, SweepPages
<1>5. QED
  BY <1>2, <1>3, <1>4

LEMMA PageStep == DayTypes /\ DayTypes' /\ PageParts /\ [DayNext]_dayVars => PageParts'
<1> SUFFICES ASSUME DayTypes, DayTypes', PageParts, [DayNext]_dayVars PROVE PageParts'
  OBVIOUS
<1>1. ASSUME sweeps' = sweeps, accounts \subseteq accounts', snapshots' = snapshots,
             night'.complete = night.complete
      PROVE  PageParts'
  BY <1>1, PagesStay
<1>2. ASSUME Passes \/ UNCHANGED dayVars PROVE PageParts'
  BY <1>1, <1>2 DEF Passes, dayVars, DayTypes, DayTypeOK
<1>3. ASSUME NEW k \in DayOrders, AssertOpen(k) \/ Insert(k) \/ MarkPending(k) PROVE PageParts'
  BY <1>1, <1>3 DEF AssertOpen, Insert, MarkPending, DayTypes, DayTypeOK
<1>4. ASSUME NEW k \in DayOrders, CommitPending(k) \/ FillOrder(k) PROVE PageParts'
  BY <1>1, <1>4 DEF CommitPending, FillOrder
<1>5. ASSUME NEW p \in Accounts, OpenAccount(p) PROVE PageParts'
  BY <1>1, <1>5 DEF OpenAccount
<1>6. ASSUME NEW w \in SweepWorkers, AnnounceOpen(w) PROVE PageParts'
  BY <1>1, <1>6 DEF AnnounceOpen
<1>7. ASSUME NEW w \in SweepWorkers, BeginSweep(w) \/ WorkerCrash(w) PROVE PageParts'
  <2>1. PICK s : /\ sweeps' = [sweeps EXCEPT ![w] = s]
                 /\ s.step = "rest" \/ (s.step = "read" /\ s.due = {} /\ s.skip = 0)
    <3>1. CASE BeginSweep(w)
      <4>1. PICK s : s = [AtRest EXCEPT !.step = "read", !.day = Day]
        OBVIOUS
      <4>2. s.step = "read" /\ s.due = {} /\ s.skip = 0
        BY <4>1 DEF AtRest
      <4>3. sweeps' = [sweeps EXCEPT ![w] = s]
        BY <3>1, <4>1 DEF BeginSweep
      <4>4. QED
        BY <4>2, <4>3
    <3>2. CASE WorkerCrash(w)
      <4>1. AtRest.step = "rest"
        BY DEF AtRest
      <4>2. QED
        BY <3>2, <4>1 DEF WorkerCrash
    <3>3. QED
      BY <1>7, <3>1, <3>2
  <2>2. \A v \in SweepWorkers : sweeps'[v] = IF v = w THEN s ELSE sweeps[v]
    BY <2>1 DEF DayTypes, DayTypeOK
  <2>3. accounts' = accounts /\ snapshots' = snapshots /\ night' = night
    BY <1>7 DEF BeginSweep, WorkerCrash
  <2>4. QED
    BY <2>1, <2>2, <2>3, PagesStay
<1>8. ASSUME NEW w \in SweepWorkers, ReadOrders(w) PROVE PageParts'
  <2>1. \A v \in SweepWorkers \ {w} : sweeps'[v] = sweeps[v]
    BY <1>8 DEF ReadOrders, DayTypes, DayTypeOK
  <2>2. sweeps'[w].step # "rest" /\ sweeps'[w].due = {} /\ sweeps'[w].skip = 0
    <3>1. sweeps[w].due = {} /\ sweeps[w].skip = 0
      BY <1>8 DEF ReadOrders, PageParts, Busy
    <3>2. sweeps'[w].due = sweeps[w].due /\ sweeps'[w].skip = sweeps[w].skip /\ sweeps'[w].step # "rest"
      BY <1>8 DEF ReadOrders, DayTypes, DayTypeOK
    <3>3. QED
      BY <3>1, <3>2
  <2>3. accounts' = accounts /\ snapshots' = snapshots /\ night'.complete = night.complete
    BY <1>8 DEF ReadOrders, DayTypes, DayTypeOK
  <2>4. QED
    BY <2>1, <2>2, <2>3, PagesStay
<1>9. ASSUME NEW w \in SweepWorkers, NEW k \in DayOrders, ExpireOrder(w, k) PROVE PageParts'
  <2>1. \A v \in SweepWorkers \ {w} : sweeps'[v] = sweeps[v]
    BY <1>9 DEF ExpireOrder, DayTypes, DayTypeOK
  <2>2. sweeps'[w].step # "rest" /\ sweeps'[w].due = {} /\ sweeps'[w].skip = 0
    <3>1. sweeps[w].due = {} /\ sweeps[w].skip = 0
      BY <1>9 DEF ExpireOrder, PageParts, Busy
    <3>2. sweeps'[w].due = sweeps[w].due /\ sweeps'[w].skip = sweeps[w].skip /\ sweeps'[w].step # "rest"
      BY <1>9 DEF ExpireOrder, DayTypes, DayTypeOK
    <3>3. QED
      BY <3>1, <3>2
  <2>3. accounts' = accounts /\ snapshots' = snapshots /\ night'.complete = night.complete
    BY <1>9 DEF ExpireOrder, DayTypes, DayTypeOK
  <2>4. QED
    BY <2>1, <2>2, <2>3, PagesStay
<1>10. ASSUME NEW w \in SweepWorkers, EndExpiry(w) PROVE PageParts'
  BY <1>10, EndPages
<1>11. ASSUME NEW w \in SweepWorkers, ReadPage(w) PROVE PageParts'
  BY <1>11, ReadPages
<1>12. ASSUME NEW w \in SweepWorkers, Capture(w) PROVE PageParts'
  BY <1>12, CapturePages
<1>13. QED
  BY <1>2, <1>3, <1>4, <1>5, <1>6, <1>7, <1>8, <1>9, <1>10, <1>11, <1>12 DEF DayNext

DayInv == DayTypes /\ NightParts /\ PageParts

\* The clock, the orders, the sweeps and the tables keep their types, for any
\* day, orders, workers, portfolios and page size (the states a sweep goes
\* through in eod-sweep.service.ts).
THEOREM DayTypeCorrect == DaySpec => []DayTypeOK
<1>1. DayInit => DayTypes
  BY DayTypesInit
<1>2. DayTypes /\ [DayNext]_dayVars => DayTypes'
  BY DayTypesStep
<1>3. DayTypes => DayTypeOK
  BY DEF DayTypes
<1>4. QED
  BY <1>1, <1>2, <1>3, PTL DEF DaySpec

\* Both halves of the close of a day, for any number of workers, orders,
\* portfolios and crashes: in the night after a sweep every live order was
\* inserted behind its back or failed to expire, and every portfolio that was
\* due when the pages began and did not fail has its snapshot (executeSweep,
\* expireOrder and snapshotPortfolios of EodSweepService, and markOrderPending
\* of the order service, which runs between them).
THEOREM SweepsAreComplete == DaySpec => []SweepComplete
<1>1. DayInit => DayInv
  BY DayTypesInit, NightInit, PageInit DEF DayInv
<1>2. DayInv /\ [DayNext]_dayVars => DayInv'
  BY DayTypesStep, NightStep, PageStep DEF DayInv
<1>3. DayInv => SweepComplete
  BY DEF DayInv, NightParts, PageParts, SweepComplete
<1>4. QED
  BY <1>1, <1>2, <1>3, PTL DEF DaySpec
=============================================================================
