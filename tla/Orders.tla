------------------------------- MODULE Orders -------------------------------
(***************************************************************************)
(* The order service of the API: placeOrder, markOrderPending,             *)
(* activateStopLimit, processFill, cancelOrder and expireOrder, with the   *)
(* rows they change: orders, portfolios, positions, order_fills, the       *)
(* ledger and the outbox.                                                  *)
(*                                                                         *)
(* Each of these operations is one database transaction that locks the     *)
(* portfolio row (markOrderPending and activateStopLimit: the order row)   *)
(* before it reads anything it writes, so it is one action here.           *)
(* placeOrder is two: the session check and the look-up of the             *)
(* idempotency key run before the transaction, and other calls may run in  *)
(* between.                                                                *)
(*                                                                         *)
(* Prices and amounts are integers: a price stands for a multiple of the   *)
(* smallest unit for which 1.05, 0.95 and 0.50 of it are exact.            *)
(***************************************************************************)
EXTENDS Integers, FiniteSets, Sums

CONSTANTS
  Users, Portfolios, Symbols,
  Owner,        \* Portfolio.userId, for every portfolio
  Margin,       \* the portfolios whose isMarginEnabled is set
  Keys,         \* the (user, idempotencyKey) pairs clients use
  Calls,        \* the calls of placeOrder clients make
  KeyOf,        \* the key of each call: a retry repeats the key
  Body,         \* the PlaceOrderDto of each call
  FillPrices,   \* the prices executions may have
  Depth,        \* LiquidityProfile.availableDepth of each symbol
  OpeningCash,  \* Portfolio.totalCash before the first order
  NoOrder       \* the row that is not there

LimitTypes == {"LIMIT", "STOP_LIMIT"}
OrderTypes == {"MARKET", "STOP"} \cup LimitTypes

\* PlaceOrderDto, as the client sends it: nothing keeps a quantity or a
\* price from being negative.  A price that is missing is 0.
Dto == [user : Users, portfolio : Portfolios, symbol : Symbols,
        side : {"BUY", "SELL"}, type : OrderTypes, requested : Int,
        limit : Int, stop : Int, market : Int]

ASSUME UsersAssumption ==
  /\ Owner \in [Portfolios -> Users]
  /\ \A p, q \in Portfolios : Owner[p] = Owner[q] => p = q
  /\ Margin \subseteq Portfolios
ASSUME FinitenessAssumption == IsFiniteSet(Users) /\ IsFiniteSet(Keys)
ASSUME CallsAssumption ==
  /\ KeyOf \in [Calls -> Keys]
  /\ Body \in [Calls -> Dto]
ASSUME PricesAssumption ==
  /\ FillPrices \subseteq Nat
  /\ Depth \in [Symbols -> Nat \ {0}]
  /\ OpeningCash \in [Portfolios -> Nat]

VARIABLES
  isOpen,     \* MarketSessionService.isOpen()
  phase,      \* how far each call of placeOrder is, or what it answered
  orders,     \* table orders
  portfolios, \* table portfolios: totalCash, lockedCash, lockedMargin
  positions,  \* table positions: quantity, lockedQuantity
  fills,      \* table order_fills
  ledger,     \* balances of the ledger's accounts: sum of credits - debits
  outbox      \* table outbox_events: what was ever written to it

vars == <<isOpen, phase, orders, portfolios, positions, fills, ledger, outbox>>

Statuses == {"ACCEPTED", "PENDING", "PARTIALLY_FILLED",
             "FILLED", "CANCELLED", "EXPIRED"}

Order == [portfolio : Portfolios, symbol : Symbols, side : {"BUY", "SELL"},
          type : OrderTypes, requested : Nat, limit : Int, filled : Nat,
          reservationPrice : Int, reservedMargin : Nat,
          status : Statuses, isActivated : BOOLEAN]

ASSUME NoOrderAssumption == NoOrder \notin Order

PortfolioRow == [totalCash : Int, lockedCash : Int, lockedMargin : Int]

PositionRow == [quantity : Int, lockedQuantity : Int]

Balances == [userCash : [Users -> Int], platformCash : Int,
             userSec : [Users \X Symbols -> Int], platformSec : [Symbols -> Int]]

Fill == [order : Keys, key : Nat, quantity : Nat, price : Nat]

EventTypes == {"ORDER_ACCEPTED", "ORDER_PENDING", "ORDER_ACTIVATED",
               "ORDER_PARTIALLY_FILLED", "ORDER_FILLED", "ORDER_CANCELLED",
               "ORDER_EXPIRED", "POSITION_UPDATED", "POSITION_CLOSED"}

\* An event of an order; "fill" is the execution key of the fill it reports.
Event == [type : EventTypes, order : Keys, fill : Nat]

Exists(k) == orders[k] # NoOrder

\* VALID_TRANSITIONS, for the statuses the service writes.
Transitions(from) ==
  CASE from = "ACCEPTED"         -> {"PENDING", "CANCELLED", "EXPIRED"}
    [] from = "PENDING"          -> {"PARTIALLY_FILLED", "FILLED", "CANCELLED", "EXPIRED"}
    [] from = "PARTIALLY_FILLED" -> {"PARTIALLY_FILLED", "FILLED", "CANCELLED", "EXPIRED"}
    [] OTHER                     -> {}

\* Mutant: whatever became of the order, it can be cancelled.
ValidTransitionOrCancel(from, to) == to \in Transitions(from) \/ to = "CANCELLED"

ValidTransition(from, to) == to \in Transitions(from)

Emit(type, k, fill) == [type |-> type, order |-> k, fill |-> fill]

PositiveOrZero(n) == IF n > 0 THEN n ELSE 0

-----------------------------------------------------------------------------
(***************************************************************************)
(* Funds and reservations.                                                 *)
(***************************************************************************)

IsMarginEnabled(p) == p \in Margin

ReservationPrice(d) ==
  CASE d.type \in LimitTypes -> d.limit
    [] d.type \notin LimitTypes /\ d.side = "BUY"  -> (d.market * 105) \div 100
    [] d.type \notin LimitTypes /\ d.side = "SELL" -> (d.market * 95) \div 100

RequiredCash(d) == d.requested * ReservationPrice(d)

\* Mutant: what other BUY orders have reserved still counts.
AvailableCashIgnoresLocks(p) == portfolios[p].totalCash

AvailableCash(p) == portfolios[p].totalCash - portfolios[p].lockedCash

\* Mutant: what other SELL orders have locked still counts.
AvailableQuantityIgnoresLocks(p, s) == positions[<<p, s>>].quantity

AvailableQuantity(p, s) ==
  positions[<<p, s>>].quantity - positions[<<p, s>>].lockedQuantity

\* How much of the order adds to the exposure of the current position; the
\* other live orders of the portfolio are not looked at.
ExposureIncreasingQty(d) ==
  LET held == positions[<<d.portfolio, d.symbol>>].quantity
  IN IF d.side = "BUY" THEN PositiveOrZero(d.requested - PositiveOrZero(-held))
                       ELSE PositiveOrZero(d.requested - PositiveOrZero(held))

\* IM_RATE is 0.50.
MarginToReserve(d) == (ExposureIncreasingQty(d) * ReservationPrice(d)) \div 2

\* The valuation inside the transaction is built without a price cache, so
\* it throws on the first position that is not flat ...
ValuationThrows(p) == \E s \in Symbols : positions[<<p, s>>].quantity # 0

\* ... and values nothing but cash when every position is flat.
FreeMargin(p) == portfolios[p].totalCash - portfolios[p].lockedMargin

ReservesMargin(d) == IsMarginEnabled(d.portfolio) /\ ExposureIncreasingQty(d) > 0

Throws(d) ==
  /\ Owner[d.portfolio] = d.user
  /\ ReservesMargin(d)
  /\ ValuationThrows(d.portfolio)

Insufficient(d) ==
  \/ Owner[d.portfolio] # d.user
  \/ ReservesMargin(d) /\ FreeMargin(d.portfolio) < MarginToReserve(d)
  \/ /\ ~IsMarginEnabled(d.portfolio)
     /\ \/ d.side = "BUY" /\ AvailableCash(d.portfolio) < RequiredCash(d)
        \/ d.side = "SELL" /\ AvailableQuantity(d.portfolio, d.symbol) < d.requested

-----------------------------------------------------------------------------
Init ==
  /\ isOpen = FALSE
  /\ phase = [c \in Calls |-> "idle"]
  /\ orders = [k \in Keys |-> NoOrder]
  /\ portfolios = [p \in Portfolios |->
                     [totalCash |-> OpeningCash[p], lockedCash |-> 0, lockedMargin |-> 0]]
  /\ positions = [ps \in Portfolios \X Symbols |-> [quantity |-> 0, lockedQuantity |-> 0]]
  /\ fills = {}
  /\ ledger = [userCash |-> [u \in Users |-> 0], platformCash |-> 0,
               userSec |-> [us \in Users \X Symbols |-> 0],
               platformSec |-> [s \in Symbols |-> 0]]
  /\ outbox = {}

\* 09:15 and 15:30 in the exchange's time zone.
ChangeSession ==
  /\ isOpen' = ~isOpen
  /\ UNCHANGED <<phase, orders, portfolios, positions, fills, ledger, outbox>>

-----------------------------------------------------------------------------
(***************************************************************************)
(* placeOrder.                                                             *)
(***************************************************************************)

\* A quantity has to be positive; a price only has to be there.
Valid(d) ==
  /\ d.requested > 0
  /\ d.type \in LimitTypes => d.limit # 0
  /\ d.type \in {"STOP", "STOP_LIMIT"} => d.stop # 0

Answer(c, what) ==
  /\ phase' = [phase EXCEPT ![c] = what]
  /\ UNCHANGED <<isOpen, orders, portfolios, positions, fills, ledger, outbox>>

\* Validation, assertOpen and the look-up of the key, before the transaction.
BeginPlaceOrder(c) ==
  /\ phase[c] = "idle"
  /\ \/ /\ ~Valid(Body[c]) \/ ~isOpen
        /\ Answer(c, "rejected")
     \/ /\ Valid(Body[c]) /\ isOpen
        /\ Exists(KeyOf[c])
        /\ Answer(c, "existing")
     \/ /\ Valid(Body[c]) /\ isOpen
        /\ ~Exists(KeyOf[c])
        /\ Answer(c, "checked")

\* The transaction throws before it writes anything.
PlaceOrderFails(c) ==
  /\ phase[c] = "checked"
  /\ \/ Throws(Body[c]) /\ Answer(c, "crashed")
     \/ ~Throws(Body[c]) /\ Insufficient(Body[c]) /\ Answer(c, "insufficient")

\* Mutant: the table has no such key.
UniqueKeyMissing(k) == FALSE

\* The unique key idx_orders_user_idempotency refuses the insert.
UniqueKeyViolated(k) == Exists(k)

\* The insert violates the unique key (P2002): the reservation is rolled
\* back with it and the order of the key is the answer.
PlaceOrderFindsDuplicate(c) ==
  /\ phase[c] = "checked"
  /\ ~Throws(Body[c]) /\ ~Insufficient(Body[c])
  /\ UniqueKeyViolated(KeyOf[c])
  /\ Answer(c, "existing")

\* Mutant: a SELL is inserted with a signed quantity.
NewOrderSigned(d) ==
  [portfolio |-> d.portfolio, symbol |-> d.symbol, side |-> d.side, type |-> d.type,
   requested |-> IF d.side = "BUY" THEN d.requested ELSE -d.requested,
   limit |-> d.limit, filled |-> 0, reservationPrice |-> ReservationPrice(d),
   reservedMargin |-> 0, status |-> "ACCEPTED", isActivated |-> FALSE]

\* The order as it is inserted: reservedMargin is left null (0).
NewOrder(d) ==
  [portfolio |-> d.portfolio, symbol |-> d.symbol, side |-> d.side,
   type |-> d.type, requested |-> d.requested, limit |-> d.limit, filled |-> 0,
   reservationPrice |-> IF d.side = "BUY" THEN ReservationPrice(d) ELSE 0,
   reservedMargin |-> 0, status |-> "ACCEPTED", isActivated |-> FALSE]

LockFunds(p, d) ==
  [totalCash    |-> p.totalCash,
   lockedCash   |-> p.lockedCash + IF ~IsMarginEnabled(d.portfolio) /\ d.side = "BUY"
                                   THEN RequiredCash(d) ELSE 0,
   lockedMargin |-> p.lockedMargin + IF ReservesMargin(d) THEN MarginToReserve(d) ELSE 0]

LockPosition(x, d) ==
  [x EXCEPT !.lockedQuantity = @ + IF d.side = "SELL" THEN d.requested ELSE 0]

PlaceOrder(c) ==
  LET d == Body[c]
      k == KeyOf[c]
  IN /\ phase[c] = "checked"
     /\ ~Throws(d) /\ ~Insufficient(d)
     /\ ~UniqueKeyViolated(k)
     /\ phase' = [phase EXCEPT ![c] = "placed"]
     /\ portfolios' = [portfolios EXCEPT ![d.portfolio] = LockFunds(@, d)]
     /\ positions' = [positions EXCEPT ![<<d.portfolio, d.symbol>>] = LockPosition(@, d)]
     /\ orders' = [orders EXCEPT ![k] = NewOrder(d)]
     /\ outbox' = outbox \cup {Emit("ORDER_ACCEPTED", k, 0)}
     /\ UNCHANGED <<isOpen, fills, ledger>>

-----------------------------------------------------------------------------
(***************************************************************************)
(* The way to the engine.  A call of markOrderPending outside the session  *)
(* is an expireOrder; one that sees the session close in its transaction   *)
(* throws and changes nothing.                                             *)
(***************************************************************************)

SetStatus(k, to) == [orders EXCEPT ![k].status = to]

MarkOrderPending(k) ==
  /\ isOpen
  /\ Exists(k)
  /\ ValidTransition(orders[k].status, "PENDING")
  /\ orders' = SetStatus(k, "PENDING")
  /\ outbox' = outbox \cup {Emit("ORDER_PENDING", k, 0)}
  /\ UNCHANGED <<isOpen, phase, portfolios, positions, fills, ledger>>

\* Mutant: the event is written and the flag is not.
ActivatedInTheEventOnly(k) == orders

Activated(k) == [orders EXCEPT ![k].isActivated = TRUE]

\* The engine, its one caller, calls it for STOP_LIMIT orders.
ActivateStopLimit(k) ==
  /\ Exists(k)
  /\ orders[k].type = "STOP_LIMIT"
  /\ orders[k].status = "PENDING"
  /\ ~orders[k].isActivated
  /\ orders' = Activated(k)
  /\ outbox' = outbox \cup {Emit("ORDER_ACTIVATED", k, 0)}
  /\ UNCHANGED <<isOpen, phase, portfolios, positions, fills, ledger>>

-----------------------------------------------------------------------------
(***************************************************************************)
(* processFill.  Its caller is an execution job the engine built from a    *)
(* snapshot of the order: the quantity is what the depth allows of what    *)
(* was then open, the execution key is the filled quantity the fill leads  *)
(* to.  Jobs may be late and may come twice, so the snapshot may be older  *)
(* than the order.                                                         *)
(***************************************************************************)

Remaining(k) == orders[k].requested - orders[k].filled

KeysOf(k) == {f.key : f \in {g \in fills : g.order = k}}

\* The filled quantities an engine may have seen.
Snapshots(k) == {0} \cup KeysOf(k)

ExecutableQty(k, seen) ==
  LET left  == orders[k].requested - seen
      depth == Depth[orders[k].symbol]
  IN IF left < depth THEN left ELSE depth

\* A LIMIT or an activated STOP_LIMIT is only dispatched at its limit or better.
WithinLimit(k, price) ==
  orders[k].type \in LimitTypes =>
     IF orders[k].side = "BUY" THEN price <= orders[k].limit
                               ELSE price >= orders[k].limit

\* marginToRelease, for an order with a reservedMargin.
MarginToRelease(o, qty) ==
  IF o.reservedMargin = 0 THEN 0 ELSE (o.reservedMargin * qty) \div o.requested

PortfolioOnFill(p, o, qty, price) ==
  IF o.side = "SELL"
  THEN [p EXCEPT !.totalCash = @ + qty * price]
  ELSE [totalCash    |-> p.totalCash - qty * price,
        lockedCash   |-> p.lockedCash - IF IsMarginEnabled(o.portfolio)
                                        THEN 0 ELSE qty * o.reservationPrice,
        lockedMargin |-> p.lockedMargin - IF IsMarginEnabled(o.portfolio)
                                          THEN MarginToRelease(o, qty) ELSE 0]

AdjustOnBuy(x, qty) == [x EXCEPT !.quantity = @ + qty]

\* Mutant: a position cannot become short.
AdjustOnSellClamped(x, qty) ==
  [quantity |-> PositiveOrZero(x.quantity - qty), lockedQuantity |-> x.lockedQuantity - qty]

AdjustOnSell(x, qty) ==
  [quantity |-> x.quantity - qty, lockedQuantity |-> x.lockedQuantity - qty]

\* Mutant: only the user's accounts are posted to.
PostedToTheUserOnly(l, o, qty, price) ==
  LET u == Owner[o.portfolio]
      n == IF o.side = "BUY" THEN 1 ELSE -1
  IN [l EXCEPT !.userCash[u] = @ - n * qty * price, !.userSec[<<u, o.symbol>>] = @ + n * qty]

\* The four entries of a fill: user and platform, cash and security.
Posted(l, o, qty, price) ==
  LET u     == Owner[o.portfolio]
      cash  == IF o.side = "BUY" THEN -(qty * price) ELSE qty * price
      units == IF o.side = "BUY" THEN qty ELSE -qty
  IN [userCash     |-> [l.userCash EXCEPT ![u] = @ + cash],
      platformCash |-> l.platformCash - cash,
      userSec      |-> [l.userSec EXCEPT ![<<u, o.symbol>>] = @ + units],
      platformSec  |-> [l.platformSec EXCEPT ![o.symbol] = @ - units]]

\* Mutant: the last fill leaves the order open.
StateAfterNeverFilled(now, requested) == "PARTIALLY_FILLED"

StateAfter(now, requested) == IF now = requested THEN "FILLED" ELSE "PARTIALLY_FILLED"

\* Mutant: there is no such key.
ExecutedNever(k, key) == FALSE

\* The unique key (orderId, executionIdempotencyKey) refuses a second fill.
Executed(k, key) == key \in KeysOf(k)

ProcessFill(k, seen, price) ==
  LET o     == orders[k]
      qty   == ExecutableQty(k, seen)
      now   == o.filled + qty
      ps    == <<o.portfolio, o.symbol>>
      moved == IF o.side = "BUY" THEN AdjustOnBuy(positions[ps], qty)
                                 ELSE AdjustOnSell(positions[ps], qty)
      state == StateAfter(now, o.requested)
  IN /\ Exists(k)
     /\ seen \in Snapshots(k)
     /\ qty > 0
     /\ WithinLimit(k, price)
     /\ o.status \in {"PENDING", "PARTIALLY_FILLED"}
     /\ now <= o.requested
     /\ ValidTransition(o.status, state)
     /\ ~Executed(k, seen + qty)
     /\ o.side = "SELL" => positions[ps].lockedQuantity >= qty
     /\ orders' = [orders EXCEPT ![k].filled = now, ![k].status = state]
     /\ fills' = fills \cup {[order |-> k, key |-> seen + qty,
                              quantity |-> qty, price |-> price]}
     /\ portfolios' = [portfolios EXCEPT ![o.portfolio] = PortfolioOnFill(@, o, qty, price)]
     /\ positions' = [positions EXCEPT ![ps] = moved]
     /\ ledger' = Posted(ledger, o, qty, price)
     /\ outbox' = outbox \cup
          {Emit(IF moved.quantity = 0 THEN "POSITION_CLOSED" ELSE "POSITION_UPDATED",
                k, seen + qty),
           Emit(IF state = "FILLED" THEN "ORDER_FILLED" ELSE "ORDER_PARTIALLY_FILLED",
                k, seen + qty)}
     /\ UNCHANGED <<isOpen, phase>>

-----------------------------------------------------------------------------
(***************************************************************************)
(* cancelOrder and expireOrder release what is left of the reservation.    *)
(***************************************************************************)

\* Mutant: what was filled before is released a second time.
ReleaseFundsOfTheWholeOrder(p, o, left) ==
  [p EXCEPT !.lockedCash = @ - IF o.side = "BUY" /\ ~IsMarginEnabled(o.portfolio)
                               THEN o.requested * o.reservationPrice ELSE 0]

ReleaseFunds(p, o, left) ==
  [totalCash    |-> p.totalCash,
   lockedCash   |-> p.lockedCash - IF o.side = "BUY" /\ ~IsMarginEnabled(o.portfolio)
                                   THEN left * o.reservationPrice ELSE 0,
   lockedMargin |-> p.lockedMargin - IF IsMarginEnabled(o.portfolio)
                                     THEN MarginToRelease(o, left) ELSE 0]

\* Mutant: the units stay locked.
ReleasePositionForgotten(x, o, left) == x

ReleasePosition(x, o, left) ==
  [x EXCEPT !.lockedQuantity = @ - IF o.side = "SELL" THEN left ELSE 0]

Withdraw(k, to, event) ==
  LET o == orders[k]
  IN /\ Exists(k)
     /\ ValidTransition(o.status, to)
     /\ portfolios' = [portfolios EXCEPT ![o.portfolio] = ReleaseFunds(@, o, Remaining(k))]
     /\ positions' = [positions EXCEPT
                        ![<<o.portfolio, o.symbol>>] = ReleasePosition(@, o, Remaining(k))]
     /\ orders' = SetStatus(k, to)
     /\ outbox' = outbox \cup {Emit(event, k, 0)}
     /\ UNCHANGED <<isOpen, phase, fills, ledger>>

CancelOrder(k) == Withdraw(k, "CANCELLED", "ORDER_CANCELLED")

\* Called by the sweep at the close and by markOrderPending after it; the
\* caller has looked at the clock before the transaction starts.
ExpireOrder(k) == Withdraw(k, "EXPIRED", "ORDER_EXPIRED")

-----------------------------------------------------------------------------
CallStep(c) ==
  BeginPlaceOrder(c) \/ PlaceOrderFails(c) \/ PlaceOrderFindsDuplicate(c) \/ PlaceOrder(c)

OrderStep(k) ==
  \/ MarkOrderPending(k) \/ ActivateStopLimit(k)
  \/ \E seen \in Snapshots(k), price \in FillPrices : ProcessFill(k, seen, price)
  \/ CancelOrder(k) \/ ExpireOrder(k)

Next ==
  \/ ChangeSession
  \/ \E c \in Calls : CallStep(c)
  \/ \E k \in Keys : OrderStep(k)

Spec == Init /\ [][Next]_vars

-----------------------------------------------------------------------------
(***************************************************************************)
(* Properties.                                                             *)
(***************************************************************************)

\* Every table holds rows of its schema.
TypeOK ==
  /\ isOpen \in BOOLEAN
  /\ phase \in [Calls -> {"idle", "checked", "placed", "existing",
                          "rejected", "insufficient", "crashed"}]
  /\ orders \in [Keys -> Order \cup {NoOrder}]
  /\ portfolios \in [Portfolios -> PortfolioRow]
  /\ positions \in [Portfolios \X Symbols -> PositionRow]
  /\ fills \subseteq Fill
  /\ ledger \in Balances
  /\ outbox \subseteq Event

IsLive(k) == Exists(k) /\ orders[k].status \in {"ACCEPTED", "PENDING", "PARTIALLY_FILLED"}

ReservedCash(k, p) ==
  IF IsLive(k) /\ orders[k].portfolio = p /\ orders[k].side = "BUY" /\ ~IsMarginEnabled(p)
  THEN Remaining(k) * orders[k].reservationPrice ELSE 0

ReservedQuantity(k, p, s) ==
  IF IsLive(k) /\ orders[k].portfolio = p /\ orders[k].symbol = s /\ orders[k].side = "SELL"
  THEN Remaining(k) ELSE 0

\* lockedCash is at any time exactly what the live BUY orders of the
\* portfolio still reserve: no interleaving of placements, retries, partial
\* fills, cancellations and expiries leaks a reservation or releases one twice.
LockedCashBacksOrders ==
  \A p \in Portfolios :
    portfolios[p].lockedCash = SumOf([k \in Keys |-> ReservedCash(k, p)])

\* The same for the units live SELL orders lock in a position.
LockedQuantityBacksOrders ==
  \A p \in Portfolios, s \in Symbols :
    positions[<<p, s>>].lockedQuantity = SumOf([k \in Keys |-> ReservedQuantity(k, p, s)])

\* A portfolio without margin never promises more units than it holds, so
\* concurrent SELL orders cannot take its position below zero.
CashPositionsCovered ==
  \A p \in Portfolios \ Margin, s \in Symbols :
    positions[<<p, s>>].lockedQuantity <= positions[<<p, s>>].quantity

\* Every BUY the portfolio ever placed names a limit, and none a negative one.
BuysNameALimit(p) ==
  \A k \in Keys :
    Exists(k) /\ orders[k].portfolio = p /\ orders[k].side = "BUY"
      => orders[k].type \in LimitTypes /\ orders[k].limit >= 0

\* As long as its BUY orders name a limit that is not negative, a portfolio
\* without margin spends no more than it reserved: cash that is not reserved
\* never becomes negative, whatever the order of fills, retries and releases.
AvailableCashNonNegative ==
  \A p \in Portfolios \ Margin :
    BuysNameALimit(p) => portfolios[p].lockedCash <= portfolios[p].totalCash

\* The cash of a portfolio without margin is never overdrawn.
CashNonNegative ==
  \A p \in Portfolios \ Margin : portfolios[p].totalCash >= 0

\* What reconcilePortfolioCash and reconcilePosition compare: a balance and
\* the credits minus the debits of the owner's account.
CashDrift(p) == portfolios[p].totalCash - ledger.userCash[Owner[p]]

PositionDrift(p, s) == positions[<<p, s>>].quantity - ledger.userSec[<<Owner[p], s>>]

\* Every change of cash or units is posted.  The opening balance is not: it
\* is what reconcilePortfolioCash reports as drift from the first day on,
\* and neither that drift nor the one of a position (none) ever changes.
DriftNeverMoves ==
  \A p \in Portfolios :
    /\ CashDrift(p) = OpeningCash[p]
    /\ \A s \in Symbols : PositionDrift(p, s) = 0

\* The accounts of the platform are the other side of all the users'
\* accounts, asset by asset.
PlatformMirrorsUsers ==
  /\ ledger.platformCash = - SumOf(ledger.userCash)
  /\ \A s \in Symbols :
       ledger.platformSec[s] = - SumOf([u \in Users |-> ledger.userSec[<<u, s>>]])

\* Late, repeated and reordered execution jobs execute every unit of an
\* order once: the fills of an order tile what is filled, without overlap
\* and without a gap, and the status says how far that is.
ExecutedOnce ==
  \A k \in Keys :
    IF Exists(k)
    THEN /\ \A n \in 1 .. orders[k].filled :
              \E f \in fills :
                 /\ f.order = k /\ f.key - f.quantity < n /\ n <= f.key
                 /\ \A g \in fills \ {f} :
                      g.order = k => ~(g.key - g.quantity < n /\ n <= g.key)
         /\ \A f \in fills : f.order = k => f.key <= orders[k].filled
         /\ orders[k].status = "FILLED" <=> orders[k].filled = orders[k].requested
         /\ orders[k].status \in {"ACCEPTED", "PENDING"} => orders[k].filled = 0
         /\ orders[k].status = "PARTIALLY_FILLED" => orders[k].filled > 0
    ELSE KeysOf(k) = {}

\* Of all the calls with one key, retries and races included, one creates
\* an order, and only where there is an order is a call answered with one.
OnePlacementPerKey ==
  \A c \in Calls :
    phase[c] \in {"placed", "existing"} =>
      /\ Exists(KeyOf[c])
      /\ \E b \in Calls :
           /\ KeyOf[b] = KeyOf[c] /\ phase[b] = "placed"
           /\ \A a \in Calls \ {b} : KeyOf[a] = KeyOf[c] => phase[a] # "placed"

Happened(type, k, n) == Emit(type, k, n) \in outbox

\* The outbox tells of every order what became of it: consumers that see
\* only events see one end at most, and one event per fill.
OutboxTellsTheStory ==
  \A k \in Keys :
    /\ Happened("ORDER_ACCEPTED", k, 0) <=> Exists(k)
    /\ Happened("ORDER_CANCELLED", k, 0) <=> (Exists(k) /\ orders[k].status = "CANCELLED")
    /\ Happened("ORDER_EXPIRED", k, 0) <=> (Exists(k) /\ orders[k].status = "EXPIRED")
    /\ Happened("ORDER_ACTIVATED", k, 0) <=> (Exists(k) /\ orders[k].isActivated)
    /\ \A f \in fills : f.order = k =>
         /\ Happened("ORDER_PENDING", k, 0)
         /\ Happened("ORDER_FILLED", k, f.key) <=> f.key = orders[k].requested
         /\ Happened("ORDER_PARTIALLY_FILLED", k, f.key) <=> f.key < orders[k].requested
    /\ \A e \in outbox :
         e.order = k /\ e.type \in {"ORDER_FILLED", "ORDER_PARTIALLY_FILLED"}
           => e.fill \in KeysOf(k)

IsTerminal(k) == Exists(k) /\ orders[k].status \in {"FILLED", "CANCELLED", "EXPIRED"}

\* Once an order has ended, nothing a late job, a second cancellation or
\* the sweep does touches the order or its fills again.
EndedOrdersStayPut ==
  [][\A k \in Keys : IsTerminal(k) => orders'[k] = orders[k] /\ KeysOf(k)' = KeysOf(k)]_vars

\* When no order of a margin portfolio is live, none of its margin is locked.
MarginReleased ==
  \A p \in Margin :
    (\A k \in Keys : IsLive(k) => orders[k].portfolio # p) => portfolios[p].lockedMargin = 0

\* A call that repeats the key of an order is answered with that order.
DuplicateGetsTheOrder ==
  [][\A c \in Calls : phase[c] # phase'[c] /\ phase'[c] = "insufficient"
        => ~Exists(KeyOf[c])]_vars

\* No call of placeOrder ends in an error of the program.
NoCallCrashes == \A c \in Calls : phase[c] # "crashed"

\* Orders implements the life of an order that OrderLifecycle promises.
Quantities == UNION {1 .. Body[c].requested : c \in Calls}

Lifecycle == INSTANCE OrderLifecycle WITH
  Quantities <- Quantities,
  status     <- [k \in Keys |-> IF Exists(k) THEN orders[k].status ELSE "NONE"],
  requested  <- [k \in Keys |-> IF Exists(k) THEN orders[k].requested ELSE 0],
  filled     <- [k \in Keys |-> IF Exists(k) THEN orders[k].filled ELSE 0]

LifecycleSpec == Lifecycle!Spec
=============================================================================
