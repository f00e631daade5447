---------------------------- MODULE OrdersProofs ----------------------------
(***************************************************************************)
(* Theorems about Orders, for every set of users, portfolios, keys and     *)
(* calls and every price and depth.                                        *)
(***************************************************************************)
EXTENDS Orders, SumsProofs, TLAPS

(***************************************************************************)
(* The tables hold rows of their schema.  TypeOK is not inductive alone:   *)
(* the margin a fill releases is divided by the requested quantity, and    *)
(* what is left of an order is what it asks for minus what it got.         *)
(***************************************************************************)

\* Only a call that passed the validation reaches its transaction.
CheckedCallsAreValid == \A c \in Calls : phase[c] = "checked" => Valid(Body[c])

RowsSound ==
  \A k \in Keys : Exists(k) =>
    /\ orders[k].requested > 0
    /\ orders[k].filled <= orders[k].requested

TypeInv == TypeOK /\ CheckedCallsAreValid /\ RowsSound

LEMMA OrderRow ==
  ASSUME TypeInv, NEW k \in Keys, Exists(k)
  PROVE  /\ orders[k] \in Order
         /\ orders[k].requested > 0
         /\ Remaining(k) \in Nat
BY DEF TypeInv, TypeOK, RowsSound, Exists, Remaining, Order

LEMMA ReservationPriceType ==
  ASSUME NEW d \in Dto
  PROVE  ReservationPrice(d) \in Int
<1>1. d.limit \in Int /\ d.market \in Int /\ d.side \in {"BUY", "SELL"}
  BY DEF Dto
<1>2. \A n \in Int : (n * 105) \div 100 \in Int /\ (n * 95) \div 100 \in Int
  OBVIOUS
<1>3. QED
  BY <1>1, <1>2 DEF ReservationPrice

LEMMA ExposureType ==
  ASSUME TypeInv, NEW d \in Dto
  PROVE  ExposureIncreasingQty(d) \in Nat
<1>1. positions[<<d.portfolio, d.symbol>>].quantity \in Int
  BY DEF TypeInv, TypeOK, PositionRow, Dto
<1>2. d.requested \in Int
  BY DEF Dto
<1>3. \A n \in Int : PositiveOrZero(n) \in Nat
  BY DEF PositiveOrZero
<1>4. QED
  BY <1>1, <1>2, <1>3 DEF ExposureIncreasingQty

LEMMA LockFundsType ==
  ASSUME TypeInv, NEW d \in Dto, NEW p \in PortfolioRow
  PROVE  LockFunds(p, d) \in PortfolioRow
<1>1. ReservationPrice(d) \in Int /\ ExposureIncreasingQty(d) \in Nat /\ d.requested \in Int
  BY ReservationPriceType, ExposureType DEF Dto
<1>2. MarginToReserve(d) \in Int /\ RequiredCash(d) \in Int
  BY <1>1 DEF MarginToReserve, RequiredCash
<1>3. QED
  BY <1>2 DEF LockFunds, PortfolioRow

LEMMA NewOrderType ==
  ASSUME NEW d \in Dto, d.requested > 0
  PROVE  NewOrder(d) \in Order
BY ReservationPriceType DEF NewOrder, Order, Dto, Statuses

LEMMA MarginToReleaseType ==
  ASSUME NEW o \in Order, o.requested > 0, NEW qty \in Int
  PROVE  MarginToRelease(o, qty) \in Int
<1>1. o.reservedMargin \in Nat /\ o.requested \in Nat
  BY DEF Order
<1>2. \A a \in Int, b \in Nat : b > 0 => a \div b \in Int
  OBVIOUS
<1>3. QED
  BY <1>1, <1>2 DEF MarginToRelease

LEMMA FillRowsType ==
  ASSUME NEW o \in Order, o.requested > 0, NEW qty \in Nat, NEW price \in Nat,
         NEW p \in PortfolioRow, NEW x \in PositionRow
  PROVE  /\ PortfolioOnFill(p, o, qty, price) \in PortfolioRow
         /\ AdjustOnBuy(x, qty) \in PositionRow
         /\ AdjustOnSell(x, qty) \in PositionRow
<1>1. MarginToRelease(o, qty) \in Int
  BY MarginToReleaseType
<1>2. o.reservationPrice \in Int /\ o.portfolio \in Portfolios /\ o.symbol \in Symbols
  BY DEF Order
<1>3. qty * price \in Int /\ qty * o.reservationPrice \in Int
  BY <1>2
<1>4. PortfolioOnFill(p, o, qty, price) \in PortfolioRow
  BY <1>1, <1>3 DEF PortfolioOnFill, PortfolioRow
<1>5. AdjustOnBuy(x, qty) \in PositionRow /\ AdjustOnSell(x, qty) \in PositionRow
  BY DEF AdjustOnBuy, AdjustOnSell, PositionRow
<1>6. QED
  BY <1>4, <1>5

LEMMA PostedType ==
  ASSUME NEW o \in Order, NEW qty \in Nat, NEW price \in Nat, NEW l \in Balances
  PROVE  Posted(l, o, qty, price) \in Balances
<1>1. o.portfolio \in Portfolios /\ o.symbol \in Symbols
  BY DEF Order
<1>2. Owner[o.portfolio] \in Users
  BY <1>1, UsersAssumption
<1>3. qty * price \in Int /\ -(qty * price) \in Int /\ -qty \in Int
  OBVIOUS
<1>4. QED
  BY <1>1, <1>2, <1>3 DEF Posted, Balances

LEMMA ReleaseRowsType ==
  ASSUME NEW o \in Order, o.requested > 0, NEW left \in Nat,
         NEW p \in PortfolioRow, NEW x \in PositionRow
  PROVE  /\ ReleaseFunds(p, o, left) \in PortfolioRow
         /\ ReleasePosition(x, o, left) \in PositionRow
<1>1. MarginToRelease(o, left) \in Int
  BY MarginToReleaseType
<1>2. left * o.reservationPrice \in Int
  BY DEF Order
<1>3. ReleaseFunds(p, o, left) \in PortfolioRow
  BY <1>1, <1>2 DEF ReleaseFunds, PortfolioRow
<1>4. ReleasePosition(x, o, left) \in PositionRow
  BY DEF ReleasePosition, PositionRow
<1>5. QED
  BY <1>3, <1>4

LEMMA ExecutableQtyType ==
  ASSUME TypeInv, NEW k \in Keys, Exists(k), NEW seen \in Snapshots(k)
  PROVE  /\ seen \in Nat
         /\ ExecutableQty(k, seen) \in Int
<1>1. orders[k].requested \in Nat /\ orders[k].symbol \in Symbols
  BY OrderRow DEF Order
<1>2. Depth[orders[k].symbol] \in Nat
  BY <1>1, PricesAssumption
<1>3. seen \in Nat
  BY DEF Snapshots, KeysOf, TypeInv, TypeOK, Fill
<1>4. QED
  BY <1>1, <1>2, <1>3 DEF ExecutableQty

LEMMA BodyType ==
  ASSUME NEW c \in Calls
  PROVE  Body[c] \in Dto /\ KeyOf[c] \in Keys
BY CallsAssumption

\* A call that places an order passed the validation.
LEMMA PlacedBody ==
  ASSUME TypeInv, NEW c \in Calls, PlaceOrder(c)
  PROVE  /\ Body[c].requested \in Nat /\ Body[c].requested > 0
         /\ NewOrder(Body[c]) \in Order
<1>1. Body[c] \in Dto /\ Valid(Body[c])
  BY BodyType DEF TypeInv, CheckedCallsAreValid, PlaceOrder
<1>2. Body[c].requested \in Nat /\ Body[c].requested > 0
  BY <1>1 DEF Dto, Valid
<1>3. QED
  BY <1>1, <1>2, NewOrderType

\* Every step keeps the rows within their schema.
LEMMA TypeInvStep == TypeInv /\ [Next]_vars => TypeInv'
<1> SUFFICES ASSUME TypeInv, [Next]_vars
             PROVE  TypeInv'
  OBVIOUS
<1> USE DEF TypeInv
<1>1. CASE ChangeSession
  BY <1>1 DEF ChangeSession, TypeOK, CheckedCallsAreValid, RowsSound, Exists
<1>2. ASSUME NEW c \in Calls, BeginPlaceOrder(c)
      PROVE  TypeInv'
  BY <1>2 DEF BeginPlaceOrder, Answer, TypeOK, CheckedCallsAreValid, RowsSound, Exists
<1>3. ASSUME NEW c \in Calls, PlaceOrderFails(c)
      PROVE  TypeInv'
  BY <1>3 DEF PlaceOrderFails, Answer, TypeOK, CheckedCallsAreValid, RowsSound, Exists
<1>4. ASSUME NEW c \in Calls, PlaceOrderFindsDuplicate(c)
      PROVE  TypeInv'
  BY <1>4 DEF PlaceOrderFindsDuplicate, Answer, TypeOK, CheckedCallsAreValid, RowsSound, Exists
<1>5. ASSUME NEW c \in Calls, PlaceOrder(c)
      PROVE  TypeInv'
  <2> DEFINE d == Body[c]
             k == KeyOf[c]
  <2>1. d \in Dto /\ k \in Keys /\ d.portfolio \in Portfolios /\ d.symbol \in Symbols
    BY BodyType DEF Dto
  <2>2. Valid(d) /\ d.requested \in Nat
    BY <1>5, <2>1 DEF PlaceOrder, CheckedCallsAreValid, Valid, Dto
  <2>3. portfolios' \in [Portfolios -> PortfolioRow]
    BY <1>5, <2>1, LockFundsType DEF PlaceOrder, TypeOK
  <2>4. positions' \in [Portfolios \X Symbols -> PositionRow]
    <3>1. \A x \in PositionRow : LockPosition(x, d) \in PositionRow
      BY <2>2 DEF LockPosition, PositionRow
    <3>2. QED
      BY <1>5, <2>1, <3>1 DEF PlaceOrder, TypeOK
  <2>5. orders' \in [Keys -> Order \cup {NoOrder}]
    BY <1>5, <2>1, <2>2, NewOrderType DEF PlaceOrder, TypeOK, Valid
  <2>6. outbox' \subseteq Event
    BY <1>5, <2>1 DEF PlaceOrder, TypeOK, Emit, Event, EventTypes
  <2>7. RowsSound'
    <3>1. NewOrder(d).requested > 0 /\ NewOrder(d).filled <= NewOrder(d).requested
      BY <2>2 DEF NewOrder, Valid
    <3>2. QED
      BY <1>5, <2>1, <3>1 DEF PlaceOrder, RowsSound, Exists, TypeOK
  <2>8. QED
    BY <1>5, <2>3, <2>4, <2>5, <2>6, <2>7 DEF PlaceOrder, TypeOK, CheckedCallsAreValid
<1>6. ASSUME NEW k \in Keys, MarkOrderPending(k)
      PROVE  TypeInv'
  <2>1. orders' \in [Keys -> Order \cup {NoOrder}] /\ RowsSound'
    BY <1>6 DEF MarkOrderPending, SetStatus, TypeOK, RowsSound, Exists, Order, Statuses
  <2>2. QED
    BY <1>6, <2>1 DEF MarkOrderPending, TypeOK, CheckedCallsAreValid, Emit, Event, EventTypes
<1>7. ASSUME NEW k \in Keys, ActivateStopLimit(k)
      PROVE  TypeInv'
  <2>1. orders' \in [Keys -> Order \cup {NoOrder}] /\ RowsSound'
    BY <1>7, ZenonT(40) DEF ActivateStopLimit, Activated, TypeOK, RowsSound, Exists, Order
  <2>2. QED
    BY <1>7, <2>1 DEF ActivateStopLimit, TypeOK, CheckedCallsAreValid, Emit, Event, EventTypes
<1>8. ASSUME NEW k \in Keys, NEW seen \in Snapshots(k), NEW price \in FillPrices,
             ProcessFill(k, seen, price)
      PROVE  TypeInv'
  <2> DEFINE o     == orders[k]
             qty   == ExecutableQty(k, seen)
             state == IF o.filled + qty = o.requested THEN "FILLED" ELSE "PARTIALLY_FILLED"
             ps    == <<o.portfolio, o.symbol>>
  <2>1. Exists(k) /\ qty > 0 /\ o.filled + qty <= o.requested
    BY <1>8 DEF ProcessFill
  <2>2. o \in Order /\ o.requested > 0 /\ o.filled \in Nat /\ o.requested \in Nat
        /\ o.portfolio \in Portfolios /\ o.symbol \in Symbols
    BY <2>1, OrderRow DEF Order
  <2>3. seen \in Nat /\ qty \in Nat /\ price \in Nat /\ seen + qty \in Nat
    BY <2>1, ExecutableQtyType, PricesAssumption
  <2> HIDE DEF qty
  <2>4. portfolios' \in [Portfolios -> PortfolioRow]
    BY <1>8, <2>2, <2>3, FillRowsType DEF ProcessFill, TypeOK, qty
  <2>5. positions' \in [Portfolios \X Symbols -> PositionRow]
    <3>1. positions[ps] \in PositionRow
      BY <2>2 DEF TypeOK
    <3>2. AdjustOnBuy(positions[ps], qty) \in PositionRow
          /\ AdjustOnSell(positions[ps], qty) \in PositionRow
      BY <3>1, <2>3 DEF AdjustOnBuy, AdjustOnSell, PositionRow
    <3>3. QED
      BY <1>8, <2>2, <3>2 DEF ProcessFill, TypeOK, qty
  <2>6. ledger' \in Balances
    <3>1. ledger' = Posted(ledger, o, qty, price)
      BY <1>8 DEF ProcessFill, qty
    <3>2. ledger \in Balances
      BY DEF TypeOK
    <3>3. QED
      BY <2>2, <2>3, <3>1, <3>2, PostedType
  <2>7. orders' \in [Keys -> Order \cup {NoOrder}] /\ RowsSound'
    <3>1. orders' = [orders EXCEPT ![k].filled = o.filled + qty, ![k].status = state]
      BY <1>8 DEF ProcessFill, StateAfter, qty
    <3>2. o.filled + qty \in Nat
      BY <2>2, <2>3
    <3>3. QED
      BY <2>1, <2>2, <3>1, <3>2 DEF TypeOK, RowsSound, Exists, Order, Statuses
  <2>8. fills' \subseteq Fill
    BY <1>8, <2>3 DEF ProcessFill, TypeOK, Fill, qty
  <2>9. outbox' \subseteq Event
    <3>1. \A type \in EventTypes : Emit(type, k, seen + qty) \in Event
      BY <2>3 DEF Emit, Event
    <3>2. QED
      BY <1>8, <3>1 DEF ProcessFill, TypeOK, EventTypes, qty
  <2>10. QED
    BY <1>8, <2>4, <2>5, <2>6, <2>7, <2>8, <2>9 DEF ProcessFill, TypeOK, CheckedCallsAreValid
<1>9. ASSUME NEW k \in Keys, NEW to \in {"CANCELLED", "EXPIRED"},
             NEW event \in {"ORDER_CANCELLED", "ORDER_EXPIRED"}, Withdraw(k, to, event)
      PROVE  TypeInv'
  <2> DEFINE o == orders[k]
  <2>1. Exists(k)
    BY <1>9 DEF Withdraw
  <2>2. o \in Order /\ o.requested > 0 /\ Remaining(k) \in Nat
        /\ o.portfolio \in Portfolios /\ o.symbol \in Symbols
    BY <2>1, OrderRow DEF Order
  <2>3. portfolios' \in [Portfolios -> PortfolioRow]
        /\ positions' \in [Portfolios \X Symbols -> PositionRow]
    BY <1>9, <2>2, ReleaseRowsType DEF Withdraw, TypeOK
  <2>4. orders' \in [Keys -> Order \cup {NoOrder}] /\ RowsSound'
    BY <1>9 DEF Withdraw, SetStatus, TypeOK, RowsSound, Exists, Order, Statuses
  <2>5. QED
    BY <1>9, <2>3, <2>4 DEF Withdraw, TypeOK, CheckedCallsAreValid, Emit, Event, EventTypes
<1>10. CASE UNCHANGED vars
  BY <1>10 DEF vars, TypeOK, CheckedCallsAreValid, RowsSound, Exists
<1>11. QED
  BY <1>1, <1>2, <1>3, <1>4, <1>5, <1>6, <1>7, <1>8, <1>9, <1>10
     DEF Next, CallStep, OrderStep, CancelOrder, ExpireOrder

LEMMA TypeInvInit == Init => TypeInv
<1> SUFFICES ASSUME Init
             PROVE  TypeInv
  OBVIOUS
<1> USE DEF Init
<1>1. portfolios \in [Portfolios -> PortfolioRow]
  BY PricesAssumption DEF PortfolioRow
<1>2. positions \in [Portfolios \X Symbols -> PositionRow]
  BY DEF PositionRow
<1>3. ledger \in Balances
  BY DEF Balances
<1>4. CheckedCallsAreValid /\ RowsSound
  BY DEF CheckedCallsAreValid, RowsSound, Exists
<1>5. QED
  BY <1>1, <1>2, <1>3, <1>4 DEF TypeInv, TypeOK

LEMMA TypeInvariant == Spec => []TypeInv
BY TypeInvInit, TypeInvStep, PTL DEF Spec

\* Whatever clients, engines and the sweep do, and in whatever order, every
\* table of the order service holds rows of its schema.
THEOREM TypeCorrect == Spec => []TypeOK
<1>1. TypeInv => TypeOK
  BY DEF TypeInv
<1>2. QED
  BY <1>1, TypeInvariant, PTL

-----------------------------------------------------------------------------
(***************************************************************************)
(* What a fill is, in the terms of the proofs below.                       *)
(***************************************************************************)

LEMMA FillFacts ==
  ASSUME TypeInv, NEW k \in Keys, NEW seen \in Snapshots(k), NEW price \in FillPrices,
         ProcessFill(k, seen, price)
  PROVE  /\ Exists(k) /\ orders[k] \in Order
         /\ seen \in Nat /\ price \in Nat
         /\ ExecutableQty(k, seen) \in Nat /\ ExecutableQty(k, seen) > 0
         /\ orders[k].filled \in Nat /\ orders[k].requested \in Nat
         /\ orders[k].portfolio \in Portfolios /\ orders[k].symbol \in Symbols
         /\ orders[k].side \in {"BUY", "SELL"}
<1>1. Exists(k) /\ ExecutableQty(k, seen) > 0
  BY DEF ProcessFill
<1>2. orders[k] \in Order
  BY <1>1, OrderRow
<1>3. QED
  BY <1>1, <1>2, ExecutableQtyType, PricesAssumption DEF Order

\* What a fill does to the table of orders ...
LEMMA FillOrders ==
  ASSUME TypeInv, NEW k \in Keys, NEW seen \in Snapshots(k), NEW price \in FillPrices,
         ProcessFill(k, seen, price)
  PROVE  LET qty == ExecutableQty(k, seen)
             now == orders[k].filled + qty
         IN /\ orders'[k] = [orders[k] EXCEPT !.filled = now,
                               !.status = IF now = orders[k].requested
                                          THEN "FILLED" ELSE "PARTIALLY_FILLED"]
            /\ orders'[k] \in Order /\ Exists(k)'
            /\ orders[k].status \in {"PENDING", "PARTIALLY_FILLED"}
            /\ now <= orders[k].requested
            /\ \A j \in Keys : j # k => orders'[j] = orders[j]
<1> DEFINE qty == ExecutableQty(k, seen)
           now == orders[k].filled + qty
           state == IF now = orders[k].requested THEN "FILLED" ELSE "PARTIALLY_FILLED"
<1>1. orders[k] \in Order /\ qty \in Nat /\ orders[k].filled \in Nat /\ orders[k].requested \in Nat
  BY FillFacts
<1>2. /\ orders' = [orders EXCEPT ![k].filled = now, ![k].status = state]
      /\ orders[k].status \in {"PENDING", "PARTIALLY_FILLED"}
      /\ now <= orders[k].requested
  BY DEF ProcessFill, StateAfter
<1>3. orders \in [Keys -> Order \cup {NoOrder}]
  BY DEF TypeInv, TypeOK
<1>4. now \in Nat /\ state \in Statuses
  BY <1>1 DEF Statuses
<1> HIDE DEF qty, now, state
<1>5. /\ orders'[k] = [orders[k] EXCEPT !.filled = now, !.status = state]
      /\ \A j \in Keys : j # k => orders'[j] = orders[j]
  BY <1>2, <1>3
<1>6. orders'[k] \in Order
  BY <1>1, <1>4, <1>5 DEF Order
<1>7. Exists(k)'
  BY <1>6, NoOrderAssumption DEF Exists
<1>8. QED
  BY <1>2, <1>5, <1>6, <1>7 DEF now, qty, state

\* ... and to the table of fills.
LEMMA FillRow ==
  ASSUME TypeInv, NEW k \in Keys, NEW seen \in Snapshots(k), NEW price \in FillPrices,
         ProcessFill(k, seen, price)
  PROVE  \E f \in Fill :
            /\ fills' = fills \cup {f}
            /\ f.order = k /\ f.key = seen + ExecutableQty(k, seen)
            /\ f.quantity = ExecutableQty(k, seen)
            /\ f.key \notin KeysOf(k)
<1>1. ExecutableQty(k, seen) \in Nat /\ seen \in Nat /\ price \in Nat
  BY FillFacts
<1> DEFINE f == [order |-> k, key |-> seen + ExecutableQty(k, seen),
                 quantity |-> ExecutableQty(k, seen), price |-> price]
<1>2. f \in Fill
  BY <1>1 DEF Fill
<1>3. fills' = fills \cup {f} /\ f.key \notin KeysOf(k)
  BY DEF ProcessFill, Executed
<1>4. QED
  BY <1>2, <1>3

\* Every other step on an order that exists changes its status or marks it
\* as activated, and nothing else of the table of orders or of fills.
LEMMA OtherOrderSteps ==
  ASSUME TypeInv, NEW k \in Keys,
         \/ MarkOrderPending(k) \/ ActivateStopLimit(k)
         \/ \E to \in {"CANCELLED", "EXPIRED"},
               event \in {"ORDER_CANCELLED", "ORDER_EXPIRED"} : Withdraw(k, to, event)
  PROVE  /\ Exists(k) /\ Exists(k)'
         /\ orders[k].status \in {"ACCEPTED", "PENDING", "PARTIALLY_FILLED"}
         /\ orders[k] \in Order
         /\ \E to \in Statuses, on \in BOOLEAN :
              orders'[k] = [orders[k] EXCEPT !.status = to, !.isActivated = on]
         /\ \A j \in Keys : j # k => orders'[j] = orders[j]
         /\ fills' = fills /\ phase' = phase
<1>1. Exists(k) /\ fills' = fills /\ phase' = phase
  BY DEF MarkOrderPending, ActivateStopLimit, Withdraw
<1>2. orders[k] \in Order
  BY <1>1, OrderRow
<1>3. orders \in [Keys -> Order \cup {NoOrder}]
  BY DEF TypeInv, TypeOK
<1>4. \/ \E to \in Statuses : orders' = [orders EXCEPT ![k].status = to]
      \/ orders' = [orders EXCEPT ![k].isActivated = TRUE]
  BY DEF MarkOrderPending, ActivateStopLimit, Activated, Withdraw, SetStatus, Statuses
<1>5. \A j \in Keys : j # k => orders'[j] = orders[j]
  BY <1>3, <1>4
<1>6. \E to \in Statuses, on \in BOOLEAN :
         orders'[k] = [orders[k] EXCEPT !.status = to, !.isActivated = on]
  <2>1. CASE orders' = [orders EXCEPT ![k].isActivated = TRUE]
    <3>1. orders'[k] = [orders[k] EXCEPT !.status = orders[k].status, !.isActivated = TRUE]
      BY <1>2, <1>3, <2>1 DEF Order
    <3>2. orders[k].status \in Statuses
      BY <1>2 DEF Order
    <3>3. QED
      BY <3>1, <3>2
  <2>2. ASSUME NEW to \in Statuses, orders' = [orders EXCEPT ![k].status = to]
        PROVE  \E s \in Statuses, on \in BOOLEAN :
                 orders'[k] = [orders[k] EXCEPT !.status = s, !.isActivated = on]
    <3>1. orders'[k] = [orders[k] EXCEPT !.status = to, !.isActivated = orders[k].isActivated]
      BY <1>2, <1>3, <2>2 DEF Order
    <3>2. orders[k].isActivated \in BOOLEAN
      BY <1>2 DEF Order
    <3>3. QED
      BY <3>1, <3>2
  <2>3. QED
    BY <1>4, <2>1, <2>2
<1>7. Exists(k)'
  <2>1. orders'[k] \in Order
    BY <1>2, <1>6 DEF Order
  <2>2. QED
    BY <2>1, NoOrderAssumption DEF Exists
<1>8. orders[k].status \in {"ACCEPTED", "PENDING", "PARTIALLY_FILLED"}
  BY DEF MarkOrderPending, ActivateStopLimit, Withdraw, ValidTransition, Transitions
<1>9. QED
  BY <1>1, <1>2, <1>5, <1>6, <1>7, <1>8

-----------------------------------------------------------------------------
(***************************************************************************)
(* The ledger.                                                             *)
(***************************************************************************)

\* DriftNeverMoves, solved for the balances.
Explained ==
  \A p \in Portfolios :
    /\ portfolios[p].totalCash = OpeningCash[p] + ledger.userCash[Owner[p]]
    /\ \A s \in Symbols : positions[<<p, s>>].quantity = ledger.userSec[<<Owner[p], s>>]

LEMMA ExplainedMeansNoDrift == TypeInv /\ Explained => DriftNeverMoves
<1> SUFFICES ASSUME TypeInv, Explained, NEW p \in Portfolios
             PROVE  /\ CashDrift(p) = OpeningCash[p]
                    /\ \A s \in Symbols : PositionDrift(p, s) = 0
  BY DEF DriftNeverMoves
<1>1. Owner[p] \in Users /\ OpeningCash[p] \in Int
  BY UsersAssumption, PricesAssumption
<1>2. /\ ledger.userCash[Owner[p]] \in Int
      /\ \A s \in Symbols : ledger.userSec[<<Owner[p], s>>] \in Int
  BY <1>1 DEF TypeInv, TypeOK, Balances
<1>3. QED
  BY <1>1, <1>2 DEF Explained, CashDrift, PositionDrift

LEMMA LedgerStep == TypeInv /\ Explained /\ [Next]_vars => Explained'
<1> SUFFICES ASSUME TypeInv, Explained, [Next]_vars
             PROVE  Explained'
  OBVIOUS
<1> USE DEF Explained
<1>1. CASE UNCHANGED <<portfolios, positions, ledger>>
  BY <1>1
<1>2. ASSUME NEW c \in Calls, PlaceOrder(c)
      PROVE  Explained'
  <2>1. Body[c].portfolio \in Portfolios /\ Body[c].symbol \in Symbols
    BY BodyType DEF Dto
  <2>2. \A p \in Portfolios : portfolios'[p].totalCash = portfolios[p].totalCash
    BY <1>2, <2>1 DEF PlaceOrder, LockFunds, TypeInv, TypeOK, PortfolioRow
  <2>3. \A ps \in Portfolios \X Symbols : positions'[ps].quantity = positions[ps].quantity
    BY <1>2, <2>1 DEF PlaceOrder, LockPosition, TypeInv, TypeOK, PositionRow
  <2>4. ledger' = ledger
    BY <1>2 DEF PlaceOrder
  <2>5. QED
    BY <2>2, <2>3, <2>4
<1>3. ASSUME NEW k \in Keys, NEW seen \in Snapshots(k), NEW price \in FillPrices,
             ProcessFill(k, seen, price)
      PROVE  Explained'
  <2> DEFINE o     == orders[k]
             qty   == ExecutableQty(k, seen)
             u     == Owner[o.portfolio]
             ps    == <<o.portfolio, o.symbol>>
             cash  == IF o.side = "BUY" THEN -(qty * price) ELSE qty * price
             units == IF o.side = "BUY" THEN qty ELSE -qty
  <2>1. /\ o \in Order /\ qty \in Nat /\ price \in Nat /\ u \in Users
        /\ o.portfolio \in Portfolios /\ o.symbol \in Symbols /\ o.side \in {"BUY", "SELL"}
    BY <1>3, FillFacts, UsersAssumption
  <2>2. /\ portfolios' = [portfolios EXCEPT ![o.portfolio] = PortfolioOnFill(@, o, qty, price)]
        /\ positions' = [positions EXCEPT ![ps] =
             IF o.side = "BUY" THEN AdjustOnBuy(positions[ps], qty)
                               ELSE AdjustOnSell(positions[ps], qty)]
        /\ ledger' = Posted(ledger, o, qty, price)
    BY <1>3 DEF ProcessFill
  <2> HIDE DEF qty
  <2>3. cash \in Int /\ units \in Int /\ qty * price \in Int
    BY <2>1
  <2>4. /\ ledger.userCash \in [Users -> Int] /\ ledger.userSec \in [Users \X Symbols -> Int]
        /\ portfolios \in [Portfolios -> PortfolioRow]
        /\ positions \in [Portfolios \X Symbols -> PositionRow]
    BY DEF TypeInv, TypeOK, Balances
  <2>5. /\ ledger'.userCash = [ledger.userCash EXCEPT ![u] = @ + cash]
        /\ ledger'.userSec = [ledger.userSec EXCEPT ![<<u, o.symbol>>] = @ + units]
    BY <2>2 DEF Posted
  <2>6. \A p \in Portfolios :
          portfolios'[p].totalCash =
            IF p = o.portfolio THEN portfolios[p].totalCash + cash ELSE portfolios[p].totalCash
    <3>1. PortfolioOnFill(portfolios[o.portfolio], o, qty, price).totalCash
            = portfolios[o.portfolio].totalCash + cash
      BY <2>1, <2>3, <2>4 DEF PortfolioOnFill, PortfolioRow
    <3>2. QED
      BY <2>1, <2>2, <2>4, <3>1
  <2>7. \A p \in Portfolios, s \in Symbols :
          positions'[<<p, s>>].quantity =
            IF p = o.portfolio /\ s = o.symbol
            THEN positions[<<p, s>>].quantity + units ELSE positions[<<p, s>>].quantity
    <3>1. positions[ps] \in PositionRow
      BY <2>1, <2>4
    <3>2. (IF o.side = "BUY" THEN AdjustOnBuy(positions[ps], qty)
                             ELSE AdjustOnSell(positions[ps], qty)).quantity
            = positions[ps].quantity + units
      BY <2>1, <3>1 DEF AdjustOnBuy, AdjustOnSell, PositionRow
    <3>3. QED
      BY <2>1, <2>2, <2>4, <3>2
  <2>8. \A p \in Portfolios : Owner[p] \in Users /\ (Owner[p] = u <=> p = o.portfolio)
    BY <2>1, UsersAssumption
  <2>9. \A p \in Portfolios :
          portfolios'[p].totalCash = OpeningCash[p] + ledger'.userCash[Owner[p]]
    <3>1. \A p \in Portfolios : portfolios[p].totalCash \in Int /\ OpeningCash[p] \in Int
      BY <2>4, PricesAssumption DEF PortfolioRow
    <3> HIDE DEF cash
    <3>2. QED
      BY <2>1, <2>3, <2>4, <2>5, <2>6, <2>8, <3>1
  <2>10. \A p \in Portfolios, s \in Symbols :
           positions'[<<p, s>>].quantity = ledger'.userSec[<<Owner[p], s>>]
    <3> HIDE DEF units
    <3> TAKE p \in Portfolios, s \in Symbols
    <3>1. positions[<<p, s>>].quantity = ledger.userSec[<<Owner[p], s>>]
          /\ <<Owner[p], s>> \in Users \X Symbols
      BY <2>8
    <3>2. ledger'.userSec[<<Owner[p], s>>] =
            IF p = o.portfolio /\ s = o.symbol
            THEN ledger.userSec[<<Owner[p], s>>] + units ELSE ledger.userSec[<<Owner[p], s>>]
      BY <2>1, <2>4, <2>5, <2>8, <3>1
    <3>3. QED
      BY <2>7, <3>1, <3>2
  <2>11. QED
    BY <2>9, <2>10
<1>4. ASSUME NEW k \in Keys, NEW to \in {"CANCELLED", "EXPIRED"},
             NEW event \in {"ORDER_CANCELLED", "ORDER_EXPIRED"}, Withdraw(k, to, event)
      PROVE  Explained'
  <2>1. orders[k].portfolio \in Portfolios /\ orders[k].symbol \in Symbols
    BY <1>4, OrderRow DEF Withdraw, Order
  <2>2. \A p \in Portfolios : portfolios'[p].totalCash = portfolios[p].totalCash
    BY <1>4, <2>1 DEF Withdraw, ReleaseFunds, TypeInv, TypeOK, PortfolioRow
  <2>3. \A ps \in Portfolios \X Symbols : positions'[ps].quantity = positions[ps].quantity
    BY <1>4, <2>1 DEF Withdraw, ReleasePosition, TypeInv, TypeOK, PositionRow
  <2>4. ledger' = ledger
    BY <1>4 DEF Withdraw
  <2>5. QED
    BY <2>2, <2>3, <2>4
<1>5. QED
  BY <1>1, <1>2, <1>3, <1>4
     DEF Next, CallStep, OrderStep, CancelOrder, ExpireOrder, ChangeSession, BeginPlaceOrder,
         PlaceOrderFails, PlaceOrderFindsDuplicate, Answer, MarkOrderPending,
         ActivateStopLimit, vars

\* Cash and positions move only with a posting to their owner's accounts: the
\* drift the reconciliation reports stays the opening balance, which is not
\* posted, and none for a position.
THEOREM LedgerCorrect == Spec => []DriftNeverMoves
<1>1. Init => Explained
  BY UsersAssumption, PricesAssumption DEF Init, Explained
<1>2. QED
  BY <1>1, LedgerStep, ExplainedMeansNoDrift, TypeInvariant, PTL DEF Spec

-----------------------------------------------------------------------------
(***************************************************************************)
(* Which steps change an order, and which its fills.                       *)
(***************************************************************************)

LEMMA OrdersAlone ==
  ASSUME [Next]_vars
  PROVE  \/ UNCHANGED <<orders, fills>>
         \/ \E c \in Calls : PlaceOrder(c)
         \/ \E k \in Keys : MarkOrderPending(k) \/ ActivateStopLimit(k)
         \/ \E k \in Keys : \E seen \in Snapshots(k), price \in FillPrices :
               ProcessFill(k, seen, price)
         \/ \E k \in Keys : \E to \in {"CANCELLED", "EXPIRED"},
               event \in {"ORDER_CANCELLED", "ORDER_EXPIRED"} : Withdraw(k, to, event)
BY DEF Next, CallStep, OrderStep, CancelOrder, ExpireOrder, ChangeSession,
       BeginPlaceOrder, PlaceOrderFails, PlaceOrderFindsDuplicate, Answer, vars

LEMMA EndedOrdersStep ==
  ASSUME TypeInv, [Next]_vars, NEW k \in Keys, IsTerminal(k)
  PROVE  orders'[k] = orders[k] /\ KeysOf(k)' = KeysOf(k)
<1> USE DEF IsTerminal
<1>1. CASE UNCHANGED <<orders, fills>>
  BY <1>1 DEF KeysOf
<1>2. ASSUME NEW c \in Calls, PlaceOrder(c)
      PROVE  orders'[k] = orders[k] /\ KeysOf(k)' = KeysOf(k)
  BY <1>2, BodyType DEF PlaceOrder, UniqueKeyViolated, KeysOf, Exists, TypeInv, TypeOK
<1>3. ASSUME NEW j \in Keys,
             \/ MarkOrderPending(j) \/ ActivateStopLimit(j)
             \/ \E to \in {"CANCELLED", "EXPIRED"},
                   event \in {"ORDER_CANCELLED", "ORDER_EXPIRED"} : Withdraw(j, to, event)
      PROVE  orders'[k] = orders[k] /\ KeysOf(k)' = KeysOf(k)
  BY <1>3, OtherOrderSteps DEF KeysOf
<1>4. ASSUME NEW j \in Keys, NEW seen \in Snapshots(j), NEW price \in FillPrices,
             ProcessFill(j, seen, price)
      PROVE  orders'[k] = orders[k] /\ KeysOf(k)' = KeysOf(k)
  <2>1. j # k /\ orders'[k] = orders[k]
    BY <1>4, FillOrders
  <2>2. PICK f \in Fill : fills' = fills \cup {f} /\ f.order = j
    BY <1>4, FillRow
  <2>3. {g \in fills' : g.order = k} = {g \in fills : g.order = k}
    BY <2>1, <2>2
  <2>4. QED
    BY <2>1, <2>3 DEF KeysOf
<1>5. QED
  BY <1>1, <1>2, <1>3, <1>4, OrdersAlone

\* A filled, cancelled or expired order is final: no late or repeated job,
\* no cancellation and no sweep changes it or gives it another fill.
THEOREM EndedOrdersAreFinal == Spec => EndedOrdersStayPut
<1>1. TypeInv /\ [Next]_vars =>
        [\A k \in Keys : IsTerminal(k) => orders'[k] = orders[k] /\ KeysOf(k)' = KeysOf(k)]_vars
  BY EndedOrdersStep
<1>2. QED
  BY <1>1, TypeInvariant, PTL DEF Spec, EndedOrdersStayPut

-----------------------------------------------------------------------------
(***************************************************************************)
(* Idempotency of placeOrder.  The property is inductive once it also says *)
(* that every order was placed by a call.                                  *)
(***************************************************************************)

Placed(c, k) == KeyOf[c] = k /\ phase[c] = "placed"

PlacementInv ==
  /\ \A c \in Calls : phase[c] \in {"placed", "existing"} => Exists(KeyOf[c])
  /\ \A k \in Keys : Exists(k) => \E c \in Calls : Placed(c, k)
  /\ \A k \in Keys : \A b, c \in Calls : Placed(b, k) /\ Placed(c, k) => b = c

LEMMA PlacementStep == TypeInv /\ PlacementInv /\ [Next]_vars => PlacementInv'
<1> SUFFICES ASSUME TypeInv, PlacementInv, [Next]_vars
             PROVE  PlacementInv'
  OBVIOUS
<1> USE DEF PlacementInv, Placed
<1>1. ASSUME NEW c \in Calls, NEW what \in {"rejected", "existing", "checked", "crashed", "insufficient"},
             phase[c] \in {"idle", "checked"}, Answer(c, what),
             what = "existing" => Exists(KeyOf[c])
      PROVE  PlacementInv'
  BY <1>1 DEF Answer, Exists, TypeInv, TypeOK
<1>2. ASSUME NEW c \in Calls, PlaceOrder(c)
      PROVE  PlacementInv'
  <2>1. KeyOf[c] \in Keys /\ NewOrder(Body[c]) # NoOrder
    BY <1>2, BodyType, PlacedBody, NoOrderAssumption
  <2>2. /\ \A k \in Keys : orders'[k] = IF k = KeyOf[c] THEN NewOrder(Body[c]) ELSE orders[k]
        /\ \A b \in Calls : phase'[b] = IF b = c THEN "placed" ELSE phase[b]
        /\ ~Exists(KeyOf[c])
    BY <1>2, <2>1 DEF PlaceOrder, UniqueKeyViolated, TypeInv, TypeOK
  <2>3. \A k \in Keys : Exists(k)' <=> Exists(k) \/ k = KeyOf[c]
    BY <2>1, <2>2 DEF Exists
  <2>4. \A b \in Calls : KeyOf[b] \in Keys
    BY BodyType
  <2>5. QED
    BY <2>1, <2>2, <2>3, <2>4
<1>3. ASSUME phase' = phase, \A k \in Keys : Exists(k)' <=> Exists(k)
      PROVE  PlacementInv'
  BY <1>3, BodyType
<1>4. ASSUME NEW j \in Keys,
             \/ MarkOrderPending(j) \/ ActivateStopLimit(j)
             \/ \E seen \in Snapshots(j), price \in FillPrices : ProcessFill(j, seen, price)
             \/ \E to \in {"CANCELLED", "EXPIRED"},
                   event \in {"ORDER_CANCELLED", "ORDER_EXPIRED"} : Withdraw(j, to, event)
      PROVE  PlacementInv'
  <2>1. \A k \in Keys : k # j => orders'[k] = orders[k]
    BY <1>4, FillOrders, OtherOrderSteps
  <2>2. Exists(j) /\ Exists(j)'
    BY <1>4, FillFacts, FillOrders, OtherOrderSteps, ZenonT(40)
  <2>3. phase' = phase
    BY <1>4, OtherOrderSteps DEF ProcessFill
  <2>4. QED
    BY <1>3, <2>1, <2>2, <2>3 DEF Exists
<1>5. CASE ChangeSession \/ UNCHANGED vars
  BY <1>3, <1>5 DEF ChangeSession, vars, Exists
<1>6. QED
  BY <1>1, <1>2, <1>4, <1>5
     DEF Next, CallStep, OrderStep, CancelOrder, ExpireOrder, BeginPlaceOrder,
         PlaceOrderFails, PlaceOrderFindsDuplicate, UniqueKeyViolated

\* However many calls repeat a key, and however they interleave between the
\* look-up and the insert, exactly one of them creates the order.
THEOREM PlacementIsIdempotent == Spec => []OnePlacementPerKey
<1>1. Init => PlacementInv
  BY DEF Init, PlacementInv, Placed, Exists
<1>2. PlacementInv => OnePlacementPerKey
  BY BodyType DEF PlacementInv, Placed, OnePlacementPerKey
<1>3. QED
  BY <1>1, <1>2, PlacementStep, TypeInvariant, PTL DEF Spec

-----------------------------------------------------------------------------
(***************************************************************************)
(* What portfolios without margin can promise: never more units than they  *)
(* hold, and, as long as their BUY orders name a limit that is not         *)
(* negative, never more cash than they have.                               *)
(***************************************************************************)

LEMMA Monotone ==
  ASSUME NEW q \in Nat, NEW a \in Int, NEW b \in Int, a <= b
  PROVE  q * a <= q * b
OBVIOUS

LEMMA ProductType ==
  ASSUME NEW q \in Nat, NEW a \in Nat
  PROVE  q * a \in Nat
OBVIOUS

-----------------------------------------------------------------------------
(***************************************************************************)
(* Units: CashPositionsCovered is inductive.                               *)
(***************************************************************************)

LEMMA CoveredStep == TypeInv /\ CashPositionsCovered /\ [Next]_vars => CashPositionsCovered'
<1> SUFFICES ASSUME TypeInv, CashPositionsCovered, [Next]_vars
             PROVE  CashPositionsCovered'
  OBVIOUS
<1>0. ASSUME NEW p \in Portfolios, NEW s \in Symbols
      PROVE  /\ positions'[<<p, s>>].quantity \in Int
             /\ positions'[<<p, s>>].lockedQuantity \in Int
  <2>1. positions' \in [Portfolios \X Symbols -> PositionRow]
    BY TypeInvStep DEF TypeInv, TypeOK
  <2>2. positions'[<<p, s>>] \in PositionRow
    BY <1>0, <2>1
  <2>3. QED
    BY <2>2 DEF PositionRow
<1> SUFFICES ASSUME NEW p \in Portfolios \ Margin, NEW s \in Symbols
             PROVE  positions'[<<p, s>>].lockedQuantity <= positions'[<<p, s>>].quantity
  BY DEF CashPositionsCovered
<1> SUFFICES AvailableQuantity(p, s)' >= 0
  <2>1. /\ positions'[<<p, s>>].quantity \in Int
        /\ positions'[<<p, s>>].lockedQuantity \in Int
    BY <1>0
  <2>2. QED
    BY <2>1 DEF AvailableQuantity
<1> DEFINE x == positions[<<p, s>>]
<1>1. /\ x \in PositionRow /\ x.quantity - x.lockedQuantity >= 0
      /\ positions \in [Portfolios \X Symbols -> PositionRow]
  BY DEF CashPositionsCovered, TypeInv, TypeOK, PositionRow
<1>2. x.quantity \in Int /\ x.lockedQuantity \in Int
  BY <1>1 DEF PositionRow
<1>3. CASE positions'[<<p, s>>] = x
  BY <1>1, <1>3 DEF AvailableQuantity
<1>4. ASSUME NEW c \in Calls, PlaceOrder(c) PROVE AvailableQuantity(p, s)' >= 0
  <2> DEFINE d == Body[c]
  <2>1. d \in Dto /\ ~Insufficient(d)
        /\ positions' = [positions EXCEPT ![<<d.portfolio, d.symbol>>] = LockPosition(@, d)]
    BY <1>4, BodyType DEF PlaceOrder
  <2>2. CASE <<d.portfolio, d.symbol>> # <<p, s>>
    BY <1>1, <1>3, <2>1, <2>2 DEF Dto
  <2>3. CASE <<d.portfolio, d.symbol>> = <<p, s>>
    <3>1. d.portfolio = p /\ d.symbol = s /\ d.requested \in Nat /\ d.side \in {"BUY", "SELL"}
      BY <1>4, <2>1, <2>3, PlacedBody DEF Dto
    <3>2. d.side = "SELL" => x.quantity - x.lockedQuantity >= d.requested
      BY <1>2, <2>1, <3>1 DEF Insufficient, IsMarginEnabled, AvailableQuantity
    <3>3. positions'[<<p, s>>] =
            [x EXCEPT !.lockedQuantity = x.lockedQuantity + IF d.side = "SELL" THEN d.requested ELSE 0]
      BY <1>1, <2>1, <2>3 DEF LockPosition
    <3>4. /\ positions'[<<p, s>>].quantity = x.quantity
          /\ positions'[<<p, s>>].lockedQuantity
               = x.lockedQuantity + IF d.side = "SELL" THEN d.requested ELSE 0
      BY <1>1, <3>3 DEF PositionRow
    <3>5. QED
      BY <1>1, <1>2, <3>1, <3>2, <3>4 DEF AvailableQuantity
  <2>4. QED
    BY <2>2, <2>3
<1>5. ASSUME NEW k \in Keys, NEW seen \in Snapshots(k), NEW price \in FillPrices,
             ProcessFill(k, seen, price)
      PROVE  AvailableQuantity(p, s)' >= 0
  <2> DEFINE o   == orders[k]
             qty == ExecutableQty(k, seen)
  <2>1. /\ o.portfolio \in Portfolios /\ o.symbol \in Symbols /\ o.side \in {"BUY", "SELL"}
        /\ qty \in Nat
    BY <1>5, FillFacts
  <2>2. positions' = [positions EXCEPT ![<<o.portfolio, o.symbol>>] =
                        IF o.side = "BUY" THEN AdjustOnBuy(positions[<<o.portfolio, o.symbol>>], qty)
                        ELSE AdjustOnSell(positions[<<o.portfolio, o.symbol>>], qty)]
    BY <1>5 DEF ProcessFill
  <2>3. CASE <<o.portfolio, o.symbol>> # <<p, s>>
    BY <1>1, <1>3, <2>1, <2>2, <2>3
  <2>4. CASE <<o.portfolio, o.symbol>> = <<p, s>>
    <3> HIDE DEF qty
    <3>1. positions'[<<p, s>>] = IF o.side = "BUY" THEN AdjustOnBuy(x, qty) ELSE AdjustOnSell(x, qty)
      BY <1>1, <2>2, <2>4
    <3>2. \/ /\ positions'[<<p, s>>].quantity = x.quantity + qty
             /\ positions'[<<p, s>>].lockedQuantity = x.lockedQuantity
          \/ /\ positions'[<<p, s>>].quantity = x.quantity - qty
             /\ positions'[<<p, s>>].lockedQuantity = x.lockedQuantity - qty
      BY <1>1, <2>1, <3>1 DEF AdjustOnBuy, AdjustOnSell, PositionRow
    <3>3. QED
      BY <1>1, <1>2, <2>1, <3>2 DEF AvailableQuantity
  <2>5. QED
    BY <2>3, <2>4
<1>6. ASSUME NEW k \in Keys, NEW to \in {"CANCELLED", "EXPIRED"},
             NEW event \in {"ORDER_CANCELLED", "ORDER_EXPIRED"}, Withdraw(k, to, event)
      PROVE  AvailableQuantity(p, s)' >= 0
  <2> DEFINE o    == orders[k]
             left == Remaining(k)
  <2>1. /\ o.portfolio \in Portfolios /\ o.symbol \in Symbols /\ left \in Nat
        /\ positions' = [positions EXCEPT ![<<o.portfolio, o.symbol>>] = ReleasePosition(@, o, left)]
    BY <1>6, OrderRow DEF Withdraw, Order
  <2> HIDE DEF left
  <2>2. CASE <<o.portfolio, o.symbol>> # <<p, s>>
    BY <1>1, <1>3, <2>1, <2>2
  <2>3. CASE <<o.portfolio, o.symbol>> = <<p, s>>
    <3>1. positions'[<<p, s>>] = ReleasePosition(x, o, left)
      BY <1>1, <2>1, <2>3
    <3>2. /\ positions'[<<p, s>>].quantity = x.quantity
          /\ positions'[<<p, s>>].lockedQuantity
               = x.lockedQuantity - IF o.side = "SELL" THEN left ELSE 0
      BY <1>1, <3>1 DEF ReleasePosition, PositionRow
    <3>3. QED
      BY <1>1, <1>2, <2>1, <3>2 DEF AvailableQuantity
  <2>4. QED
    BY <2>2, <2>3
<1>7. CASE UNCHANGED positions
  BY <1>3, <1>7
<1>8. QED
  BY <1>4, <1>5, <1>6, <1>7
     DEF Next, CallStep, OrderStep, CancelOrder, ExpireOrder, ChangeSession, BeginPlaceOrder,
         PlaceOrderFails, PlaceOrderFindsDuplicate, Answer, MarkOrderPending,
         ActivateStopLimit, vars

\* A portfolio without margin never has more units locked than it holds.
THEOREM CashPositionsAreCovered == Spec => []CashPositionsCovered
<1>1. Init => CashPositionsCovered
  BY DEF Init, CashPositionsCovered
<1>2. QED
  BY <1>1, CoveredStep, TypeInvariant, PTL DEF Spec

-----------------------------------------------------------------------------
(***************************************************************************)
(* Cash.  The limit of a BUY is what it reserves per unit, no fill costs   *)
(* more than that, and a limit that is not negative never makes a          *)
(* reservation or its release add to what is available by itself.          *)
(***************************************************************************)

BuysReserveTheirLimit ==
  \A k \in Keys :
    Exists(k) /\ orders[k].side = "BUY" /\ orders[k].type \in LimitTypes
      => orders[k].reservationPrice = orders[k].limit

\* What no step changes in an order.
SameTerms(k) ==
  /\ orders'[k].portfolio = orders[k].portfolio
  /\ orders'[k].side = orders[k].side
  /\ orders'[k].type = orders[k].type
  /\ orders'[k].limit = orders[k].limit
  /\ orders'[k].reservationPrice = orders[k].reservationPrice

\* An order keeps its terms; one that was not there before has been placed.
LEMMA TermsKept ==
  ASSUME TypeInv, [Next]_vars, NEW k \in Keys
  PROVE  /\ Exists(k) => Exists(k)' /\ SameTerms(k)
         /\ ~Exists(k) /\ Exists(k)'
              => \E c \in Calls : PlaceOrder(c) /\ orders'[k] = NewOrder(Body[c])
<1>1. CASE UNCHANGED <<orders, fills>>
  BY <1>1 DEF Exists, SameTerms
<1>2. ASSUME NEW c \in Calls, PlaceOrder(c)
      PROVE  /\ Exists(k) => Exists(k)' /\ SameTerms(k)
             /\ ~Exists(k) /\ Exists(k)' => orders'[k] = NewOrder(Body[c])
  <2>1. /\ KeyOf[c] \in Keys /\ ~Exists(KeyOf[c])
        /\ orders' = [orders EXCEPT ![KeyOf[c]] = NewOrder(Body[c])]
    BY <1>2, BodyType DEF PlaceOrder, UniqueKeyViolated
  <2>2. \A j \in Keys : orders'[j] = IF j = KeyOf[c] THEN NewOrder(Body[c]) ELSE orders[j]
    BY <2>1 DEF TypeInv, TypeOK
  <2>3. QED
    BY <2>1, <2>2 DEF Exists, SameTerms
<1>3. ASSUME NEW j \in Keys, Exists(j), Exists(j)', orders[j] \in Order,
             \A i \in Keys : i # j => orders'[i] = orders[i],
             SameTerms(j)
      PROVE  (Exists(k) => Exists(k)' /\ SameTerms(k)) /\ (~Exists(k) => ~Exists(k)')
  BY <1>3 DEF Exists, SameTerms
<1>4. ASSUME NEW j \in Keys,
             \/ MarkOrderPending(j) \/ ActivateStopLimit(j)
             \/ \E to \in {"CANCELLED", "EXPIRED"},
                   event \in {"ORDER_CANCELLED", "ORDER_EXPIRED"} : Withdraw(j, to, event)
      PROVE  (Exists(k) => Exists(k)' /\ SameTerms(k)) /\ (~Exists(k) => ~Exists(k)')
  <2>1. /\ Exists(j) /\ Exists(j)' /\ orders[j] \in Order
        /\ \A i \in Keys : i # j => orders'[i] = orders[i]
    BY <1>4, OtherOrderSteps
  <2>2. PICK to \in Statuses, on \in BOOLEAN :
           orders'[j] = [orders[j] EXCEPT !.status = to, !.isActivated = on]
    BY <1>4, OtherOrderSteps
  <2>3. SameTerms(j)
    BY <2>1, <2>2 DEF Order, SameTerms
  <2>4. QED
    BY <1>3, <2>1, <2>3
<1>5. ASSUME NEW j \in Keys, NEW seen \in Snapshots(j), NEW price \in FillPrices,
             ProcessFill(j, seen, price)
      PROVE  (Exists(k) => Exists(k)' /\ SameTerms(k)) /\ (~Exists(k) => ~Exists(k)')
  <2>1. Exists(j) /\ orders[j] \in Order
    BY <1>5, FillFacts
  <2> DEFINE now   == orders[j].filled + ExecutableQty(j, seen)
             state == IF now = orders[j].requested THEN "FILLED" ELSE "PARTIALLY_FILLED"
  <2>2. /\ orders'[j] = [orders[j] EXCEPT !.filled = now, !.status = state]
        /\ Exists(j)' /\ \A i \in Keys : i # j => orders'[i] = orders[i]
    BY <1>5, FillOrders
  <2> HIDE DEF now, state
  <2>3. SameTerms(j)
    BY <2>1, <2>2 DEF Order, SameTerms
  <2>4. QED
    BY <1>3, <2>1, <2>2, <2>3
<1>6. QED
  BY <1>1, <1>2, <1>4, <1>5, OrdersAlone

LEMMA ReserveStep == TypeInv /\ BuysReserveTheirLimit /\ [Next]_vars => BuysReserveTheirLimit'
<1> SUFFICES ASSUME TypeInv, BuysReserveTheirLimit, [Next]_vars, NEW k \in Keys, Exists(k)',
                    orders'[k].side = "BUY", orders'[k].type \in LimitTypes
             PROVE  orders'[k].reservationPrice = orders'[k].limit
  BY DEF BuysReserveTheirLimit
<1>1. CASE Exists(k)
  BY <1>1, TermsKept DEF BuysReserveTheirLimit, SameTerms
<1>2. CASE ~Exists(k)
  <2>1. PICK c \in Calls : orders'[k] = NewOrder(Body[c])
    BY <1>2, TermsKept
  <2>2. QED
    BY <2>1 DEF NewOrder, ReservationPrice
<1>3. QED
  BY <1>1, <1>2

\* What holds of all the BUY orders of a portfolio held of the earlier ones.
LEMMA LimitsSoFar ==
  ASSUME TypeInv, [Next]_vars, NEW p \in Portfolios, BuysNameALimit(p)'
  PROVE  BuysNameALimit(p)
BY TermsKept DEF BuysNameALimit, SameTerms

LEMMA CashStep ==
  ASSUME TypeInv, BuysReserveTheirLimit, AvailableCashNonNegative, [Next]_vars
  PROVE  AvailableCashNonNegative'
<1> SUFFICES ASSUME NEW p \in Portfolios \ Margin, BuysNameALimit(p)'
             PROVE  AvailableCash(p)' >= 0
  BY TypeInvStep DEF AvailableCashNonNegative, AvailableCash, TypeInv, TypeOK, PortfolioRow
<1>0. BuysNameALimit(p)
  BY LimitsSoFar
<1> DEFINE x == portfolios[p]
<1>1. /\ x \in PortfolioRow /\ x.totalCash - x.lockedCash >= 0
      /\ portfolios \in [Portfolios -> PortfolioRow]
  BY <1>0 DEF AvailableCashNonNegative, TypeInv, TypeOK, PortfolioRow
<1>2. x.totalCash \in Int /\ x.lockedCash \in Int /\ ~IsMarginEnabled(p)
  BY <1>1 DEF PortfolioRow, IsMarginEnabled
<1>3. CASE portfolios'[p] = x
  BY <1>1, <1>3 DEF AvailableCash
<1>4. ASSUME NEW c \in Calls, PlaceOrder(c) PROVE AvailableCash(p)' >= 0
  <2> DEFINE d == Body[c]
  <2>1. /\ d \in Dto /\ d.portfolio \in Portfolios /\ ~Insufficient(d)
        /\ portfolios' = [portfolios EXCEPT ![d.portfolio] = LockFunds(@, d)]
    BY <1>4, BodyType DEF PlaceOrder, Dto
  <2>2. CASE d.portfolio # p
    BY <1>1, <1>3, <2>1, <2>2
  <2>3. CASE d.portfolio = p
    <3>1. portfolios'[p] = LockFunds(x, d)
      BY <1>1, <2>1, <2>3
    <3>2. /\ portfolios'[p].totalCash = x.totalCash
          /\ portfolios'[p].lockedCash
               = x.lockedCash + IF d.side = "BUY" THEN RequiredCash(d) ELSE 0
      BY <1>2, <2>3, <3>1 DEF LockFunds
    <3>3. d.requested \in Int /\ ReservationPrice(d) \in Int
      BY <2>1, ReservationPriceType DEF Dto
    <3>4. RequiredCash(d) \in Int
      BY <3>3 DEF RequiredCash
    <3>5. d.side = "BUY" => x.totalCash - x.lockedCash >= RequiredCash(d)
      BY <1>2, <2>1, <2>3, <3>4 DEF Insufficient, AvailableCash
    <3>6. QED
      BY <1>1, <1>2, <3>2, <3>4, <3>5 DEF AvailableCash
  <2>4. QED
    BY <2>2, <2>3
<1>5. ASSUME NEW k \in Keys, NEW seen \in Snapshots(k), NEW price \in FillPrices,
             ProcessFill(k, seen, price)
      PROVE  AvailableCash(p)' >= 0
  <2> DEFINE o == orders[k]
  <2>0. PICK qty \in Nat : qty = ExecutableQty(k, seen)
    BY <1>5, FillFacts
  <2>1. /\ Exists(k) /\ o \in Order /\ o.portfolio \in Portfolios
        /\ o.side \in {"BUY", "SELL"} /\ price \in Nat
        /\ o.limit \in Int /\ o.reservationPrice \in Int
    BY <1>5, FillFacts DEF Order
  <2>2. /\ portfolios' = [portfolios EXCEPT ![o.portfolio] = PortfolioOnFill(@, o, qty, price)]
        /\ WithinLimit(k, price)
    BY <1>5, <2>0 DEF ProcessFill
  <2>3. CASE o.portfolio # p
    BY <1>1, <1>3, <2>1, <2>2, <2>3
  <2>4. CASE o.portfolio = p
    <3>1. portfolios'[p] = PortfolioOnFill(x, o, qty, price)
      BY <1>1, <2>2, <2>4
    <3>2. qty * price \in Nat
      BY <2>1, ProductType
    <3>3. CASE o.side = "SELL"
      <4>1. /\ portfolios'[p].totalCash = x.totalCash + qty * price
            /\ portfolios'[p].lockedCash = x.lockedCash
        BY <1>1, <3>1, <3>3 DEF PortfolioOnFill, PortfolioRow
      <4>2. QED
        BY <1>1, <1>2, <3>2, <4>1 DEF AvailableCash
    <3>4. CASE o.side = "BUY"
      <4>1. /\ portfolios'[p].totalCash = x.totalCash - qty * price
            /\ portfolios'[p].lockedCash = x.lockedCash - qty * o.reservationPrice
        BY <1>2, <2>4, <3>1, <3>4 DEF PortfolioOnFill
      <4>2. price <= o.reservationPrice
        BY <1>0, <2>1, <2>2, <2>4, <3>4 DEF BuysNameALimit, BuysReserveTheirLimit, WithinLimit
      <4>3. qty * price <= qty * o.reservationPrice
        BY <2>1, <4>2, Monotone
      <4>4. qty * o.reservationPrice \in Int
        BY <2>1
      <4>5. QED
        BY <1>1, <1>2, <3>2, <4>1, <4>3, <4>4 DEF AvailableCash
    <3>5. QED
      BY <2>1, <3>3, <3>4
  <2>5. QED
    BY <2>3, <2>4
<1>6. ASSUME NEW k \in Keys, NEW to \in {"CANCELLED", "EXPIRED"},
             NEW event \in {"ORDER_CANCELLED", "ORDER_EXPIRED"}, Withdraw(k, to, event)
      PROVE  AvailableCash(p)' >= 0
  <2> DEFINE o == orders[k]
  <2>0. PICK left \in Nat : left = Remaining(k)
    BY <1>6, OrderRow DEF Withdraw
  <2>1. /\ Exists(k) /\ o.portfolio \in Portfolios /\ o.reservationPrice \in Int
        /\ portfolios' = [portfolios EXCEPT ![o.portfolio] = ReleaseFunds(@, o, left)]
    BY <1>6, <2>0, OrderRow DEF Withdraw, Order
  <2>2. CASE o.portfolio # p
    BY <1>1, <1>3, <2>1, <2>2
  <2>3. CASE o.portfolio = p
    <3>1. portfolios'[p] = ReleaseFunds(x, o, left)
      BY <1>1, <2>1, <2>3
    <3>2. o.side = "BUY" => left * o.reservationPrice \in Nat
      <4>1. o.side = "BUY" => o.reservationPrice \in Nat
        BY <1>0, <2>1, <2>3 DEF BuysNameALimit, BuysReserveTheirLimit
      <4>2. QED
        BY <4>1, ProductType
    <3>3. /\ portfolios'[p].totalCash = x.totalCash
          /\ portfolios'[p].lockedCash
               = x.lockedCash - IF o.side = "BUY" THEN left * o.reservationPrice ELSE 0
      BY <1>2, <2>3, <3>1 DEF ReleaseFunds
    <3>4. QED
      BY <1>1, <1>2, <3>2, <3>3 DEF AvailableCash
  <2>4. QED
    BY <2>2, <2>3
<1>7. CASE UNCHANGED portfolios
  BY <1>3, <1>7
<1>8. QED
  BY <1>4, <1>5, <1>6, <1>7
     DEF Next, CallStep, OrderStep, CancelOrder, ExpireOrder, ChangeSession, BeginPlaceOrder,
         PlaceOrderFails, PlaceOrderFindsDuplicate, Answer, MarkOrderPending,
         ActivateStopLimit, vars

\* As long as the BUY orders of a portfolio without margin name limits that
\* are not negative, what it has left after its reservations is never negative.
\* The run of CashNonNegative shows that MARKET and STOP orders break it.
THEOREM ReservationsKeepCashCovered == Spec => []AvailableCashNonNegative
<1>1. Init => BuysReserveTheirLimit /\ AvailableCashNonNegative
  BY PricesAssumption
     DEF Init, BuysReserveTheirLimit, AvailableCashNonNegative, Exists
<1>2. TypeInv /\ BuysReserveTheirLimit /\ AvailableCashNonNegative /\ [Next]_vars
        => BuysReserveTheirLimit' /\ AvailableCashNonNegative'
  BY ReserveStep, CashStep
<1>3. QED
  BY <1>1, <1>2, TypeInvariant, PTL DEF Spec

-----------------------------------------------------------------------------
(***************************************************************************)
(* Reservations.  What a portfolio or a position has locked is a sum over  *)
(* the orders.  A step that changes one order changes the sum by what that *)
(* order reserves afterwards minus what it reserved before.                *)
(***************************************************************************)

Live == {"ACCEPTED", "PENDING", "PARTIALLY_FILLED"}

\* What a row of the table of orders reserves of the cash of a portfolio and
\* of the units of a position.
CashOf(o, p) ==
  IF o # NoOrder /\ o.status \in Live /\ o.portfolio = p /\ o.side = "BUY" /\ ~IsMarginEnabled(p)
  THEN (o.requested - o.filled) * o.reservationPrice ELSE 0

UnitsOf(o, p, s) ==
  IF o # NoOrder /\ o.status \in Live /\ o.portfolio = p /\ o.symbol = s /\ o.side = "SELL"
  THEN o.requested - o.filled ELSE 0

\* The sums of that over a table.
CashSum(t, p) == SumOf([j \in Keys |-> CashOf(t[j], p)])
UnitsSum(t, p, s) == SumOf([j \in Keys |-> UnitsOf(t[j], p, s)])

LEMMA ReservedOf ==
  ASSUME NEW k, NEW p, NEW s
  PROVE  /\ ReservedCash(k, p) = CashOf(orders[k], p)
         /\ ReservedCash(k, p)' = CashOf(orders'[k], p)
         /\ ReservedQuantity(k, p, s) = UnitsOf(orders[k], p, s)
         /\ ReservedQuantity(k, p, s)' = UnitsOf(orders'[k], p, s)
BY DEF ReservedCash, ReservedQuantity, CashOf, UnitsOf, IsLive, Exists, Remaining, Live

LEMMA ReservedType ==
  ASSUME NEW o \in Order \cup {NoOrder}, NEW p, NEW s
  PROVE  CashOf(o, p) \in Int /\ UnitsOf(o, p, s) \in Int
<1>1. CASE o = NoOrder
  BY <1>1 DEF CashOf, UnitsOf
<1>2. CASE o \in Order
  <2>1. o.requested \in Nat /\ o.filled \in Nat /\ o.reservationPrice \in Int
    BY <1>2 DEF Order
  <2>2. o.requested - o.filled \in Int /\ (o.requested - o.filled) * o.reservationPrice \in Int
    BY <2>1
  <2>3. QED
    BY <2>2 DEF CashOf, UnitsOf
<1>3. QED
  BY <1>1, <1>2

\* Two tables that differ in the row of one order.
LEMMA OneRowSums ==
  ASSUME NEW t \in [Keys -> Order \cup {NoOrder}], NEW u \in [Keys -> Order \cup {NoOrder}],
         NEW k \in Keys, \A j \in Keys : j # k => u[j] = t[j], NEW p, NEW s
  PROVE  /\ CashSum(u, p)
              = CashSum(t, p) + (CashOf(u[k], p) - CashOf(t[k], p))
         /\ UnitsSum(u, p, s)
              = UnitsSum(t, p, s)
                  + (UnitsOf(u[k], p, s) - UnitsOf(t[k], p, s))
<1>1. IsFiniteSet(Keys)
  BY FinitenessAssumption
<1>2. PICK f : f = [j \in Keys |-> CashOf(t[j], p)]
  OBVIOUS
<1>3. PICK h : h = [j \in Keys |-> CashOf(u[j], p)]
  OBVIOUS
<1>4. f \in [Keys -> Int] /\ h \in [Keys -> Int] /\ \A j \in Keys \ {k} : h[j] = f[j]
  BY <1>2, <1>3, ReservedType
<1>5. SumOf(h) = SumOf(f) + (h[k] - f[k])
  BY <1>1, <1>4, SumChanges
<1>6. PICK f2 : f2 = [j \in Keys |-> UnitsOf(t[j], p, s)]
  OBVIOUS
<1>7. PICK h2 : h2 = [j \in Keys |-> UnitsOf(u[j], p, s)]
  OBVIOUS
<1>8. f2 \in [Keys -> Int] /\ h2 \in [Keys -> Int] /\ \A j \in Keys \ {k} : h2[j] = f2[j]
  BY <1>6, <1>7, ReservedType
<1>9. SumOf(h2) = SumOf(f2) + (h2[k] - f2[k])
  BY <1>1, <1>8, SumChanges
<1>10. QED
  BY <1>2, <1>3, <1>4, <1>5, <1>6, <1>7, <1>8, <1>9 DEF CashSum, UnitsSum

Reservations == LockedCashBacksOrders /\ LockedQuantityBacksOrders

\* The reservations in the terms of rows, before and after a step.
LEMMA ReservationsOf ==
  /\ Reservations <=>
       /\ \A p \in Portfolios :
            portfolios[p].lockedCash = CashSum(orders, p)
       /\ \A p \in Portfolios, s \in Symbols :
            positions[<<p, s>>].lockedQuantity = UnitsSum(orders, p, s)
  /\ Reservations' <=>
       /\ \A p \in Portfolios :
            portfolios'[p].lockedCash = CashSum(orders', p)
       /\ \A p \in Portfolios, s \in Symbols :
            positions'[<<p, s>>].lockedQuantity = UnitsSum(orders', p, s)
<1>1. \A p : /\ [j \in Keys |-> ReservedCash(j, p)] = [j \in Keys |-> CashOf(orders[j], p)]
             /\ [j \in Keys |-> ReservedCash(j, p)]' = [j \in Keys |-> CashOf(orders'[j], p)]
  BY ReservedOf
<1>2. \A p, s :
        /\ [j \in Keys |-> ReservedQuantity(j, p, s)] = [j \in Keys |-> UnitsOf(orders[j], p, s)]
        /\ [j \in Keys |-> ReservedQuantity(j, p, s)]' = [j \in Keys |-> UnitsOf(orders'[j], p, s)]
  BY ReservedOf
<1>3. QED
  BY <1>1, <1>2 DEF Reservations, LockedCashBacksOrders, LockedQuantityBacksOrders,
                       CashSum, UnitsSum

\* A step whose portfolio and position change with the order keeps the sums.
LEMMA ReservationMoves ==
  ASSUME TypeInv, TypeInv', Reservations, NEW k \in Keys,
         \A j \in Keys : j # k => orders'[j] = orders[j],
         \A p \in Portfolios :
           portfolios'[p].lockedCash
             = portfolios[p].lockedCash + (CashOf(orders'[k], p) - CashOf(orders[k], p)),
         \A p \in Portfolios, s \in Symbols :
           positions'[<<p, s>>].lockedQuantity
             = positions[<<p, s>>].lockedQuantity
                 + (UnitsOf(orders'[k], p, s) - UnitsOf(orders[k], p, s))
  PROVE  Reservations'
<1>1. orders \in [Keys -> Order \cup {NoOrder}] /\ orders' \in [Keys -> Order \cup {NoOrder}]
  BY DEF TypeInv, TypeOK
<1>2. PICK t \in [Keys -> Order \cup {NoOrder}], u \in [Keys -> Order \cup {NoOrder}] :
        t = orders /\ u = orders'
  BY <1>1
<1>3. \A j \in Keys : j # k => u[j] = t[j]
  BY <1>2
<1>4. ASSUME NEW p, NEW s
      PROVE  /\ CashSum(u, p)
                  = CashSum(t, p) + (CashOf(u[k], p) - CashOf(t[k], p))
             /\ UnitsSum(u, p, s)
                  = UnitsSum(t, p, s)
                      + (UnitsOf(u[k], p, s) - UnitsOf(t[k], p, s))
  BY <1>3, OneRowSums
<1>5. \A p \in Portfolios :
        portfolios'[p].lockedCash = CashSum(orders', p)
  BY <1>2, <1>4, ReservationsOf
<1>6. \A p \in Portfolios, s \in Symbols :
        positions'[<<p, s>>].lockedQuantity = UnitsSum(orders', p, s)
  <2> TAKE p \in Portfolios, s \in Symbols
  <2>1. /\ positions[<<p, s>>].lockedQuantity = UnitsSum(t, p, s)
        /\ positions'[<<p, s>>].lockedQuantity
             = positions[<<p, s>>].lockedQuantity + (UnitsOf(u[k], p, s) - UnitsOf(t[k], p, s))
    BY <1>2, ReservationsOf
  <2>2. QED
    BY <1>2, <1>4, <2>1
<1>7. QED
  BY <1>5, <1>6, ReservationsOf

\* A call that places an order: there was no order with its key.
LEMMA PlacedReservation ==
  ASSUME TypeInv, TypeInv', Reservations, NEW c \in Calls, PlaceOrder(c)
  PROVE  Reservations'
<1> DEFINE d == Body[c]
           k == KeyOf[c]
<1>1. /\ d \in Dto /\ k \in Keys /\ d.portfolio \in Portfolios /\ d.symbol \in Symbols
      /\ d.side \in {"BUY", "SELL"} /\ d.requested \in Nat
  BY BodyType, PlacedBody DEF Dto
<1>2. /\ orders[k] = NoOrder
      /\ orders' = [orders EXCEPT ![k] = NewOrder(d)]
      /\ portfolios' = [portfolios EXCEPT ![d.portfolio] = LockFunds(@, d)]
      /\ positions' = [positions EXCEPT ![<<d.portfolio, d.symbol>>] = LockPosition(@, d)]
  BY DEF PlaceOrder, UniqueKeyViolated, Exists
<1>3. /\ orders \in [Keys -> Order \cup {NoOrder}]
      /\ portfolios \in [Portfolios -> PortfolioRow]
      /\ positions \in [Portfolios \X Symbols -> PositionRow]
  BY DEF TypeInv, TypeOK
<1>4. orders'[k] = NewOrder(d) /\ \A j \in Keys : j # k => orders'[j] = orders[j]
  BY <1>1, <1>2, <1>3
<1>5. NewOrder(d) # NoOrder /\ RequiredCash(d) \in Int
  <2>1. ReservationPrice(d) \in Int
    BY <1>1, ReservationPriceType
  <2>2. QED
    BY <1>1, <2>1, PlacedBody, NoOrderAssumption DEF RequiredCash
<1>6. \A p : CashOf(orders[k], p) = 0 /\ \A s : UnitsOf(orders[k], p, s) = 0
  BY <1>2 DEF CashOf, UnitsOf
<1>7. ASSUME NEW p, NEW s
      PROVE  /\ CashOf(orders'[k], p) =
                   IF p = d.portfolio /\ d.side = "BUY" /\ ~IsMarginEnabled(p)
                   THEN RequiredCash(d) ELSE 0
             /\ UnitsOf(orders'[k], p, s) =
                   IF p = d.portfolio /\ s = d.symbol /\ d.side = "SELL" THEN d.requested ELSE 0
  <2>1. NewOrder(d).status \in Live
    BY DEF NewOrder, Live
  <2>2. /\ NewOrder(d).portfolio = d.portfolio /\ NewOrder(d).symbol = d.symbol
        /\ NewOrder(d).side = d.side /\ NewOrder(d).filled = 0
        /\ NewOrder(d).requested = d.requested
        /\ d.side = "BUY" => NewOrder(d).reservationPrice = ReservationPrice(d)
    BY DEF NewOrder
  <2>3. d.requested - 0 = d.requested
    BY <1>1
  <2>4. QED
    BY <1>4, <1>5, <2>1, <2>2, <2>3 DEF CashOf, UnitsOf, RequiredCash
<1>8. ASSUME NEW p \in Portfolios
      PROVE  portfolios'[p].lockedCash
               = portfolios[p].lockedCash + (CashOf(orders'[k], p) - CashOf(orders[k], p))
  <2>1. portfolios[p].lockedCash \in Int
    BY <1>3 DEF PortfolioRow
  <2>2. CASE p # d.portfolio
    <3>1. portfolios'[p] = portfolios[p]
      BY <1>2, <1>3, <2>2
    <3>2. CashOf(orders'[k], p) = 0
      BY <1>7, <2>2
    <3>3. QED
      BY <1>6, <2>1, <3>1, <3>2
  <2>3. CASE p = d.portfolio
    <3>1. portfolios'[p] = LockFunds(portfolios[p], d)
      BY <1>2, <1>3, <2>3
    <3>2. portfolios'[p].lockedCash = portfolios[p].lockedCash +
            IF ~IsMarginEnabled(p) /\ d.side = "BUY" THEN RequiredCash(d) ELSE 0
      BY <2>3, <3>1 DEF LockFunds
    <3>3. QED
      BY <1>5, <1>6, <1>7, <2>1, <2>3, <3>2
  <2>4. QED
    BY <2>2, <2>3
<1>9. ASSUME NEW p \in Portfolios, NEW s \in Symbols
      PROVE  positions'[<<p, s>>].lockedQuantity
               = positions[<<p, s>>].lockedQuantity
                   + (UnitsOf(orders'[k], p, s) - UnitsOf(orders[k], p, s))
  <2> DEFINE x == positions[<<p, s>>]
  <2>1. x \in PositionRow /\ x.lockedQuantity \in Int
    BY <1>3 DEF PositionRow
  <2>2. CASE <<p, s>> # <<d.portfolio, d.symbol>>
    <3>1. positions'[<<p, s>>] = x /\ ~(p = d.portfolio /\ s = d.symbol)
      BY <1>1, <1>2, <1>3, <2>2
    <3>2. QED
      BY <1>6, <1>7, <2>1, <3>1
  <2>3. CASE <<p, s>> = <<d.portfolio, d.symbol>>
    <3>1. p = d.portfolio /\ s = d.symbol /\ positions'[<<p, s>>] = LockPosition(x, d)
      BY <1>2, <1>3, <2>3
    <3>2. positions'[<<p, s>>].lockedQuantity
            = x.lockedQuantity + IF d.side = "SELL" THEN d.requested ELSE 0
      BY <2>1, <3>1 DEF LockPosition, PositionRow
    <3>3. QED
      BY <1>1, <1>6, <1>7, <2>1, <3>1, <3>2
  <2>4. QED
    BY <2>2, <2>3
<1>10. QED
  BY <1>1, <1>4, <1>8, <1>9, ReservationMoves

\* A step that leaves the live order, the portfolio and the position as they
\* are, but for the status of the order among the live ones or its flag.
LEMMA KeptReservation ==
  ASSUME TypeInv, TypeInv', Reservations, NEW k \in Keys,
         MarkOrderPending(k) \/ ActivateStopLimit(k)
  PROVE  Reservations'
<1>1. /\ orders[k] \in Order /\ Exists(k) /\ Exists(k)'
      /\ \A j \in Keys : j # k => orders'[j] = orders[j]
      /\ orders[k].status \in Live
  BY OtherOrderSteps DEF Live
<1>2. PICK to \in Statuses, on \in BOOLEAN :
        orders'[k] = [orders[k] EXCEPT !.status = to, !.isActivated = on]
  BY OtherOrderSteps
<1>3. orders'[k].status \in Live
  <2>1. orders \in [Keys -> Order \cup {NoOrder}]
    BY DEF TypeInv, TypeOK
  <2>2. CASE MarkOrderPending(k)
    <3>1. orders' = [orders EXCEPT ![k].status = "PENDING"]
      BY <2>2 DEF MarkOrderPending, SetStatus
    <3>2. orders'[k].status = "PENDING"
      BY <1>1, <2>1, <3>1 DEF Order
    <3>3. QED
      BY <3>2 DEF Live
  <2>3. CASE ActivateStopLimit(k)
    <3>1. orders' = [orders EXCEPT ![k].isActivated = TRUE]
      BY <2>3 DEF ActivateStopLimit, Activated
    <3>2. orders'[k].status = orders[k].status
      BY <1>1, <2>1, <3>1 DEF Order
    <3>3. QED
      BY <1>1, <3>2
  <2>4. QED
    BY <2>2, <2>3
<1>4. /\ orders'[k].portfolio = orders[k].portfolio /\ orders'[k].symbol = orders[k].symbol
      /\ orders'[k].side = orders[k].side /\ orders'[k].requested = orders[k].requested
      /\ orders'[k].filled = orders[k].filled
      /\ orders'[k].reservationPrice = orders[k].reservationPrice
  BY <1>1, <1>2 DEF Order
<1>5. \A p, s : /\ CashOf(orders'[k], p) = CashOf(orders[k], p)
                /\ UnitsOf(orders'[k], p, s) = UnitsOf(orders[k], p, s)
  BY <1>1, <1>3, <1>4 DEF CashOf, UnitsOf, Exists
<1>6. \A p, s : CashOf(orders[k], p) \in Int /\ UnitsOf(orders[k], p, s) \in Int
  BY <1>1, ReservedType
<1>7. /\ portfolios' = portfolios /\ positions' = positions
      /\ \A p \in Portfolios : portfolios[p].lockedCash \in Int
      /\ \A ps \in Portfolios \X Symbols : positions[ps].lockedQuantity \in Int
  BY DEF MarkOrderPending, ActivateStopLimit, TypeInv, TypeOK, PortfolioRow, PositionRow
<1>8. /\ \A p \in Portfolios :
           portfolios'[p].lockedCash
             = portfolios[p].lockedCash + (CashOf(orders'[k], p) - CashOf(orders[k], p))
      /\ \A p \in Portfolios, s \in Symbols :
           positions'[<<p, s>>].lockedQuantity
             = positions[<<p, s>>].lockedQuantity
                 + (UnitsOf(orders'[k], p, s) - UnitsOf(orders[k], p, s))
  BY <1>5, <1>6, <1>7
<1>9. QED
  BY <1>1, <1>8, ReservationMoves

\* A fill takes from the reservation of its order what it executes; the last
\* fill ends the order, and takes all that was left.
LEMMA FilledReservation ==
  ASSUME TypeInv, TypeInv', Reservations, NEW k \in Keys, NEW seen \in Snapshots(k),
         NEW price \in FillPrices, ProcessFill(k, seen, price)
  PROVE  Reservations'
<1> DEFINE o == orders[k]
<1>1. PICK qty \in Nat : qty = ExecutableQty(k, seen)
  BY FillFacts
<1>2. /\ o \in Order /\ o # NoOrder /\ o.filled \in Nat /\ o.requested \in Nat /\ price \in Nat
      /\ o.portfolio \in Portfolios /\ o.symbol \in Symbols /\ o.side \in {"BUY", "SELL"}
      /\ o.reservationPrice \in Int
  BY FillFacts DEF Exists, Order
<1>3. PICK now, state : now = o.filled + qty
        /\ state = IF now = o.requested THEN "FILLED" ELSE "PARTIALLY_FILLED"
  OBVIOUS
<1>4. /\ orders'[k] = [o EXCEPT !.filled = now, !.status = state]
      /\ orders'[k] \in Order /\ Exists(k)'
      /\ o.status \in {"PENDING", "PARTIALLY_FILLED"} /\ now <= o.requested
      /\ \A j \in Keys : j # k => orders'[j] = orders[j]
  BY <1>1, <1>3, FillOrders
<1>5. /\ portfolios' = [portfolios EXCEPT ![o.portfolio] = PortfolioOnFill(@, o, qty, price)]
      /\ positions' = [positions EXCEPT ![<<o.portfolio, o.symbol>>] =
           IF o.side = "BUY" THEN AdjustOnBuy(positions[<<o.portfolio, o.symbol>>], qty)
                             ELSE AdjustOnSell(positions[<<o.portfolio, o.symbol>>], qty)]
  BY <1>1 DEF ProcessFill
<1>6. /\ portfolios \in [Portfolios -> PortfolioRow]
      /\ positions \in [Portfolios \X Symbols -> PositionRow]
  BY DEF TypeInv, TypeOK
<1>7. /\ orders'[k].portfolio = o.portfolio /\ orders'[k].symbol = o.symbol
      /\ orders'[k].side = o.side /\ orders'[k].requested = o.requested
      /\ orders'[k].reservationPrice = o.reservationPrice
      /\ orders'[k].filled = now /\ orders'[k].status = state /\ orders'[k] # NoOrder
  <2>1. orders'[k] # NoOrder
    BY <1>4 DEF Exists
  <2>2. QED
    BY <1>2, <1>4, <2>1 DEF Order
<1>8. o.status \in Live
  BY <1>4 DEF Live
<1>9. ASSUME NEW p
      PROVE  CashOf(orders'[k], p) - CashOf(o, p) =
               IF o.portfolio = p /\ o.side = "BUY" /\ ~IsMarginEnabled(p)
               THEN -(qty * o.reservationPrice) ELSE 0
  <2>1. CASE ~(o.portfolio = p /\ o.side = "BUY" /\ ~IsMarginEnabled(p))
    <3>1. CashOf(orders'[k], p) = 0 /\ CashOf(o, p) = 0
      BY <1>7, <2>1 DEF CashOf
    <3>2. QED
      BY <2>1, <3>1
  <2>2. CASE o.portfolio = p /\ o.side = "BUY" /\ ~IsMarginEnabled(p)
    <3>1. CashOf(o, p) = (o.requested - o.filled) * o.reservationPrice
      BY <1>2, <1>8, <2>2 DEF CashOf
    <3>2. CASE now = o.requested
      <4>1. CashOf(orders'[k], p) = 0
        BY <1>3, <1>7, <3>2 DEF CashOf, Live
      <4>2. o.requested - o.filled = qty
        BY <1>2, <1>3, <3>2
      <4>3. qty * o.reservationPrice \in Int
        BY <1>2
      <4>4. QED
        BY <2>2, <3>1, <4>1, <4>2, <4>3
    <3>3. CASE now # o.requested
      <4>1. CashOf(orders'[k], p) = (o.requested - now) * o.reservationPrice
        BY <1>3, <1>7, <2>2, <3>3 DEF CashOf, Live
      <4>2. \A a, b, n, r \in Int : (a - (b + n)) * r - (a - b) * r = -(n * r)
        OBVIOUS
      <4>3. QED
        BY <1>2, <1>3, <2>2, <3>1, <4>1, <4>2
    <3>4. QED
      BY <3>2, <3>3
  <2>3. QED
    BY <2>1, <2>2
<1>10. ASSUME NEW p, NEW s
       PROVE  UnitsOf(orders'[k], p, s) - UnitsOf(o, p, s) =
                IF o.portfolio = p /\ o.symbol = s /\ o.side = "SELL" THEN -qty ELSE 0
  <2>1. CASE ~(o.portfolio = p /\ o.symbol = s /\ o.side = "SELL")
    <3>1. UnitsOf(orders'[k], p, s) = 0 /\ UnitsOf(o, p, s) = 0
      BY <1>7, <2>1 DEF UnitsOf
    <3>2. QED
      BY <2>1, <3>1
  <2>2. CASE o.portfolio = p /\ o.symbol = s /\ o.side = "SELL"
    <3>1. UnitsOf(o, p, s) = o.requested - o.filled
      BY <1>2, <1>8, <2>2 DEF UnitsOf
    <3>2. UnitsOf(orders'[k], p, s) = o.requested - now
      <4>1. CASE now = o.requested
        <5>1. UnitsOf(orders'[k], p, s) = 0
          BY <1>3, <1>7, <4>1 DEF UnitsOf, Live
        <5>2. QED
          BY <1>2, <4>1, <5>1
      <4>2. CASE now # o.requested
        BY <1>3, <1>7, <2>2, <4>2 DEF UnitsOf, Live
      <4>3. QED
        BY <4>1, <4>2
    <3>3. QED
      BY <1>2, <1>3, <2>2, <3>1, <3>2
  <2>3. QED
    BY <2>1, <2>2
<1>11. ASSUME NEW p \in Portfolios
       PROVE  portfolios'[p].lockedCash
                = portfolios[p].lockedCash + (CashOf(orders'[k], p) - CashOf(o, p))
  <2>1. portfolios[p] \in PortfolioRow /\ portfolios[p].lockedCash \in Int
    BY <1>6 DEF PortfolioRow
  <2>2. CASE p # o.portfolio
    <3>1. portfolios'[p] = portfolios[p]
      BY <1>5, <1>6, <2>2
    <3>2. QED
      BY <1>9, <2>1, <2>2, <3>1
  <2>3. CASE p = o.portfolio
    <3>1. portfolios'[p] = PortfolioOnFill(portfolios[p], o, qty, price)
      BY <1>5, <1>6, <2>3
    <3>2. CASE o.side = "SELL"
      <4>1. portfolios'[p].lockedCash = portfolios[p].lockedCash
        BY <2>1, <3>1, <3>2 DEF PortfolioOnFill, PortfolioRow
      <4>2. QED
        BY <1>9, <2>1, <3>2, <4>1
    <3>3. CASE o.side = "BUY"
      <4>1. portfolios'[p].lockedCash = portfolios[p].lockedCash
              - IF IsMarginEnabled(p) THEN 0 ELSE qty * o.reservationPrice
        BY <2>3, <3>1, <3>3 DEF PortfolioOnFill
      <4>2. qty * o.reservationPrice \in Int
        BY <1>2
      <4>3. QED
        BY <1>9, <2>1, <2>3, <3>3, <4>1, <4>2
    <3>4. QED
      BY <1>2, <3>2, <3>3
  <2>4. QED
    BY <2>2, <2>3
<1>12. ASSUME NEW p \in Portfolios, NEW s \in Symbols
       PROVE  positions'[<<p, s>>].lockedQuantity
                = positions[<<p, s>>].lockedQuantity
                    + (UnitsOf(orders'[k], p, s) - UnitsOf(o, p, s))
  <2> DEFINE x == positions[<<p, s>>]
  <2>1. x \in PositionRow /\ x.lockedQuantity \in Int
    BY <1>6 DEF PositionRow
  <2>2. CASE <<p, s>> # <<o.portfolio, o.symbol>>
    <3>1. positions'[<<p, s>>] = x /\ ~(p = o.portfolio /\ s = o.symbol)
      BY <1>5, <1>6, <2>2
    <3>2. QED
      BY <1>10, <2>1, <3>1
  <2>3. CASE <<p, s>> = <<o.portfolio, o.symbol>>
    <3>1. /\ p = o.portfolio /\ s = o.symbol
          /\ positions'[<<p, s>>] = IF o.side = "BUY" THEN AdjustOnBuy(x, qty) ELSE AdjustOnSell(x, qty)
      BY <1>5, <1>6, <2>3
    <3>2. positions'[<<p, s>>].lockedQuantity
            = x.lockedQuantity - IF o.side = "BUY" THEN 0 ELSE qty
      BY <2>1, <3>1 DEF AdjustOnBuy, AdjustOnSell, PositionRow
    <3>3. QED
      BY <1>2, <1>10, <2>1, <3>1, <3>2
  <2>4. QED
    BY <2>2, <2>3
<1>13. QED
  BY <1>4, <1>11, <1>12, ReservationMoves

\* A cancellation or an expiry gives back what was left.
LEMMA ReleasedReservation ==
  ASSUME TypeInv, TypeInv', Reservations, NEW k \in Keys, NEW to \in {"CANCELLED", "EXPIRED"},
         NEW event \in {"ORDER_CANCELLED", "ORDER_EXPIRED"}, Withdraw(k, to, event)
  PROVE  Reservations'
<1> DEFINE o == orders[k]
<1>1. PICK left \in Nat : left = o.requested - o.filled
  BY OrderRow DEF Withdraw, Remaining
<1>2. /\ o \in Order /\ o # NoOrder /\ o.portfolio \in Portfolios /\ o.symbol \in Symbols
      /\ o.side \in {"BUY", "SELL"} /\ o.reservationPrice \in Int
      /\ o.status \in Live /\ \A j \in Keys : j # k => orders'[j] = orders[j]
  BY OtherOrderSteps DEF Exists, Order, Live
<1>3. /\ portfolios' = [portfolios EXCEPT ![o.portfolio] = ReleaseFunds(@, o, left)]
      /\ positions' = [positions EXCEPT ![<<o.portfolio, o.symbol>>] = ReleasePosition(@, o, left)]
      /\ orders' = [orders EXCEPT ![k].status = to]
  BY <1>1 DEF Withdraw, Remaining, SetStatus
<1>4. /\ portfolios \in [Portfolios -> PortfolioRow]
      /\ positions \in [Portfolios \X Symbols -> PositionRow]
      /\ orders \in [Keys -> Order \cup {NoOrder}]
  BY DEF TypeInv, TypeOK
<1>5. orders'[k].status \notin Live
  <2>1. orders'[k].status = to
    BY <1>2, <1>3, <1>4 DEF Order
  <2>2. QED
    BY <2>1 DEF Live
<1>6. \A p : /\ CashOf(orders'[k], p) = 0
             /\ CashOf(o, p) = IF o.portfolio = p /\ o.side = "BUY" /\ ~IsMarginEnabled(p)
                               THEN left * o.reservationPrice ELSE 0
  BY <1>1, <1>2, <1>5 DEF CashOf
<1>7. \A p, s : /\ UnitsOf(orders'[k], p, s) = 0
                /\ UnitsOf(o, p, s) = IF o.portfolio = p /\ o.symbol = s /\ o.side = "SELL"
                                      THEN left ELSE 0
  BY <1>1, <1>2, <1>5 DEF UnitsOf
<1>8. ASSUME NEW p \in Portfolios
      PROVE  portfolios'[p].lockedCash
               = portfolios[p].lockedCash + (CashOf(orders'[k], p) - CashOf(o, p))
  <2>1. portfolios[p] \in PortfolioRow /\ portfolios[p].lockedCash \in Int
        /\ left * o.reservationPrice \in Int
    BY <1>2, <1>4 DEF PortfolioRow
  <2>2. CASE p # o.portfolio
    <3>1. portfolios'[p] = portfolios[p]
      BY <1>3, <1>4, <2>2
    <3>2. QED
      BY <1>6, <2>1, <2>2, <3>1
  <2>3. CASE p = o.portfolio
    <3>1. portfolios'[p] = ReleaseFunds(portfolios[p], o, left)
      BY <1>3, <1>4, <2>3
    <3>2. portfolios'[p].lockedCash = portfolios[p].lockedCash
            - IF o.side = "BUY" /\ ~IsMarginEnabled(p) THEN left * o.reservationPrice ELSE 0
      BY <2>3, <3>1 DEF ReleaseFunds
    <3>3. QED
      BY <1>6, <2>1, <2>3, <3>2
  <2>4. QED
    BY <2>2, <2>3
<1>9. ASSUME NEW p \in Portfolios, NEW s \in Symbols
      PROVE  positions'[<<p, s>>].lockedQuantity
               = positions[<<p, s>>].lockedQuantity
                   + (UnitsOf(orders'[k], p, s) - UnitsOf(o, p, s))
  <2> DEFINE x == positions[<<p, s>>]
  <2>1. x \in PositionRow /\ x.lockedQuantity \in Int
    BY <1>4 DEF PositionRow
  <2>2. CASE <<p, s>> # <<o.portfolio, o.symbol>>
    <3>1. positions'[<<p, s>>] = x /\ ~(p = o.portfolio /\ s = o.symbol)
      BY <1>3, <1>4, <2>2
    <3>2. QED
      BY <1>7, <2>1, <3>1
  <2>3. CASE <<p, s>> = <<o.portfolio, o.symbol>>
    <3>1. p = o.portfolio /\ s = o.symbol /\ positions'[<<p, s>>] = ReleasePosition(x, o, left)
      BY <1>3, <1>4, <2>3
    <3>2. positions'[<<p, s>>].lockedQuantity
            = x.lockedQuantity - IF o.side = "SELL" THEN left ELSE 0
      BY <2>1, <3>1 DEF ReleasePosition, PositionRow
    <3>3. QED
      BY <1>7, <2>1, <3>1, <3>2
  <2>4. QED
    BY <2>2, <2>3
<1>10. QED
  BY <1>2, <1>8, <1>9, ReservationMoves

LEMMA ReservationsStep == TypeInv /\ Reservations /\ [Next]_vars => Reservations'
<1> SUFFICES ASSUME TypeInv, Reservations, [Next]_vars
             PROVE  Reservations'
  OBVIOUS
<1>1. TypeInv'
  BY TypeInvStep
<1>2. CASE UNCHANGED <<orders, portfolios, positions>>
  BY <1>2, ReservationsOf
<1>3. ASSUME NEW c \in Calls, PlaceOrder(c) PROVE Reservations'
  BY <1>1, <1>3, PlacedReservation
<1>4. ASSUME NEW k \in Keys, MarkOrderPending(k) \/ ActivateStopLimit(k) PROVE Reservations'
  BY <1>1, <1>4, KeptReservation
<1>5. ASSUME NEW k \in Keys, NEW seen \in Snapshots(k), NEW price \in FillPrices,
             ProcessFill(k, seen, price)
      PROVE  Reservations'
  BY <1>1, <1>5, FilledReservation
<1>6. ASSUME NEW k \in Keys, NEW to \in {"CANCELLED", "EXPIRED"},
             NEW event \in {"ORDER_CANCELLED", "ORDER_EXPIRED"}, Withdraw(k, to, event)
      PROVE  Reservations'
  BY <1>1, <1>6, ReleasedReservation
<1>7. QED
  BY <1>2, <1>3, <1>4, <1>5, <1>6
     DEF Next, CallStep, OrderStep, CancelOrder, ExpireOrder, ChangeSession, BeginPlaceOrder,
         PlaceOrderFails, PlaceOrderFindsDuplicate, Answer, vars

LEMMA ReservationsInit == Init => Reservations
<1> SUFFICES ASSUME Init PROVE Reservations
  OBVIOUS
<1>1. PICK f : f = [j \in Keys |-> 0]
  OBVIOUS
<1>2. SumOf(f) = 0
  BY <1>1, FinitenessAssumption, SumIsZero
<1>3. \A p, s : /\ [j \in Keys |-> CashOf(orders[j], p)] = f
                /\ [j \in Keys |-> UnitsOf(orders[j], p, s)] = f
  BY <1>1 DEF Init, CashOf, UnitsOf
<1>4. \A p, s : CashSum(orders, p) = 0 /\ UnitsSum(orders, p, s) = 0
  BY <1>2, <1>3 DEF CashSum, UnitsSum
<1>5. /\ \A p \in Portfolios : portfolios[p].lockedCash = 0
      /\ \A p \in Portfolios, s \in Symbols : positions[<<p, s>>].lockedQuantity = 0
  BY DEF Init
<1>6. QED
  BY <1>4, <1>5, ReservationsOf

LEMMA ReservationsInvariant == Spec => []Reservations
BY ReservationsInit, ReservationsStep, TypeInvariant, PTL DEF Spec

\* No interleaving of placements, retries, fills, cancellations and expiries
\* leaks a reservation of cash or releases one twice: what is locked is at
\* any time the sum of what the live BUY orders still need.
THEOREM LockedCashIsReserved == Spec => []LockedCashBacksOrders
<1>1. Reservations => LockedCashBacksOrders
  BY DEF Reservations
<1>2. QED
  BY <1>1, ReservationsInvariant, PTL

\* The same for the units that live SELL orders lock.
THEOREM LockedQuantityIsReserved == Spec => []LockedQuantityBacksOrders
<1>1. Reservations => LockedQuantityBacksOrders
  BY DEF Reservations
<1>2. QED
  BY <1>1, ReservationsInvariant, PTL

-----------------------------------------------------------------------------
(***************************************************************************)
(* The platform's side of the ledger: a fill posts the same amounts to one *)
(* user and, with the other sign, to the platform.                         *)
(***************************************************************************)

UnitsOfUsers(l, s) == [u \in Users |-> l.userSec[<<u, s>>]]

Mirrored(l) ==
  /\ l.platformCash = - SumOf(l.userCash)
  /\ \A s \in Symbols : l.platformSec[s] = - SumOf(UnitsOfUsers(l, s))

LEMMA PostedIsMirrored ==
  ASSUME NEW l \in Balances, Mirrored(l), NEW o \in Order, NEW qty \in Nat, NEW price \in Nat
  PROVE  Mirrored(Posted(l, o, qty, price))
<1> DEFINE u == Owner[o.portfolio]
<1>1. u \in Users /\ o.symbol \in Symbols /\ IsFiniteSet(Users)
  BY UsersAssumption, FinitenessAssumption DEF Order
<1>2. PICK cash \in Int, units \in Int :
        /\ cash = IF o.side = "BUY" THEN -(qty * price) ELSE qty * price
        /\ units = IF o.side = "BUY" THEN qty ELSE -qty
  OBVIOUS
<1>3. PICK m : m = Posted(l, o, qty, price)
  OBVIOUS
<1>4. /\ m.userCash = [l.userCash EXCEPT ![u] = @ + cash]
      /\ m.platformCash = l.platformCash - cash
      /\ m.userSec = [l.userSec EXCEPT ![<<u, o.symbol>>] = @ + units]
      /\ m.platformSec = [l.platformSec EXCEPT ![o.symbol] = @ - units]
  BY <1>2, <1>3 DEF Posted
<1>5. /\ l.userCash \in [Users -> Int] /\ l.platformCash \in Int
      /\ l.userSec \in [Users \X Symbols -> Int] /\ l.platformSec \in [Symbols -> Int]
  BY DEF Balances
<1>6. m.platformCash = - SumOf(m.userCash)
  <2>1. /\ m.userCash \in [Users -> Int] /\ m.userCash[u] - l.userCash[u] = cash
        /\ \A v \in Users \ {u} : m.userCash[v] = l.userCash[v]
    BY <1>1, <1>4, <1>5
  <2>2. SumOf(m.userCash) = SumOf(l.userCash) + cash
    BY <1>1, <1>5, <2>1, SumChanges
  <2>3. SumOf(l.userCash) \in Int
    BY <1>1, <1>5, SumIsInt
  <2>4. QED
    BY <1>4, <2>2, <2>3 DEF Mirrored
<1>7. ASSUME NEW s \in Symbols PROVE m.platformSec[s] = - SumOf(UnitsOfUsers(m, s))
  <2>1. UnitsOfUsers(l, s) \in [Users -> Int] /\ UnitsOfUsers(m, s) \in [Users -> Int]
    BY <1>1, <1>4, <1>5 DEF UnitsOfUsers
  <2>2. SumOf(UnitsOfUsers(l, s)) \in Int
    BY <1>1, <2>1, SumIsInt
  <2>3. CASE s # o.symbol
    <3>1. UnitsOfUsers(m, s) = UnitsOfUsers(l, s) /\ m.platformSec[s] = l.platformSec[s]
      BY <1>4, <1>5, <2>3 DEF UnitsOfUsers
    <3>2. QED
      BY <3>1 DEF Mirrored
  <2>4. CASE s = o.symbol
    <3>1. /\ UnitsOfUsers(m, s)[u] - UnitsOfUsers(l, s)[u] = units
          /\ \A v \in Users \ {u} : UnitsOfUsers(m, s)[v] = UnitsOfUsers(l, s)[v]
          /\ m.platformSec[s] = l.platformSec[s] - units
      BY <1>1, <1>4, <1>5, <2>4 DEF UnitsOfUsers
    <3>2. SumOf(UnitsOfUsers(m, s)) = SumOf(UnitsOfUsers(l, s)) + units
      BY <1>1, <2>1, <3>1, SumChanges
    <3>3. QED
      BY <2>2, <3>1, <3>2 DEF Mirrored
  <2>5. QED
    BY <2>3, <2>4
<1>8. QED
  BY <1>3, <1>6, <1>7 DEF Mirrored

LEMMA MirrorStep == TypeInv /\ PlatformMirrorsUsers /\ [Next]_vars => PlatformMirrorsUsers'
<1> SUFFICES ASSUME TypeInv, PlatformMirrorsUsers, [Next]_vars
             PROVE  PlatformMirrorsUsers'
  OBVIOUS
<1>1. Mirrored(ledger) /\ (Mirrored(ledger') => PlatformMirrorsUsers')
  BY DEF PlatformMirrorsUsers, Mirrored, UnitsOfUsers
<1>2. CASE ledger' = ledger
  BY <1>1, <1>2
<1>3. ASSUME NEW k \in Keys, NEW seen \in Snapshots(k), NEW price \in FillPrices,
             ProcessFill(k, seen, price)
      PROVE  PlatformMirrorsUsers'
  <2>1. /\ orders[k] \in Order /\ ExecutableQty(k, seen) \in Nat /\ price \in Nat
        /\ ledger \in Balances
    BY <1>3, FillFacts DEF TypeInv, TypeOK
  <2>2. ledger' = Posted(ledger, orders[k], ExecutableQty(k, seen), price)
    BY <1>3 DEF ProcessFill
  <2>3. QED
    BY <1>1, <2>1, <2>2, PostedIsMirrored
<1>4. QED
  BY <1>2, <1>3
     DEF Next, CallStep, OrderStep, CancelOrder, ExpireOrder, Withdraw, ChangeSession,
         BeginPlaceOrder, PlaceOrder, PlaceOrderFails, PlaceOrderFindsDuplicate, Answer,
         MarkOrderPending, ActivateStopLimit, vars

\* The platform's accounts are the other side of all the users' accounts, in
\* cash and in every security: no fill posts one leg without the other.
THEOREM LedgerBalances == Spec => []PlatformMirrorsUsers
<1>1. Init => PlatformMirrorsUsers
  <2> SUFFICES ASSUME Init PROVE PlatformMirrorsUsers
    OBVIOUS
  <2>1. PICK f : f = [u \in Users |-> 0]
    OBVIOUS
  <2>2. SumOf(f) = 0
    BY <2>1, FinitenessAssumption, SumIsZero
  <2>3. /\ ledger.userCash = f /\ ledger.platformCash = 0
        /\ \A s \in Symbols : ledger.platformSec[s] = 0 /\ UnitsOfUsers(ledger, s) = f
    BY <2>1 DEF Init, UnitsOfUsers
  <2>4. Mirrored(ledger)
    <3>1. SumOf(f) \in Int /\ \A n \in Int : n = 0 => -n = 0
      BY <2>2
    <3>2. - SumOf(f) = 0
      BY <2>2, <3>1, Zenon
    <3>3. /\ ledger.platformCash = - SumOf(ledger.userCash)
          /\ \A s \in Symbols : ledger.platformSec[s] = - SumOf(UnitsOfUsers(ledger, s))
      BY <2>3, <3>2, Zenon
    <3>4. QED
      BY <3>3 DEF Mirrored
  <2>5. QED
    BY <2>4 DEF PlatformMirrorsUsers, Mirrored, UnitsOfUsers
<1>2. QED
  BY <1>1, MirrorStep, TypeInvariant, PTL DEF Spec
-----------------------------------------------------------------------------
(***************************************************************************)
(* Theorems about executions: late, repeated and reordered jobs execute    *)
(* every unit of an order once, the order service keeps the contract of    *)
(* OrderLifecycle, and the outbox tells what became of every order.        *)
(***************************************************************************)

(***************************************************************************)
(* ExecutedOnce is not inductive: it does not say why a job built from an  *)
(* old snapshot is refused.  The reason is that the depth of a symbol does *)
(* not change, so two jobs built from one snapshot have one execution key: *)
(* from every filled quantity that was passed, the key of the next fill is *)
(* already taken.                                                          *)
(***************************************************************************)

Covers(f, n) == f.key - f.quantity < n /\ n <= f.key

StatusTellsFilled(k) ==
  /\ orders[k].status = "FILLED" <=> orders[k].filled = orders[k].requested
  /\ orders[k].status \in {"ACCEPTED", "PENDING"} => orders[k].filled = 0
  /\ orders[k].status = "PARTIALLY_FILLED" => orders[k].filled > 0

\* What an order that exists has been filled is tiled by its fills.
Tiled(k) ==
  /\ \A f \in fills : f.order = k => f.key <= orders[k].filled
  /\ \A n \in 1 .. orders[k].filled :
       \E f \in fills :
          /\ f.order = k /\ Covers(f, n)
          /\ \A g \in fills \ {f} : g.order = k => ~Covers(g, n)

\* Every snapshot but the last one has been used up.
SnapshotsUsed(k) ==
  /\ orders[k].filled \in Snapshots(k)
  /\ \A x \in Snapshots(k) :
       /\ x <= orders[k].filled
       /\ x < orders[k].filled => x + ExecutableQty(k, x) \in KeysOf(k)

ExecutionInv ==
  \A k \in Keys :
    IF Exists(k) THEN Tiled(k) /\ SnapshotsUsed(k) /\ StatusTellsFilled(k)
                 ELSE KeysOf(k) = {}

LEMMA SnapshotsAreNats ==
  ASSUME TypeInv, NEW k \in Keys
  PROVE  Snapshots(k) \subseteq Nat
BY DEF Snapshots, KeysOf, TypeInv, TypeOK, Fill

\* A job that is executed was built from the order as it is now.
LEMMA FillIsCurrent ==
  ASSUME TypeInv, ExecutionInv, NEW k \in Keys, NEW seen \in Snapshots(k),
         NEW price \in FillPrices, ProcessFill(k, seen, price)
  PROVE  seen = orders[k].filled
<1>1. Exists(k) /\ seen + ExecutableQty(k, seen) \notin KeysOf(k)
  BY DEF ProcessFill, Executed
<1>2. SnapshotsUsed(k)
  BY <1>1 DEF ExecutionInv
<1>3. seen \in Nat /\ orders[k].filled \in Nat
  BY FillFacts
<1>4. QED
  BY <1>1, <1>2, <1>3 DEF SnapshotsUsed

\* An order no step touches keeps its part of the invariant.
LEMMA ExecutionUntouched ==
  ASSUME ExecutionInv, NEW k \in Keys, KeysOf(k)' = KeysOf(k),
         {f \in fills : f.order = k}' = {f \in fills : f.order = k},
         Exists(k)' <=> Exists(k),
         Exists(k) => /\ orders'[k].filled = orders[k].filled
                      /\ orders'[k].requested = orders[k].requested
                      /\ orders'[k].symbol = orders[k].symbol
                      /\ StatusTellsFilled(k)'
  PROVE  IF Exists(k)' THEN Tiled(k)' /\ SnapshotsUsed(k)' /\ StatusTellsFilled(k)'
                       ELSE KeysOf(k)' = {}
<1>1. CASE ~Exists(k)
  BY <1>1 DEF ExecutionInv
<1>2. CASE Exists(k)
  <2>1. Tiled(k) /\ SnapshotsUsed(k)
    BY <1>2 DEF ExecutionInv
  <2>2. \A f : f \in fills' /\ f.order = k <=> f \in fills /\ f.order = k
    OBVIOUS
  <2>3. Tiled(k)'
    BY <1>2, <2>1, <2>2 DEF Tiled, Covers
  <2>4. \A x : ExecutableQty(k, x)' = ExecutableQty(k, x)
    BY <1>2 DEF ExecutableQty
  <2>5. Snapshots(k)' = Snapshots(k)
    BY DEF Snapshots
  <2>6. SnapshotsUsed(k)'
    BY <1>2, <2>1, <2>4, <2>5 DEF SnapshotsUsed
  <2>7. QED
    BY <1>2, <2>3, <2>6
<1>3. QED
  BY <1>1, <1>2

\* The fill of an order extends the tiling by the interval it executes.
LEMMA ExecutionFilled ==
  ASSUME TypeInv, ExecutionInv, NEW k \in Keys, NEW seen \in Snapshots(k),
         NEW price \in FillPrices, ProcessFill(k, seen, price)
  PROVE  Exists(k)' /\ Tiled(k)' /\ SnapshotsUsed(k)' /\ StatusTellsFilled(k)'
<1> DEFINE qty == ExecutableQty(k, seen)
           now == orders[k].filled + qty
<1>1. /\ Exists(k) /\ orders[k] \in Order
      /\ qty \in Nat /\ qty > 0 /\ now \in Nat
      /\ orders[k].filled \in Nat /\ orders[k].requested \in Nat
  BY FillFacts
<1>2. Tiled(k) /\ SnapshotsUsed(k)
  BY <1>1 DEF ExecutionInv
<1>3. seen = orders[k].filled
  BY FillIsCurrent
<1>4. /\ orders'[k] = [orders[k] EXCEPT !.filled = now,
                         !.status = IF now = orders[k].requested
                                    THEN "FILLED" ELSE "PARTIALLY_FILLED"]
      /\ Exists(k)' /\ now <= orders[k].requested
  BY FillOrders
<1>5. PICK f \in Fill : /\ fills' = fills \cup {f} /\ f.order = k
                        /\ f.key = now /\ f.quantity = qty
  BY <1>3, FillRow
<1>6. \A g \in fills : g.key \in Nat /\ g.quantity \in Nat
  BY DEF TypeInv, TypeOK, Fill
<1> HIDE DEF qty
<1>7. /\ orders'[k].filled = now /\ orders'[k].requested = orders[k].requested
      /\ orders'[k].symbol = orders[k].symbol
      /\ orders'[k].status = IF now = orders[k].requested THEN "FILLED" ELSE "PARTIALLY_FILLED"
  BY <1>1, <1>4 DEF Order
<1>8. Tiled(k)'
  <2>1. ASSUME NEW g \in fills', g.order = k PROVE g.key <= now
    BY <1>1, <1>2, <1>5, <1>6, <2>1 DEF Tiled
  <2>2. ASSUME NEW n \in 1 .. now
        PROVE  \E g \in fills' : /\ g.order = k /\ Covers(g, n)
                                 /\ \A h \in fills' \ {g} : h.order = k => ~Covers(h, n)
    <3>1. CASE n <= orders[k].filled
      <4>1. PICK g \in fills : /\ g.order = k /\ Covers(g, n)
                               /\ \A h \in fills \ {g} : h.order = k => ~Covers(h, n)
        BY <1>1, <1>2, <3>1 DEF Tiled
      <4>2. ~Covers(f, n)
        BY <1>1, <1>5, <3>1 DEF Covers
      <4>3. QED
        BY <1>5, <4>1, <4>2
    <3>2. CASE n > orders[k].filled
      <4>1. Covers(f, n)
        BY <1>1, <1>5, <3>2 DEF Covers
      <4>2. \A h \in fills : h.order = k => ~Covers(h, n)
        BY <1>1, <1>2, <1>6, <3>2 DEF Tiled, Covers
      <4>3. QED
        BY <1>5, <4>1, <4>2
    <3>3. QED
      BY <1>1, <3>1, <3>2
  <2>3. QED
    BY <1>7, <2>1, <2>2 DEF Tiled
<1>9. SnapshotsUsed(k)'
  <2>1. KeysOf(k)' = KeysOf(k) \cup {now}
    BY <1>5 DEF KeysOf
  <2>2. Snapshots(k)' = Snapshots(k) \cup {now}
    BY <2>1 DEF Snapshots
  <2>3. \A x : ExecutableQty(k, x)' = ExecutableQty(k, x)
    BY <1>7 DEF ExecutableQty
  <2>4. ASSUME NEW x \in Snapshots(k)'
        PROVE  /\ x <= now
               /\ x < now => x + ExecutableQty(k, x) \in KeysOf(k)'
    <3>1. CASE x = now
      BY <1>1, <3>1
    <3>2. CASE x \in Snapshots(k) /\ x < orders[k].filled
      BY <1>1, <1>2, <2>1, <3>2, SnapshotsAreNats DEF SnapshotsUsed
    <3>3. CASE x = orders[k].filled
      BY <1>1, <1>3, <2>1, <3>3 DEF qty
    <3>4. x \in Snapshots(k) => x < orders[k].filled \/ x = orders[k].filled
      BY <1>1, <1>2, SnapshotsAreNats DEF SnapshotsUsed
    <3>5. QED
      BY <2>2, <3>1, <3>2, <3>3, <3>4
  <2>5. QED
    BY <1>7, <2>2, <2>3, <2>4 DEF SnapshotsUsed
<1>10. StatusTellsFilled(k)'
  BY <1>1, <1>4, <1>7 DEF StatusTellsFilled
<1>11. QED
  BY <1>4, <1>8, <1>9, <1>10

LEMMA ExecutionStep == TypeInv /\ ExecutionInv /\ [Next]_vars => ExecutionInv'
<1> SUFFICES ASSUME TypeInv, ExecutionInv, [Next]_vars, NEW k \in Keys
             PROVE  IF Exists(k)' THEN Tiled(k)' /\ SnapshotsUsed(k)' /\ StatusTellsFilled(k)'
                                  ELSE KeysOf(k)' = {}
  BY DEF ExecutionInv
<1> DEFINE Goal == IF Exists(k)' THEN Tiled(k)' /\ SnapshotsUsed(k)' /\ StatusTellsFilled(k)'
                                 ELSE KeysOf(k)' = {}
<1>1. CASE UNCHANGED <<orders, fills>>
  BY <1>1, ExecutionUntouched DEF ExecutionInv, Exists, KeysOf, StatusTellsFilled
<1>2. ASSUME NEW c \in Calls, PlaceOrder(c) PROVE Goal
  <2>1. KeyOf[c] \in Keys /\ NewOrder(Body[c]) \in Order /\ ~Exists(KeyOf[c]) /\ fills' = fills
    BY <1>2, BodyType, PlacedBody DEF PlaceOrder, UniqueKeyViolated
  <2>2. orders'[k] = IF k = KeyOf[c] THEN NewOrder(Body[c]) ELSE orders[k]
    BY <1>2, <2>1 DEF PlaceOrder, TypeInv, TypeOK
  <2>3. CASE k # KeyOf[c]
    BY <2>1, <2>2, <2>3, ExecutionUntouched DEF ExecutionInv, Exists, KeysOf, StatusTellsFilled
  <2>4. CASE k = KeyOf[c]
    <3>1. KeysOf(k) = {} /\ KeysOf(k)' = {}
      BY <2>1, <2>4 DEF ExecutionInv, KeysOf
    <3>2. /\ orders'[k].filled = 0 /\ orders'[k].status = "ACCEPTED"
          /\ orders'[k].requested > 0
      <4>1. Valid(Body[c]) /\ Body[c] \in Dto
        BY <1>2, BodyType DEF PlaceOrder, TypeInv, CheckedCallsAreValid
      <4>2. QED
        BY <2>2, <2>4, <4>1 DEF NewOrder, Valid, Dto
    <3>3. \A f \in fills' : f.order # k
      BY <3>1 DEF KeysOf
    <3>4. Tiled(k)'
      BY <3>2, <3>3 DEF Tiled
    <3>5. Snapshots(k)' = {0}
      BY <3>1 DEF Snapshots
    <3>6. SnapshotsUsed(k)'
      BY <3>2, <3>5 DEF SnapshotsUsed
    <3>7. StatusTellsFilled(k)'
      BY <3>2, <2>1, <2>2, <2>4 DEF StatusTellsFilled, Order
    <3>8. Exists(k)'
      BY <2>1, <2>2, <2>4, NoOrderAssumption DEF Exists
    <3>9. QED
      BY <3>4, <3>6, <3>7, <3>8
  <2>5. QED
    BY <2>3, <2>4
<1>3. ASSUME NEW j \in Keys,
             \/ MarkOrderPending(j) \/ ActivateStopLimit(j)
             \/ \E to \in {"CANCELLED", "EXPIRED"},
                   event \in {"ORDER_CANCELLED", "ORDER_EXPIRED"} : Withdraw(j, to, event)
      PROVE  Goal
  <2>1. Exists(j) /\ Exists(j)' /\ fills' = fills
    BY <1>3, OtherOrderSteps
  <2>2. CASE k # j
    <3>1. orders'[k] = orders[k]
      BY <1>3, <2>2, OtherOrderSteps
    <3>2. QED
      BY <2>1, <3>1, ExecutionUntouched DEF ExecutionInv, Exists, KeysOf, StatusTellsFilled
  <2>3. CASE k = j
    <3>1. orders[k] \in Order
          /\ orders[k].status \in {"ACCEPTED", "PENDING", "PARTIALLY_FILLED"}
      BY <1>3, <2>3, OtherOrderSteps
    <3>2. PICK to \in Statuses, on \in BOOLEAN :
             orders'[k] = [orders[k] EXCEPT !.status = to, !.isActivated = on]
      BY <1>3, <2>3, OtherOrderSteps
    <3>3. /\ orders'[k].filled = orders[k].filled /\ orders'[k].requested = orders[k].requested
          /\ orders'[k].symbol = orders[k].symbol /\ orders'[k].status = to
      BY <3>1, <3>2 DEF Order
    <3>4. \/ to \in {"CANCELLED", "EXPIRED"}
          \/ to = "PENDING" /\ orders[k].status = "ACCEPTED"
          \/ to = orders[k].status
      BY <1>3, <2>3, <3>1, <3>3
         DEF MarkOrderPending, ActivateStopLimit, Activated, Withdraw, SetStatus, ValidTransition, Transitions,
             TypeInv, TypeOK, Order
    <3>5. StatusTellsFilled(k)
      BY <2>1, <2>3 DEF ExecutionInv
    <3>6. StatusTellsFilled(k)'
      BY <3>1, <3>3, <3>4, <3>5 DEF StatusTellsFilled
    <3>7. QED
      BY <2>1, <2>3, <3>3, <3>6, ExecutionUntouched DEF KeysOf
  <2>4. QED
    BY <2>2, <2>3
<1>4. ASSUME NEW j \in Keys, NEW seen \in Snapshots(j), NEW price \in FillPrices,
             ProcessFill(j, seen, price)
      PROVE  Goal
  <2>1. CASE k = j
    BY <1>4, <2>1, ExecutionFilled
  <2>2. CASE k # j
    <3>1. orders'[k] = orders[k]
      BY <1>4, <2>2, FillOrders
    <3>2. PICK f \in Fill : fills' = fills \cup {f} /\ f.order = j
      BY <1>4, FillRow
    <3>3. {g \in fills' : g.order = k} = {g \in fills : g.order = k}
      BY <2>2, <3>2
    <3>4. KeysOf(k)' = KeysOf(k)
      BY <3>3 DEF KeysOf
    <3>5. QED
      BY <3>1, <3>3, <3>4, ExecutionUntouched DEF ExecutionInv, Exists, StatusTellsFilled
  <2>3. QED
    BY <2>1, <2>2
<1>5. QED
  BY <1>1, <1>2, <1>3, <1>4, OrdersAlone

\* However late, repeated or reordered the execution jobs are, no unit of an
\* order is executed twice and none is skipped.
THEOREM ExecutionIsExactlyOnce == Spec => []ExecutedOnce
<1>1. Init => ExecutionInv
  BY DEF Init, ExecutionInv, Exists, KeysOf
<1>2. ExecutionInv => ExecutedOnce
  BY DEF ExecutionInv, ExecutedOnce, Tiled, StatusTellsFilled, Covers
<1>3. QED
  BY <1>1, <1>2, ExecutionStep, TypeInvariant, PTL DEF Spec

-----------------------------------------------------------------------------
(***************************************************************************)
(* Orders implements OrderLifecycle.                                       *)
(***************************************************************************)

StatusOf(k)    == IF Exists(k) THEN orders[k].status ELSE "NONE"
RequestedOf(k) == IF Exists(k) THEN orders[k].requested ELSE 0
FilledOf(k)    == IF Exists(k) THEN orders[k].filled ELSE 0

\* Every order asks for what one of the calls asked for.
RequestsAreCalls == \A k \in Keys : Exists(k) => \E c \in Calls : orders[k].requested = Body[c].requested

LEMMA LifecycleUntouched ==
  ASSUME \A k \in Keys : orders'[k] = orders[k]
  PROVE  UNCHANGED Lifecycle!vars
BY DEF Lifecycle!vars, Exists

LEMMA LifecycleStep ==
  ASSUME TypeInv, ExecutionInv, RequestsAreCalls, [Next]_vars
  PROVE  [Lifecycle!Next]_(Lifecycle!vars) /\ RequestsAreCalls'
<1>1. CASE UNCHANGED <<orders, fills>>
  BY <1>1, LifecycleUntouched DEF RequestsAreCalls, Exists
<1>2. ASSUME NEW c \in Calls, PlaceOrder(c)
      PROVE  [Lifecycle!Next]_(Lifecycle!vars) /\ RequestsAreCalls'
  <2> DEFINE k == KeyOf[c]
             n == Body[c].requested
  <2>1. k \in Keys /\ NewOrder(Body[c]) \in Order /\ ~Exists(k) /\ Body[c] \in Dto
    BY <1>2, BodyType, PlacedBody DEF PlaceOrder, UniqueKeyViolated
  <2>2. orders' = [orders EXCEPT ![k] = NewOrder(Body[c])]
    BY <1>2 DEF PlaceOrder
  <2>3. \A j \in Keys : orders'[j] = IF j = k THEN NewOrder(Body[c]) ELSE orders[j]
    BY <2>1, <2>2 DEF TypeInv, TypeOK
  <2>4. /\ NewOrder(Body[c]).status = "ACCEPTED" /\ NewOrder(Body[c]).requested = n
        /\ NewOrder(Body[c]).filled = 0
    BY DEF NewOrder
  <2>5. n \in Quantities
    <3>1. n \in Nat /\ n > 0
      BY <1>2, <2>1 DEF PlaceOrder, TypeInv, CheckedCallsAreValid, Valid, Dto
    <3>2. QED
      BY <3>1 DEF Quantities
  <2>6. Exists(k)'
    BY <2>1, <2>3, NoOrderAssumption DEF Exists
  <2>7. \A j \in Keys : j # k => (Exists(j)' <=> Exists(j))
    BY <2>3 DEF Exists
  <2> HIDE DEF k, n
  <2>8. Lifecycle!Accept(k, n)
    BY <2>1, <2>3, <2>4, <2>6, <2>7 DEF Lifecycle!Accept
  <2>9. RequestsAreCalls'
    BY <2>3, <2>4, <2>7 DEF RequestsAreCalls, n
  <2>10. QED
    BY <2>1, <2>5, <2>8, <2>9 DEF Lifecycle!Next
<1>3. ASSUME NEW k \in Keys,
             \/ MarkOrderPending(k) \/ ActivateStopLimit(k)
             \/ \E to \in {"CANCELLED", "EXPIRED"},
                   event \in {"ORDER_CANCELLED", "ORDER_EXPIRED"} : Withdraw(k, to, event)
      PROVE  [Lifecycle!Next]_(Lifecycle!vars) /\ RequestsAreCalls'
  <2>1. /\ Exists(k) /\ Exists(k)' /\ orders[k] \in Order
        /\ orders[k].status \in {"ACCEPTED", "PENDING", "PARTIALLY_FILLED"}
        /\ \A j \in Keys : j # k => orders'[j] = orders[j]
    BY <1>3, OtherOrderSteps
  <2>2. PICK to \in Statuses, on \in BOOLEAN :
           orders'[k] = [orders[k] EXCEPT !.status = to, !.isActivated = on]
    BY <1>3, OtherOrderSteps
  <2>3. /\ orders'[k].filled = orders[k].filled /\ orders'[k].requested = orders[k].requested
        /\ orders'[k].status = to
    BY <2>1, <2>2 DEF Order
  <2>4. \A j \in Keys : j # k => (Exists(j)' <=> Exists(j))
    BY <2>1 DEF Exists
  <2>5. /\ [j \in Keys |-> RequestedOf(j)]' = [j \in Keys |-> RequestedOf(j)]
        /\ [j \in Keys |-> FilledOf(j)]' = [j \in Keys |-> FilledOf(j)]
        /\ [j \in Keys |-> StatusOf(j)]' = [[j \in Keys |-> StatusOf(j)] EXCEPT ![k] = to]
    BY <2>1, <2>3, <2>4 DEF RequestedOf, FilledOf, StatusOf
  <2>6. \/ to \in {"CANCELLED", "EXPIRED"}
        \/ to = "PENDING" /\ orders[k].status = "ACCEPTED"
        \/ to = orders[k].status
    BY <1>3, <2>1, <2>3
       DEF MarkOrderPending, ActivateStopLimit, Activated, Withdraw, SetStatus, ValidTransition, Transitions,
           TypeInv, TypeOK, Order
  <2>7. RequestsAreCalls'
    BY <2>1, <2>3, <2>4 DEF RequestsAreCalls
  <2>8. CASE to \in {"CANCELLED", "EXPIRED"}
    <3>1. Lifecycle!Withdraw(k, to)
      BY <2>1, <2>5
         DEF Lifecycle!Withdraw, Lifecycle!Live, Lifecycle!Executable, RequestedOf, FilledOf, StatusOf
    <3>2. QED
      BY <2>7, <2>8, <3>1 DEF Lifecycle!Next
  <2>9. CASE to = "PENDING" /\ orders[k].status = "ACCEPTED"
    <3>1. Lifecycle!Route(k)
      BY <2>1, <2>5, <2>9 DEF Lifecycle!Route, RequestedOf, FilledOf, StatusOf
    <3>2. QED
      BY <2>7, <3>1 DEF Lifecycle!Next
  <2>10. CASE to = orders[k].status
    <3>1. [j \in Keys |-> StatusOf(j)]' = [j \in Keys |-> StatusOf(j)]
      BY <2>1, <2>5, <2>10 DEF StatusOf
    <3>2. QED
      BY <2>5, <2>7, <3>1 DEF Lifecycle!vars, RequestedOf, FilledOf, StatusOf
  <2>11. QED
    BY <2>6, <2>7, <2>8, <2>9, <2>10
<1>4. ASSUME NEW k \in Keys, NEW seen \in Snapshots(k), NEW price \in FillPrices,
             ProcessFill(k, seen, price)
      PROVE  [Lifecycle!Next]_(Lifecycle!vars) /\ RequestsAreCalls'
  <2>0. PICK qty \in Nat : qty = ExecutableQty(k, seen)
    BY <1>4, FillFacts
  <2> DEFINE now == orders[k].filled + qty
             state == IF now = orders[k].requested THEN "FILLED" ELSE "PARTIALLY_FILLED"
  <2>1. /\ Exists(k) /\ orders[k] \in Order /\ qty \in Nat /\ qty > 0
        /\ orders[k].filled \in Nat /\ orders[k].requested \in Nat
    BY <1>4, <2>0, FillFacts
  <2>2. /\ orders'[k] = [orders[k] EXCEPT !.filled = now, !.status = state]
        /\ Exists(k)' /\ now <= orders[k].requested
        /\ orders[k].status \in {"PENDING", "PARTIALLY_FILLED"}
        /\ \A j \in Keys : j # k => orders'[j] = orders[j]
    BY <1>4, <2>0, FillOrders
  <2>3. \A j \in Keys : j # k => (Exists(j)' <=> Exists(j))
    BY <2>2 DEF Exists
  <2>4. qty \in Quantities
    <3>1. PICK c \in Calls : orders[k].requested = Body[c].requested
      BY <2>1 DEF RequestsAreCalls
    <3>2. qty \in 1 .. Body[c].requested
      BY <2>1, <2>2, <3>1
    <3>3. QED
      BY <3>2 DEF Quantities
  <2>5. /\ orders'[k].requested = orders[k].requested
        /\ orders'[k].filled = now /\ orders'[k].status = state
    BY <2>1, <2>2 DEF Order
  <2>6. /\ [j \in Keys |-> RequestedOf(j)]' = [j \in Keys |-> RequestedOf(j)]
        /\ [j \in Keys |-> FilledOf(j)]' = [[j \in Keys |-> FilledOf(j)] EXCEPT ![k] = now]
        /\ [j \in Keys |-> StatusOf(j)]' = [[j \in Keys |-> StatusOf(j)] EXCEPT ![k] = state]
    BY <2>1, <2>2, <2>3, <2>5, ZenonT(40) DEF RequestedOf, FilledOf, StatusOf
  <2>7. Lifecycle!Execute(k, qty)
    BY <2>1, <2>2, <2>6
       DEF Lifecycle!Execute, Lifecycle!Executable, RequestedOf, FilledOf, StatusOf
  <2>8. RequestsAreCalls'
    <3>1. \A j \in Keys : Exists(j)' => Exists(j) /\ orders'[j].requested = orders[j].requested
      BY <2>1, <2>2, <2>3, <2>5
    <3>2. QED
      BY <3>1 DEF RequestsAreCalls
  <2>9. Lifecycle!Next
    BY <2>4, <2>7 DEF Lifecycle!Next
  <2>10. QED
    BY <2>8, <2>9
<1>5. QED
  BY <1>1, <1>2, <1>3, <1>4, OrdersAlone

\* The order service implements the life of an order that its callers see.
THEOREM OrdersImplementLifecycle == Spec => LifecycleSpec
<1>1. Init => Lifecycle!Init /\ RequestsAreCalls /\ ExecutionInv
  BY DEF Init, Lifecycle!Init, RequestsAreCalls, ExecutionInv, Exists, KeysOf
<1>2. QED
  BY <1>1, LifecycleStep, ExecutionStep, TypeInvariant, PTL DEF Spec, LifecycleSpec, Lifecycle!Spec

-----------------------------------------------------------------------------
(***************************************************************************)
(* The outbox.  OutboxTellsTheStory is about ended and filled orders; that *)
(* it stays true needs one more thing, that every order that is or was on  *)
(* its way to the engine has told that it is PENDING.                      *)
(***************************************************************************)

Told(k) ==
  /\ Happened("ORDER_ACCEPTED", k, 0) <=> Exists(k)
  /\ Happened("ORDER_CANCELLED", k, 0) <=> (Exists(k) /\ orders[k].status = "CANCELLED")
  /\ Happened("ORDER_EXPIRED", k, 0) <=> (Exists(k) /\ orders[k].status = "EXPIRED")
  /\ Happened("ORDER_ACTIVATED", k, 0) <=> (Exists(k) /\ orders[k].isActivated)
  /\ (Exists(k) /\ orders[k].status \in {"PENDING", "PARTIALLY_FILLED"}) \/ KeysOf(k) # {}
       => Happened("ORDER_PENDING", k, 0)
  /\ \A f \in fills : f.order = k =>
       /\ Happened("ORDER_FILLED", k, f.key) <=> f.key = orders[k].requested
       /\ Happened("ORDER_PARTIALLY_FILLED", k, f.key) <=> f.key < orders[k].requested
  /\ \A e \in outbox :
       e.order = k /\ e.type \in {"ORDER_FILLED", "ORDER_PARTIALLY_FILLED"} => e.fill \in KeysOf(k)

OutboxInv == \A k \in Keys : Told(k)

LEMMA EmitFields ==
  ASSUME NEW t, NEW k, NEW n
  PROVE  Emit(t, k, n).type = t /\ Emit(t, k, n).order = k /\ Emit(t, k, n).fill = n
BY DEF Emit

\* An order nothing is written about keeps its story.
LEMMA ToldUntouched ==
  ASSUME NEW k \in Keys, Told(k), orders'[k] = orders[k],
         \A e : e.order = k => (e \in outbox' <=> e \in outbox),
         \A f : f.order = k => (f \in fills' <=> f \in fills)
  PROVE  Told(k)'
<1>1. \A t, n : Emit(t, k, n) \in outbox' <=> Emit(t, k, n) \in outbox
  BY EmitFields
<1>2. KeysOf(k)' = KeysOf(k)
  BY DEF KeysOf
<1>3. Exists(k)' <=> Exists(k)
  BY DEF Exists
<1>4. QED
  BY <1>1, <1>2, <1>3 DEF Told, Happened

\* One event that reports no fill, and the change of the order it tells of.
LEMMA ToldOnce ==
  ASSUME TypeInv, NEW k \in Keys, Told(k), Exists(k), fills' = fills,
         NEW t \in {"ORDER_PENDING", "ORDER_ACTIVATED", "ORDER_CANCELLED", "ORDER_EXPIRED"},
         outbox' = outbox \cup {Emit(t, k, 0)}, Exists(k)',
         orders'[k].requested = orders[k].requested,
         t = "ORDER_PENDING" => /\ orders[k].status = "ACCEPTED" /\ orders'[k].status = "PENDING"
                                /\ orders'[k].isActivated = orders[k].isActivated,
         t = "ORDER_ACTIVATED" => orders'[k].status = orders[k].status /\ orders'[k].isActivated,
         t \in {"ORDER_CANCELLED", "ORDER_EXPIRED"} =>
           /\ orders[k].status \notin {"CANCELLED", "EXPIRED"}
           /\ orders'[k].status = IF t = "ORDER_CANCELLED" THEN "CANCELLED" ELSE "EXPIRED"
           /\ orders'[k].isActivated = orders[k].isActivated
  PROVE  Told(k)'
<1>1. \A s, n : Emit(s, k, n) \in outbox' <=> (Emit(s, k, n) \in outbox \/ (s = t /\ n = 0))
  BY EmitFields
<1>2. KeysOf(k)' = KeysOf(k)
  BY DEF KeysOf
<1>3. /\ Happened("ORDER_ACCEPTED", k, 0)' <=> Exists(k)'
      /\ Happened("ORDER_CANCELLED", k, 0)' <=> (Exists(k)' /\ orders'[k].status = "CANCELLED")
      /\ Happened("ORDER_EXPIRED", k, 0)' <=> (Exists(k)' /\ orders'[k].status = "EXPIRED")
      /\ Happened("ORDER_ACTIVATED", k, 0)' <=> (Exists(k)' /\ orders'[k].isActivated)
  BY <1>1 DEF Told, Happened
<1>4. orders'[k].status \in {"PENDING", "PARTIALLY_FILLED"} \/ KeysOf(k)' # {}
        => Happened("ORDER_PENDING", k, 0)'
  BY <1>1, <1>2 DEF Told, Happened
<1>5. \A f \in fills' : f.order = k =>
       /\ Happened("ORDER_FILLED", k, f.key)' <=> f.key = orders'[k].requested
       /\ Happened("ORDER_PARTIALLY_FILLED", k, f.key)' <=> f.key < orders'[k].requested
  BY <1>1 DEF Told, Happened
<1>6. \A e \in outbox' :
       e.order = k /\ e.type \in {"ORDER_FILLED", "ORDER_PARTIALLY_FILLED"} => e.fill \in KeysOf(k)'
  BY <1>2, EmitFields DEF Told
<1>7. QED
  BY <1>3, <1>4, <1>5, <1>6 DEF Told

\* A fill and the two events it writes.
LEMMA ToldFilled ==
  ASSUME TypeInv, ExecutionInv, NEW k \in Keys, Told(k), NEW seen \in Snapshots(k),
         NEW price \in FillPrices, ProcessFill(k, seen, price)
  PROVE  Told(k)'
<1> DEFINE qty == ExecutableQty(k, seen)
           now == orders[k].filled + qty
<1>1. /\ Exists(k) /\ orders[k] \in Order /\ qty \in Nat
      /\ orders[k].filled \in Nat /\ orders[k].requested \in Nat
  BY FillFacts
<1>2. seen = orders[k].filled
  BY FillIsCurrent
<1>3. /\ orders'[k] = [orders[k] EXCEPT !.filled = now,
                         !.status = IF now = orders[k].requested
                                    THEN "FILLED" ELSE "PARTIALLY_FILLED"]
      /\ Exists(k)' /\ now <= orders[k].requested
      /\ orders[k].status \in {"PENDING", "PARTIALLY_FILLED"}
  BY FillOrders
<1>4. PICK f \in Fill : /\ fills' = fills \cup {f} /\ f.order = k
                        /\ f.key = now /\ f.key \notin KeysOf(k)
  BY <1>2, FillRow
<1>5. PICK moved : moved \in {"POSITION_CLOSED", "POSITION_UPDATED"} /\
         outbox' = outbox \cup
           {Emit(moved, k, now),
            Emit(IF now = orders[k].requested THEN "ORDER_FILLED" ELSE "ORDER_PARTIALLY_FILLED", k, now)}
  BY <1>2 DEF ProcessFill, StateAfter
<1> HIDE DEF qty, now
<1>6. /\ orders'[k].requested = orders[k].requested
      /\ orders'[k].isActivated = orders[k].isActivated
      /\ orders'[k].status = IF now = orders[k].requested THEN "FILLED" ELSE "PARTIALLY_FILLED"
  BY <1>1, <1>3 DEF Order
<1>7. KeysOf(k)' = KeysOf(k) \cup {now}
  BY <1>4 DEF KeysOf
<1>8. \A s, n : Emit(s, k, n) \in outbox' <=>
        \/ Emit(s, k, n) \in outbox
        \/ n = now /\ s \in {moved, IF now = orders[k].requested THEN "ORDER_FILLED" ELSE "ORDER_PARTIALLY_FILLED"}
  BY <1>5, EmitFields
<1>9. /\ Happened("ORDER_ACCEPTED", k, 0)' <=> Exists(k)'
      /\ Happened("ORDER_CANCELLED", k, 0)' <=> (Exists(k)' /\ orders'[k].status = "CANCELLED")
      /\ Happened("ORDER_EXPIRED", k, 0)' <=> (Exists(k)' /\ orders'[k].status = "EXPIRED")
      /\ Happened("ORDER_ACTIVATED", k, 0)' <=> (Exists(k)' /\ orders'[k].isActivated)
      /\ Happened("ORDER_PENDING", k, 0)'
  BY <1>1, <1>3, <1>5, <1>6, <1>8 DEF Told, Happened
<1>10. ~Happened("ORDER_FILLED", k, now) /\ ~Happened("ORDER_PARTIALLY_FILLED", k, now)
  BY <1>4, EmitFields DEF Told, Happened
<1>11. \A g \in fills' : g.order = k =>
       /\ Happened("ORDER_FILLED", k, g.key)' <=> g.key = orders'[k].requested
       /\ Happened("ORDER_PARTIALLY_FILLED", k, g.key)' <=> g.key < orders'[k].requested
  <2>1. SUFFICES ASSUME NEW g \in fills', g.order = k
                 PROVE  /\ Happened("ORDER_FILLED", k, g.key)' <=> g.key = orders'[k].requested
                        /\ Happened("ORDER_PARTIALLY_FILLED", k, g.key)' <=> g.key < orders'[k].requested
    OBVIOUS
  <2>2. CASE g = f
    <3>1. now \in Nat
      BY <1>4 DEF Fill
    <3>2. QED
      BY <1>1, <1>3, <1>4, <1>5, <1>6, <1>8, <1>10, <2>2, <3>1 DEF Happened
  <2>3. CASE g \in fills
    <3>1. g.key \in KeysOf(k) /\ g.key # now
      BY <1>4, <2>1, <2>3 DEF KeysOf
    <3>2. QED
      BY <1>6, <1>8, <2>1, <2>3, <3>1 DEF Told, Happened
  <2>4. QED
    BY <1>4, <2>2, <2>3
<1>12. \A e \in outbox' :
       e.order = k /\ e.type \in {"ORDER_FILLED", "ORDER_PARTIALLY_FILLED"} => e.fill \in KeysOf(k)'
  BY <1>5, <1>7, EmitFields DEF Told
<1>13. QED
  BY <1>9, <1>11, <1>12 DEF Told

LEMMA OutboxStep == TypeInv /\ ExecutionInv /\ OutboxInv /\ [Next]_vars => OutboxInv'
<1> SUFFICES ASSUME TypeInv, ExecutionInv, OutboxInv, [Next]_vars, NEW k \in Keys
             PROVE  Told(k)'
  BY DEF OutboxInv
<1>0. Told(k)
  BY DEF OutboxInv
<1>1. CASE UNCHANGED <<orders, fills, outbox>>
  BY <1>0, <1>1, ToldUntouched
<1>2. ASSUME NEW c \in Calls, PlaceOrder(c) PROVE Told(k)'
  <2>1. /\ KeyOf[c] \in Keys /\ NewOrder(Body[c]) \in Order /\ ~Exists(KeyOf[c])
        /\ fills' = fills /\ outbox' = outbox \cup {Emit("ORDER_ACCEPTED", KeyOf[c], 0)}
    BY <1>2, BodyType, PlacedBody DEF PlaceOrder, UniqueKeyViolated
  <2>2. orders'[k] = IF k = KeyOf[c] THEN NewOrder(Body[c]) ELSE orders[k]
    BY <1>2, <2>1 DEF PlaceOrder, TypeInv, TypeOK
  <2>3. CASE k # KeyOf[c]
    BY <1>0, <2>1, <2>2, <2>3, EmitFields, ToldUntouched
  <2>4. CASE k = KeyOf[c]
    <3>1. KeysOf(k) = {} /\ KeysOf(k)' = {}
      BY <2>1, <2>4 DEF ExecutionInv, KeysOf
    <3>2. \A f \in fills' : f.order # k
      BY <3>1 DEF KeysOf
    <3>3. /\ Exists(k)' /\ orders'[k].status = "ACCEPTED" /\ orders'[k].isActivated = FALSE
      <4>1. Exists(k)'
        BY <2>1, <2>2, <2>4, NoOrderAssumption DEF Exists
      <4>2. QED
        BY <2>2, <2>4, <4>1 DEF NewOrder
    <3>4. \A s, n : Emit(s, k, n) \in outbox' <=> (Emit(s, k, n) \in outbox \/ (s = "ORDER_ACCEPTED" /\ n = 0))
      BY <2>1, <2>4, EmitFields
    <3>5. \A e \in outbox' :
            e.order = k /\ e.type \in {"ORDER_FILLED", "ORDER_PARTIALLY_FILLED"} => e.fill \in KeysOf(k)'
      BY <1>0, <2>1, <2>4, <3>1, EmitFields DEF Told
    <3>6. QED
      BY <1>0, <2>1, <2>4, <3>1, <3>2, <3>3, <3>4, <3>5 DEF Told, Happened
  <2>5. QED
    BY <2>3, <2>4
<1>3. ASSUME NEW j \in Keys, MarkOrderPending(j) \/ ActivateStopLimit(j) \/ CancelOrder(j) \/ ExpireOrder(j)
      PROVE  Told(k)'
  <2>1. PICK t \in {"ORDER_PENDING", "ORDER_ACTIVATED", "ORDER_CANCELLED", "ORDER_EXPIRED"} :
          /\ outbox' = outbox \cup {Emit(t, j, 0)}
          /\ t = "ORDER_PENDING" => MarkOrderPending(j)
          /\ t = "ORDER_ACTIVATED" => ActivateStopLimit(j)
          /\ t = "ORDER_CANCELLED" => CancelOrder(j)
          /\ t = "ORDER_EXPIRED" => ExpireOrder(j)
    BY <1>3 DEF MarkOrderPending, ActivateStopLimit, CancelOrder, ExpireOrder, Withdraw
  <2>2. /\ Exists(j) /\ Exists(j)' /\ fills' = fills /\ orders[j] \in Order
        /\ orders[j].status \in {"ACCEPTED", "PENDING", "PARTIALLY_FILLED"}
        /\ \A l \in Keys : l # j => orders'[l] = orders[l]
    BY <1>3, OtherOrderSteps DEF CancelOrder, ExpireOrder
  <2>3. CASE k # j
    BY <1>0, <2>1, <2>2, <2>3, EmitFields, ToldUntouched
  <2>4. CASE k = j
    <3>1. \/ orders' = [orders EXCEPT ![k].isActivated = TRUE] /\ t = "ORDER_ACTIVATED"
          \/ \E to \in {"PENDING", "CANCELLED", "EXPIRED"} :
               /\ orders' = [orders EXCEPT ![k].status = to]
               /\ \/ to = "PENDING" /\ t = "ORDER_PENDING" /\ orders[k].status = "ACCEPTED"
                  \/ to = "CANCELLED" /\ t = "ORDER_CANCELLED"
                  \/ to = "EXPIRED" /\ t = "ORDER_EXPIRED"
      BY <2>1, <2>2, <2>4
         DEF MarkOrderPending, ActivateStopLimit, CancelOrder, ExpireOrder, Withdraw, Activated, SetStatus,
             ValidTransition, Transitions
    <3>2. orders \in [Keys -> Order \cup {NoOrder}] /\ orders[k] \in Order
      BY <2>2, <2>4 DEF TypeInv, TypeOK
    <3>3. /\ orders'[k].requested = orders[k].requested
          /\ t = "ORDER_PENDING" => /\ orders[k].status = "ACCEPTED" /\ orders'[k].status = "PENDING"
                                    /\ orders'[k].isActivated = orders[k].isActivated
          /\ t = "ORDER_ACTIVATED" => orders'[k].status = orders[k].status /\ orders'[k].isActivated
          /\ t \in {"ORDER_CANCELLED", "ORDER_EXPIRED"} =>
               /\ orders'[k].status = IF t = "ORDER_CANCELLED" THEN "CANCELLED" ELSE "EXPIRED"
               /\ orders'[k].isActivated = orders[k].isActivated
      BY <3>1, <3>2 DEF Order
    <3>4. QED
      BY <1>0, <2>1, <2>2, <2>4, <3>3, ToldOnce
  <2>5. QED
    BY <2>3, <2>4
<1>4. ASSUME NEW j \in Keys, NEW seen \in Snapshots(j), NEW price \in FillPrices,
             ProcessFill(j, seen, price)
      PROVE  Told(k)'
  <2>1. CASE k = j
    BY <1>0, <1>4, <2>1, ToldFilled
  <2>2. CASE k # j
    <3>1. orders'[k] = orders[k]
      BY <1>4, <2>2, FillOrders
    <3>2. \A f : f.order = k => (f \in fills' <=> f \in fills)
      BY <1>4, <2>2, FillRow
    <3>3. \A e : e.order = k => (e \in outbox' <=> e \in outbox)
      <4>1. PICK t, s, n : outbox' = outbox \cup {Emit(t, j, n), Emit(s, j, n)}
        BY <1>4 DEF ProcessFill
      <4>2. QED
        BY <2>2, <4>1, EmitFields
    <3>4. QED
      BY <1>0, <3>1, <3>2, <3>3, ToldUntouched
  <2>3. QED
    BY <2>1, <2>2
<1>5. QED
  BY <1>1, <1>2, <1>3, <1>4
     DEF Next, vars, CallStep, OrderStep, BeginPlaceOrder, PlaceOrderFails, PlaceOrderFindsDuplicate, ChangeSession, Answer

\* The outbox tells of every order what became of it: one end at most, its
\* activation, and one event per fill that says whether it was the last, for
\* all interleavings of clients, engine jobs and the sweep (the calls of
\* outbox.create in the transactions of OrderService).
THEOREM OutboxIsTheStory == Spec => []OutboxTellsTheStory
<1>1. Init => ExecutionInv /\ OutboxInv
  BY DEF Init, ExecutionInv, Exists, KeysOf, OutboxInv, Told, Happened
<1>2. OutboxInv => OutboxTellsTheStory
  <2>1. SUFFICES ASSUME OutboxInv, NEW k \in Keys
                 PROVE  \A f \in fills : f.order = k => Happened("ORDER_PENDING", k, 0)
    BY DEF OutboxInv, Told, OutboxTellsTheStory
  <2>2. QED
    BY <2>1 DEF OutboxInv, Told, KeysOf
<1>3. QED
  BY <1>1, <1>2, ExecutionStep, OutboxStep, TypeInvariant, PTL DEF Spec
=============================================================================
