-------------------------------- MODULE Engine --------------------------------
(***************************************************************************)
(* The way of an order from the table to its execution, for one symbol:    *)
(* the dispatcher routes events over pub/sub, an engine that holds the     *)
(* symbol's lease keeps a book in memory and queues execution jobs, the    *)
(* execution worker hands them to the order service.                       *)
(*                                                                         *)
(* An engine runs on one thread; what it does up to an await is one        *)
(* action.  It awaits the row a route message names, the rows of a scan    *)
(* (at the boot and every 30 seconds), and the transaction that activates  *)
(* a STOP_LIMIT order; what it has read may be old when it goes on.        *)
(* Adding a job is one step with the decision to add it, which may fail.   *)
(*                                                                         *)
(* Prices are integers and nothing is kept of the market: a tick may have  *)
(* any of Prices.  The orders have just been accepted; what else the order *)
(* service does with them is in the module Orders.                         *)
(***************************************************************************)
EXTENDS Integers, FiniteSets

CONSTANTS
  Engines,     \* engine processes assigned to the symbol
  Orders,      \* the orders of the symbol
  Type, Side, Requested, LimitPrice, StopPrice,   \* columns of each order
  Depth,       \* LiquidityProfile.availableDepth
  HalfSpread, Slippage,   \* baseSpread / 2 and slippageFactor
  Prices,      \* the prices of ticks
  Attempts,    \* how often the execution queue tries a job (10)
  Faults,      \* the kinds of faults that happen
  MaxFaults,   \* bound: how many faults happen
  Absent       \* an order that is not in a book, a scan that is not running

FaultKinds == {"route", "dispatch", "add", "job", "activate",
               "engine", "lease", "cancel", "close"}

ASSUME OrdersAssumption ==
  /\ Type \in [Orders -> {"MARKET", "LIMIT", "STOP", "STOP_LIMIT"}]
  /\ Side \in [Orders -> {"BUY", "SELL"}]
  /\ Requested \in [Orders -> Nat \ {0}]
  /\ LimitPrice \in [Orders -> Nat] /\ StopPrice \in [Orders -> Nat]
ASSUME MarketAssumption ==
  /\ Depth \in Nat \ {0} /\ HalfSpread \in Nat /\ Slippage \in Nat
  /\ Prices \subseteq Nat
ASSUME BoundAssumption ==
  /\ Attempts \in Nat \ {0}
  /\ Faults \subseteq FaultKinds /\ MaxFaults \in Nat

VARIABLES
  rows,         \* table orders
  isOpen,       \* the market session
  events,       \* domain events the dispatcher has yet to handle
  routing,      \* orders a dispatcher has made PENDING and not yet routed
  wire,         \* route messages on their way to each engine
  reads,        \* rows engines have read for a route message and not yet used
  scans,        \* the rows each engine has scanned and not yet used
  book,         \* the orders each engine keeps in memory
  activations,  \* activateStopLimit calls engines await
  process,      \* what each engine process is doing: down, boot or up
  owned,        \* whether the engine believes it owns the symbol
  lease,        \* the engine whose token the lease holds, or Absent
  jobs,         \* execution jobs: the queue keeps those that are done
  faults        \* how many faults happened

vars == <<rows, isOpen, events, routing, wire, reads, scans, book, activations,
          process, owned, lease, jobs, faults>>
database == <<rows, isOpen>>
messages == <<events, routing, wire>>
memory   == <<reads, scans, book, activations>>
leases   == <<process, owned, lease>>

Executable == {"PENDING", "PARTIALLY_FILLED"}
Ended      == {"FILLED", "CANCELLED", "EXPIRED"}

Row == [status : {"ACCEPTED"} \cup Executable \cup Ended,
        filled : Nat, isActivated : BOOLEAN]

\* EngineOrder; of its row, only what the engine looks at.
Entry == [filled : Nat, isActivated : BOOLEAN,
          state : {"READY", "QUEUED"}, expected : Nat]

ASSUME AbsentAssumption == Absent \notin Entry

\* An event and the route message made of it; "filled" tells fills apart
\* and is 0 for ORDER_ACCEPTED.
Message == [order : Orders, filled : Nat]

Read == [message : Message, row : Row]

\* A pending activation, the tick it goes on with, what the transaction
\* returned, and whether the objects it refers to are still in the book.
Activation == [order : Orders, price : Prices, result : {"pending", "failed", "activated"},
               ofEntry : BOOLEAN, ofRow : BOOLEAN]

Job == [order : Orders, key : Nat, quantity : Nat, price : Int,
        attempts : Nat, isDone : BOOLEAN, isApplied : BOOLEAN, ofSession : BOOLEAN]

Fault(kind) ==
  /\ kind \in Faults /\ faults < MaxFaults
  /\ faults' = faults + 1

Init ==
  /\ rows = [k \in Orders |-> [status |-> "ACCEPTED", filled |-> 0, isActivated |-> FALSE]]
  /\ isOpen = TRUE
  /\ events = {[order |-> k, filled |-> 0] : k \in Orders}
  /\ routing = {}
  /\ wire = [e \in Engines |-> {}]
  /\ reads = [e \in Engines |-> {}]
  /\ scans = [e \in Engines |-> Absent]
  /\ book = [e \in Engines |-> [k \in Orders |-> Absent]]
  /\ activations = [e \in Engines |-> {}]
  /\ process = [e \in Engines |-> "down"]
  /\ owned = [e \in Engines |-> FALSE]
  /\ lease = Absent
  /\ jobs = {}
  /\ faults = 0

-----------------------------------------------------------------------------
(***************************************************************************)
(* What happens to the rows from outside.                                  *)
(***************************************************************************)

CloseSession ==
  /\ isOpen /\ Fault("close")
  /\ isOpen' = FALSE
  /\ UNCHANGED <<rows, messages, memory, leases, jobs>>

\* cancelOrder or expireOrder.  Their events carry no symbol, so the
\* dispatcher does not route them.
EndOrder(k) ==
  /\ rows[k].status \notin Ended
  /\ Fault("cancel")
  /\ rows' = [rows EXCEPT ![k].status = "CANCELLED"]
  /\ UNCHANGED <<isOpen, messages, memory, leases, jobs>>

-----------------------------------------------------------------------------
(***************************************************************************)
(* The dispatcher.  The outbox brings it every event at least once.        *)
(***************************************************************************)

Published(m) ==
  [e \in Engines |-> IF process[e] = "down" THEN wire[e] ELSE wire[e] \cup {m}]

\* markOrderPending; outside the session it expires the order.  An invalid
\* transition is taken for an event that was handled before.
MarkPending(m) ==
  LET k  == m.order
      to == IF isOpen THEN "PENDING" ELSE "EXPIRED"
      ok == IF isOpen THEN rows[k].status = "ACCEPTED" ELSE rows[k].status \notin Ended
  IN /\ m.filled = 0 /\ k \notin routing
     /\ \/ /\ ok
           /\ rows' = [rows EXCEPT ![k].status = to]
           /\ routing' = routing \cup {k}
           /\ UNCHANGED events
        \/ /\ ~ok
           /\ events' = events \ {m}
           /\ UNCHANGED <<rows, routing>>
     /\ UNCHANGED <<isOpen, wire, memory, leases, jobs, faults>>

\* The dispatcher publishes the route of the order, or dies before it does,
\* and the event is handled again.
RouteAccepted(m) ==
  /\ m.filled = 0 /\ m.order \in routing
  /\ routing' = routing \ {m.order}
  /\ \/ wire' = Published(m) /\ events' = events \ {m} /\ UNCHANGED faults
     \/ Fault("dispatch") /\ UNCHANGED <<wire, events>>
  /\ UNCHANGED <<database, memory, leases, jobs>>

\* The same for the event of a fill, which needs no transaction; it may be
\* published and handled again.
RouteFill(m) ==
  /\ m.filled > 0
  /\ wire' = Published(m)
  /\ \/ events' = events \ {m} /\ UNCHANGED faults
     \/ UNCHANGED events /\ Fault("dispatch")
  /\ UNCHANGED <<database, routing, memory, leases, jobs>>

\* Pub/sub delivers at most once: a subscriber that reconnects misses messages.
\* A read that fails comes to the same, for its error is only logged.
LoseRoute(e) ==
  /\ Fault("route")
  /\ \E m \in wire[e] : wire' = [wire EXCEPT ![e] = @ \ {m}]
  /\ UNCHANGED <<database, events, routing, memory, leases, jobs>>

-----------------------------------------------------------------------------
(***************************************************************************)
(* The book.                                                               *)
(***************************************************************************)

IsCandidate(k, row) == row.status \in Executable /\ row.filled < Requested[k]

\* Mutant: a new entry expects nothing.
FreshUnexpecting(row) == [filled |-> row.filled, isActivated |-> row.isActivated, state |-> "READY"]

Fresh(row) == [filled |-> row.filled, isActivated |-> row.isActivated,
               state |-> "READY", expected |-> row.filled]

\* The safety lock of a QUEUED order: the table has seen what was dispatched.
CaughtUp(entry, row) == row.filled >= entry.expected

\* addOrder.  A QUEUED entry the table has caught up with is the same entry
\* with a new row; any other is replaced.
EntryAfterAdd(e, k, row) ==
  LET old == book[e][k]
  IN IF old # Absent /\ old.state = "QUEUED"
     THEN IF CaughtUp(old, row)
          THEN [Fresh(row) EXCEPT !.expected = old.expected] ELSE old
     ELSE Fresh(row)

\* Pending activations after rows are added and after orders are removed.
ActivationsAfterAdd(e, added, row) ==
  LET isQueued(k) == book[e][k] # Absent /\ book[e][k].state = "QUEUED"
      isKept(k)   == k \notin added \/ (isQueued(k) /\ ~CaughtUp(book[e][k], row[k]))
  IN {IF isKept(a.order) THEN a
      ELSE [a EXCEPT !.ofRow = FALSE, !.ofEntry = a.ofEntry /\ isQueued(a.order)]
        : a \in activations[e]}

ActivationsAfterRemove(e, gone) ==
  {IF a.order \in gone THEN [a EXCEPT !.ofRow = FALSE, !.ofEntry = FALSE] ELSE a
     : a \in activations[e]}

\* The message handler asks for the row the message names ...
ReadRoute(e) ==
  /\ process[e] # "down"
  /\ \E m \in wire[e] :
       /\ wire' = [wire EXCEPT ![e] = @ \ {m}]
       /\ reads' = [reads EXCEPT ![e] =
            IF owned[e] THEN @ \cup {[message |-> m, row |-> rows[m.order]]} ELSE @]
  /\ UNCHANGED <<database, events, routing, scans, book, activations, leases, jobs, faults>>

\* Mutant: the answer is used even if the lease is lost.
StillOwnedUnchecked(e) == TRUE

StillOwned(e) == owned[e]

\* ... and goes on when it has it.
UseRoute(e, r) ==
  LET k == r.message.order
  IN /\ reads' = [reads EXCEPT ![e] = @ \ {r}]
     /\ \/ /\ StillOwned(e) /\ IsCandidate(k, r.row)
           /\ book' = [book EXCEPT ![e][k] = EntryAfterAdd(e, k, r.row)]
           /\ activations' = [activations EXCEPT ![e] =
                ActivationsAfterAdd(e, {k}, [l \in Orders |-> r.row])]
        \/ /\ StillOwned(e) /\ ~IsCandidate(k, r.row)
           /\ book' = [book EXCEPT ![e][k] = Absent]
           /\ activations' = [activations EXCEPT ![e] = ActivationsAfterRemove(e, {k})]
        \/ /\ ~StillOwned(e)
           /\ UNCHANGED <<book, activations>>
     /\ UNCHANGED <<database, messages, scans, leases, jobs, faults>>

\* hydrate and reconcile ask for the actionable rows ...
Scan(e) ==
  /\ process[e] # "down" /\ owned[e]
  /\ scans[e] = Absent
  /\ scans' = [scans EXCEPT ![e] = rows]
  /\ UNCHANGED <<database, messages, reads, book, activations, leases, jobs, faults>>

\* ... hydrate adds all of them ...
Hydrate(e) ==
  LET found == {k \in Orders : IsCandidate(k, scans[e][k])}
  IN /\ process[e] = "boot" /\ scans[e] # Absent
     /\ book' = [book EXCEPT ![e] = [k \in Orders |->
          IF owned[e] /\ k \in found THEN EntryAfterAdd(e, k, scans[e][k]) ELSE @[k]]]
     /\ activations' = [activations EXCEPT ![e] =
          IF owned[e] THEN ActivationsAfterAdd(e, found, scans[e]) ELSE @]
     /\ scans' = [scans EXCEPT ![e] = Absent]
     /\ process' = [process EXCEPT ![e] = "up"]
     /\ UNCHANGED <<database, messages, reads, owned, lease, jobs, faults>>

\* Mutant: it only removes.
RecoveredNone(e) == {}

\* ... reconcile adds those the book has not ...
Recovered(e) == {k \in Orders : book[e][k] = Absent /\ IsCandidate(k, scans[e][k])}

\* Mutant: it only adds.
EvictedNone(e) == {}

\* ... and removes those the scan has not.
Evicted(e) == {k \in Orders : scans[e][k].status \notin Executable}

Reconcile(e) ==
  /\ process[e] = "up" /\ scans[e] # Absent
  /\ book' = [book EXCEPT ![e] = [k \in Orders |->
       CASE owned[e] /\ k \in Recovered(e) -> Fresh(scans[e][k])
         [] owned[e] /\ k \in Evicted(e)   -> Absent
         [] OTHER                          -> @[k]]]
  /\ activations' = [activations EXCEPT ![e] =
       IF owned[e] THEN ActivationsAfterRemove(e, Evicted(e)) ELSE @]
  /\ scans' = [scans EXCEPT ![e] = Absent]
  /\ UNCHANGED <<database, messages, reads, leases, jobs, faults>>

-----------------------------------------------------------------------------
(***************************************************************************)
(* Evaluation of a tick, or of the cached price after a scan.              *)
(***************************************************************************)

Triggered(k, price) == IF Side[k] = "BUY" THEN price >= StopPrice[k] ELSE price <= StopPrice[k]

ExecutablePrice(k, price, filled) ==
  LET away == HalfSpread + Slippage * (filled \div Depth)
  IN IF Side[k] = "BUY" THEN price + away ELSE price - away

\* Mutant: the limit is compared with the tick itself.
CanFillAtTick(k, price, filled) ==
  IF Side[k] = "BUY" THEN price <= LimitPrice[k] ELSE price >= LimitPrice[k]

CanFill(k, price, filled) ==
  LET executable == ExecutablePrice(k, price, filled)
  IN IF Side[k] = "BUY" THEN executable <= LimitPrice[k] ELSE executable >= LimitPrice[k]

ExecutableQty(k, filled) ==
  LET left == Requested[k] - filled IN IF left < Depth THEN left ELSE Depth

ExecuteFill(k, price, filled) ==
  [order |-> k, key |-> filled + ExecutableQty(k, filled),
   quantity |-> ExecutableQty(k, filled), price |-> ExecutablePrice(k, price, filled),
   attempts |-> 0, isDone |-> FALSE, isApplied |-> FALSE, ofSession |-> isOpen]

\* The job's id is its execution key: the queue ignores one it has.
IsKnown(j) == \E i \in jobs : i.order = j.order /\ i.key = j.key

\* Mutant: the job is added without an id.
QueuedWithoutId(j) == jobs \cup {j}

Queued(j) == IF IsKnown(j) THEN jobs ELSE jobs \cup {j}

Enqueues(j) ==
  \/ jobs' = Queued(j) /\ UNCHANGED faults
  \/ jobs' \in {jobs, Queued(j)} /\ Fault("add")

\* Mutant: the engine counts what it dispatched as filled.
DispatchedAhead(entry, j) == [entry EXCEPT !.filled = j.key, !.expected = j.key]

Dispatched(entry, j) == [entry EXCEPT !.state = "QUEUED", !.expected = j.key]

\* triggerExecution: the entry is QUEUED before the job is added, and stays
\* so if adding it fails.
Trigger(e, k, price) ==
  LET entry == book[e][k]
      j     == ExecuteFill(k, price, entry.filled)
  IN /\ book' = [book EXCEPT ![e][k] = Dispatched(entry, j)]
     /\ Enqueues(j)
     /\ UNCHANGED activations

\* The order is activated in memory, then in the table.
BeginActivation(e, k, price) ==
  /\ book' = [book EXCEPT ![e][k].isActivated = TRUE]
  /\ activations' = [activations EXCEPT ![e] = @ \cup
       {[order |-> k, price |-> price, result |-> "pending",
         ofEntry |-> TRUE, ofRow |-> TRUE]}]
  /\ UNCHANGED <<jobs, faults>>

IsExecuted(k, price, entry) ==
  \/ Type[k] = "MARKET"
  \/ Type[k] = "STOP" /\ Triggered(k, price)
  \/ /\ Type[k] = "LIMIT" \/ (Type[k] = "STOP_LIMIT" /\ entry.isActivated)
     /\ CanFill(k, price, entry.filled)

IsActivated(k, price, entry) ==
  Type[k] = "STOP_LIMIT" /\ ~entry.isActivated /\ Triggered(k, price)

EvaluateOrder(e, k, price) ==
  /\ process[e] # "down" /\ owned[e]
  /\ book[e][k] # Absent
  /\ book[e][k].state = "READY"
  /\ \/ IsExecuted(k, price, book[e][k]) /\ Trigger(e, k, price)
     \/ IsActivated(k, price, book[e][k]) /\ BeginActivation(e, k, price)
  /\ UNCHANGED <<database, messages, reads, scans, leases>>

Returns(e, a, result) ==
  activations' = [activations EXCEPT ![e] = (@ \ {a}) \cup {[a EXCEPT !.result = result]}]

\* The transaction of activateStopLimit.
ActivateStopLimit(e, a) ==
  LET done == [rows EXCEPT ![a.order].isActivated = TRUE]
  IN /\ a.result = "pending"
     /\ \/ /\ rows[a.order].status = "PENDING"
           /\ rows' = done
           /\ Returns(e, a, "activated")
           /\ UNCHANGED faults
        \/ /\ rows[a.order].status # "PENDING"
           /\ Returns(e, a, "failed")
           /\ UNCHANGED <<rows, faults>>
        \/ /\ rows[a.order].status = "PENDING"
           /\ rows' \in {rows, done}
           /\ Returns(e, a, "failed")
           /\ Fault("activate")
     /\ UNCHANGED <<isOpen, messages, reads, scans, book, leases, jobs>>

\* The engine goes on after it.  An activated row has nothing filled; it
\* becomes the entry's row, however old it is by now.  An entry that is no
\* longer in the book is dispatched all the same, except by an engine that
\* lost its lease.
ResumeActivation(e, a) ==
  LET k     == a.order
      entry == [book[e][k] EXCEPT !.filled = 0, !.isActivated = TRUE]
      j     == ExecuteFill(k, a.price, 0)
      rest  == activations[e] \ {a}
  IN /\ a.result # "pending"
     /\ \/ /\ a.result = "failed"
           /\ book' = IF a.ofRow THEN [book EXCEPT ![e][k].isActivated = FALSE] ELSE book
           /\ activations' = [activations EXCEPT ![e] = rest]
           /\ UNCHANGED <<jobs, faults>>
        \/ /\ a.result = "activated"
           /\ activations' = [activations EXCEPT ![e] =
                {IF b.order = k /\ a.ofEntry THEN [b EXCEPT !.ofRow = FALSE] ELSE b : b \in rest}]
           /\ \/ /\ owned[e] /\ CanFill(k, a.price, 0)
                 /\ book' = IF a.ofEntry THEN [book EXCEPT ![e][k] = Dispatched(entry, j)] ELSE book
                 /\ Enqueues(j)
              \/ /\ ~(owned[e] /\ CanFill(k, a.price, 0))
                 /\ book' = IF a.ofEntry THEN [book EXCEPT ![e][k] = entry] ELSE book
                 /\ UNCHANGED <<jobs, faults>>
     /\ UNCHANGED <<database, messages, reads, scans, leases>>

-----------------------------------------------------------------------------
(***************************************************************************)
(* The execution worker and the part of processFill that it meets.         *)
(***************************************************************************)

With(j, k) == (jobs \ {j}) \cup {k}

IsApplied(j) == \E i \in jobs : i.order = j.order /\ i.key = j.key /\ i.isApplied

Applies(j) ==
  /\ j.ofSession
  /\ rows[j.order].status \in Executable
  /\ rows[j.order].filled + j.quantity <= Requested[j.order]
  /\ ~IsApplied(j)

\* processFill throws: it would fill more than was asked for ...
Overfills(j) ==
  /\ j.ofSession
  /\ rows[j.order].status \in Executable
  /\ rows[j.order].filled + j.quantity > Requested[j.order]

\* ... or the database does not answer.
Fails(j) == (Overfills(j) /\ UNCHANGED faults) \/ Fault("job")

Filled(j) ==
  [rows EXCEPT ![j.order].filled = @ + j.quantity,
               ![j.order].status = IF rows[j.order].filled + j.quantity = Requested[j.order]
                                   THEN "FILLED" ELSE "PARTIALLY_FILLED"]

Attempted(j) == [j EXCEPT !.attempts = @ + 1, !.isDone = j.attempts + 1 >= Attempts]

ProcessJob(j) ==
  /\ ~j.isDone
  /\ \/ /\ Applies(j)
        /\ rows' = Filled(j)
        /\ events' = events \cup {[order |-> j.order, filled |-> j.key]}
        /\ \/ /\ jobs' = With(j, [j EXCEPT !.isDone = TRUE, !.isApplied = TRUE])
              /\ UNCHANGED faults
           \/ /\ jobs' = With(j, [Attempted(j) EXCEPT !.isApplied = TRUE])
              /\ Fault("job")
     \/ /\ ~Applies(j) /\ ~Overfills(j)
        /\ jobs' = With(j, [j EXCEPT !.isDone = TRUE])
        /\ UNCHANGED <<rows, events, faults>>
     \/ /\ Fails(j)
        /\ jobs' = With(j, Attempted(j))
        /\ UNCHANGED <<rows, events>>
  /\ UNCHANGED <<isOpen, routing, wire, memory, leases>>

-----------------------------------------------------------------------------
(***************************************************************************)
(* Processes and the lease.                                                *)
(***************************************************************************)

\* Without the lease the process exits and is started again.
Start(e) ==
  /\ process[e] = "down" /\ lease = Absent
  /\ process' = [process EXCEPT ![e] = "boot"]
  /\ owned' = [owned EXCEPT ![e] = TRUE]
  /\ lease' = e
  /\ UNCHANGED <<database, messages, memory, jobs, faults>>

\* The process dies: its memory and its subscriptions are gone, its lease
\* lives until it expires.
Crash(e) ==
  /\ process[e] # "down" /\ Fault("engine")
  /\ process' = [process EXCEPT ![e] = "down"]
  /\ owned' = [owned EXCEPT ![e] = FALSE]
  /\ wire' = [wire EXCEPT ![e] = {}]
  /\ reads' = [reads EXCEPT ![e] = {}]
  /\ scans' = [scans EXCEPT ![e] = Absent]
  /\ book' = [book EXCEPT ![e] = [k \in Orders |-> Absent]]
  /\ activations' = [activations EXCEPT ![e] = {}]
  /\ UNCHANGED <<database, events, routing, lease, jobs>>

\* 15 seconds without a heartbeat: of a process that is gone, or of one
\* whose heartbeats failed.
LeaseExpires ==
  /\ lease # Absent
  /\ \/ process[lease] = "down" /\ UNCHANGED faults
     \/ process[lease] # "down" /\ Fault("lease")
  /\ lease' = Absent
  /\ UNCHANGED <<database, messages, memory, process, owned, jobs>>

\* The heartbeat finds another token, or none: handleLeaseLoss.
LoseLease(e) ==
  /\ process[e] = "up" /\ owned[e] /\ lease # e
  /\ owned' = [owned EXCEPT ![e] = FALSE]
  /\ book' = [book EXCEPT ![e] = [k \in Orders |-> Absent]]
  /\ activations' = [activations EXCEPT ![e] = ActivationsAfterRemove(e, Orders)]
  /\ UNCHANGED <<database, messages, reads, scans, process, lease, jobs, faults>>

-----------------------------------------------------------------------------
Dispatch(m) == MarkPending(m) \/ RouteAccepted(m) \/ RouteFill(m)

Resume(e) ==
  \/ ReadRoute(e)
  \/ \E r \in reads[e] : UseRoute(e, r)
  \/ \E a \in activations[e] : ActivateStopLimit(e, a) \/ ResumeActivation(e, a)

Maintain(e) == Scan(e) \/ Hydrate(e) \/ Reconcile(e)

Next ==
  \/ CloseSession
  \/ \E k \in Orders : EndOrder(k)
  \/ \E m \in events : Dispatch(m)
  \/ \E e \in Engines :
       \/ LoseRoute(e) \/ Resume(e) \/ Maintain(e)
       \/ \E k \in Orders, price \in Prices : EvaluateOrder(e, k, price)
       \/ Start(e) \/ Crash(e) \/ LoseLease(e)
  \/ \E j \in jobs : ProcessJob(j)
  \/ LeaseExpires

Spec == Init /\ [][Next]_vars

\* Everything that waits in a queue or for an answer is handled, timers
\* fire, processes are started again, and every price is quoted again and
\* again.
FairSpec ==
  /\ Spec
  /\ WF_vars(\E m \in events : Dispatch(m))
  /\ WF_vars(\E j \in jobs : ProcessJob(j))
  /\ WF_vars(LeaseExpires)
  /\ \A e \in Engines :
       /\ WF_vars(Resume(e)) /\ WF_vars(Maintain(e))
       /\ WF_vars(Start(e)) /\ WF_vars(LoseLease(e))
       /\ \A k \in Orders, price \in Prices : WF_vars(EvaluateOrder(e, k, price))

-----------------------------------------------------------------------------
(***************************************************************************)
(* Properties.                                                             *)
(***************************************************************************)

\* Every table, message, book and queue holds values of its kind.
TypeOK ==
  /\ rows \in [Orders -> Row] /\ isOpen \in BOOLEAN
  /\ events \subseteq Message /\ routing \subseteq Orders
  /\ wire \in [Engines -> SUBSET Message]
  /\ reads \in [Engines -> SUBSET Read]
  /\ scans \in [Engines -> [Orders -> Row] \cup {Absent}]
  /\ book \in [Engines -> [Orders -> Entry \cup {Absent}]]
  /\ activations \in [Engines -> SUBSET Activation]
  /\ process \in [Engines -> {"down", "boot", "up"}]
  /\ owned \in [Engines -> BOOLEAN]
  /\ lease \in Engines \cup {Absent}
  /\ jobs \subseteq Job
  /\ faults \in 0 .. MaxFaults

Units(j) == (j.key - j.quantity) + 1 .. j.key

\* Whatever engines read late, forget, or do at the same time after a lease
\* ran out, no unit of an order is dispatched by two jobs.
UnitsDispatchedOnce ==
  \A i, j \in jobs : i # j /\ i.order = j.order => Units(i) \cap Units(j) = {}

\* An engine dispatches the next level of an order only when the table has
\* seen the levels before: every job starts at or below what is filled.
NeverAheadOfTheTable ==
  \A j \in jobs : j.key - j.quantity <= rows[j.order].filled

\* No order is executed beyond its limit, the slippage of its level included.
PriceWithinLimit ==
  \A j \in jobs : Type[j.order] \in {"LIMIT", "STOP_LIMIT"} =>
    IF Side[j.order] = "BUY" THEN j.price <= LimitPrice[j.order]
                             ELSE j.price >= LimitPrice[j.order]

\* An engine that noticed the loss of its lease has no orders, whatever
\* answers were still under way.
LostLeaseEmptiesTheBook ==
  \A e \in Engines : ~owned[e] => \A k \in Orders : book[e][k] = Absent

\* Every order that waits for its execution has a job in the queue: none got
\* lost between the engine and the queue.
EveryWaitIsForAJob ==
  \A e \in Engines, k \in Orders :
    book[e][k] # Absent /\ book[e][k].state = "QUEUED" =>
      \E j \in jobs : j.order = k /\ j.key = book[e][k].expected

\* What engines do not recover from by themselves: a session that closes, a
\* job that was not added, a lease that was lost.
Healthy ==
  /\ isOpen /\ EveryWaitIsForAJob
  /\ \A e \in Engines : process[e] # "down" => owned[e]

\* No order is lost: whatever routes, events, jobs and engines die on the way,
\* it is filled or withdrawn in the end.
EveryOrderEnds ==
  []Healthy => \A k \in Orders : <>(rows[k].status \in Ended)

\* An order that has ended leaves the books of all engines for good.
GhostsLeave ==
  \A e \in Engines, k \in Orders :
    rows[k].status \in Ended ~> [](book[e][k] = Absent)
=============================================================================
