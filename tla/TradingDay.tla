----------------------------- MODULE TradingDay -----------------------------
(***************************************************************************)
(* The session of a day and what happens when it closes: worker processes  *)
(* look at the clock once a second, one of them takes the lease of the     *)
(* day, expires the orders that are still live and takes a snapshot of     *)
(* every portfolio, page by page.  Orders are placed and reach PENDING     *)
(* meanwhile, each after a look at the session that may be outdated when   *)
(* it writes.                                                              *)
(*                                                                         *)
(* The clock shows few times of day; CloseAt is the one second in which    *)
(* the sweep may begin.  What an expiry does to the money of an order is   *)
(* in the module Orders, the value of a snapshot in Valuation.             *)
(***************************************************************************)
EXTENDS Integers, FiniteSets

CONSTANTS
  DayLength, OpenAt, CloseAt,  \* the times of a day, 09:15:00 and 15:30:00
  LastTime,                    \* bound: where the clock stops
  LeaseTime,                   \* EX 60
  SweepWorkers,                \* the worker processes
  DayOrders, Accounts,         \* orders; ids of portfolios, in their order
  PageSize,                    \* batchSize
  MaxMishaps                   \* bound: failed statements and crashes

ASSUME DayAssumption ==
  /\ DayLength \in Nat /\ OpenAt \in 1 .. DayLength - 1
  /\ CloseAt \in OpenAt + 1 .. DayLength - 1
  /\ LastTime \in Nat /\ LeaseTime \in Nat \ {0}
  /\ Accounts \subseteq Nat /\ PageSize \in Nat \ {0} /\ MaxMishaps \in Nat

VARIABLES
  now,        \* the clock: days * DayLength + time of day
  stage,      \* what has become of each order; "checked": placeOrder saw the
              \* session open and has not inserted the order yet
  marking,    \* orders markOrderPending has locked and not yet updated
  leases,     \* Redis: key of a lease and the time it expires
  sweeps,     \* what each worker is doing
  accounts,   \* table portfolios
  snapshots,  \* table portfolio_snapshots
  announced,  \* the last SESSION_STATUS sent to everyone
  night,      \* history: the night after a sweep has expired its orders; a
              \* sweep that comes after the next opening is not part of it
  mishaps

dayVars == <<now, stage, marking, leases, sweeps, accounts, snapshots, announced,
             night, mishaps>>

TimeOfDay == now % DayLength
Day == now \div DayLength
IsOpen == OpenAt <= TimeOfDay /\ TimeOfDay < CloseAt

LiveStages == {"ACCEPTED", "PENDING", "PARTIALLY_FILLED"}
LiveOrders == {k \in DayOrders : stage[k] \in LiveStages}

AtRest == [step |-> "rest", day |-> 0, todo |-> {}, skip |-> 0, due |-> {}]

DayInit ==
  /\ now = 0 /\ stage = [k \in DayOrders |-> "none"] /\ marking = {} /\ leases = {}
  /\ sweeps = [w \in SweepWorkers |-> AtRest]
  /\ accounts = {} /\ snapshots = {} /\ announced = "none"
  /\ night = [swept |-> FALSE, late |-> {}, failed |-> {}, complete |-> {}]
  /\ mishaps = 0

\* A sweep tells of the night that has passed when the next session opens.
Passes ==
  /\ now < LastTime
  /\ now' = now + 1
  /\ leases' = {l \in leases : l.expires > now'}
  /\ night' = IF TimeOfDay' = OpenAt THEN [night EXCEPT !.swept = FALSE] ELSE night
  /\ UNCHANGED <<stage, marking, sweeps, accounts, snapshots, announced, mishaps>>

-----------------------------------------------------------------------------
\* Orders on their way.

\* placeOrder looks at the session before its transaction.
AssertOpen(k) ==
  /\ stage[k] = "none" /\ IsOpen
  /\ stage' = [stage EXCEPT ![k] = "checked"]
  /\ UNCHANGED <<now, marking, leases, sweeps, accounts, snapshots, announced, night, mishaps>>

Insert(k) ==
  /\ stage[k] = "checked"
  /\ stage' = [stage EXCEPT ![k] = "ACCEPTED"]
  /\ night' = [night EXCEPT !.late = @ \cup {k}]
  /\ UNCHANGED <<now, marking, leases, sweeps, accounts, snapshots, announced, mishaps>>

\* markOrderPending: an order whose event comes after the close is expired;
\* otherwise the row is locked and the session looked at once more.
MarkPending(k) ==
  /\ stage[k] = "ACCEPTED" /\ k \notin marking
  /\ IF IsOpen
     THEN marking' = marking \cup {k} /\ stage' = stage
     ELSE stage' = [stage EXCEPT ![k] = "EXPIRED"] /\ marking' = marking
  /\ UNCHANGED <<now, leases, sweeps, accounts, snapshots, announced, night, mishaps>>

CommitPending(k) ==
  /\ k \in marking
  /\ marking' = marking \ {k}
  /\ stage' = [stage EXCEPT ![k] = "PENDING"]
  /\ UNCHANGED <<now, leases, sweeps, accounts, snapshots, announced, night, mishaps>>

\* A fill in part or in full; jobs the engine queued may run after the close.
FillOrder(k) ==
  /\ stage[k] \in {"PENDING", "PARTIALLY_FILLED"}
  /\ \E s \in {"PARTIALLY_FILLED", "FILLED"} : stage' = [stage EXCEPT ![k] = s]
  /\ UNCHANGED <<now, marking, leases, sweeps, accounts, snapshots, announced, night, mishaps>>

OpenAccount(p) ==
  /\ p \notin accounts
  /\ accounts' = accounts \cup {p}
  /\ UNCHANGED <<now, stage, marking, leases, sweeps, snapshots, announced, night, mishaps>>

-----------------------------------------------------------------------------
\* The watcher of one worker process.

Acquire(key) ==
  /\ \A l \in leases : l.key # key
  /\ leases' = leases \cup {[key |-> key, expires |-> now + LeaseTime]}

\* tick: the second of the opening is announced, and nothing else happens.
AnnounceOpen(w) ==
  /\ TimeOfDay = OpenAt /\ Acquire(<<"bod", Day>>)
  /\ announced' = "OPEN"
  /\ UNCHANGED <<now, stage, marking, sweeps, accounts, snapshots, night, mishaps>>

\* tick: in the second of the close one worker begins the sweep of the day.
BeginSweep(w) ==
  /\ TimeOfDay = CloseAt /\ sweeps[w].step = "rest" /\ Acquire(<<"eod", Day>>)
  /\ sweeps' = [sweeps EXCEPT ![w] = [AtRest EXCEPT !.step = "read", !.day = Day]]
  /\ UNCHANGED <<now, stage, marking, accounts, snapshots, announced, night, mishaps>>

\* Mutant: an order no engine knows of yet is not looked for.
ReadStatusesNoAccepted == {"PENDING", "PARTIALLY_FILLED"}

ReadStatuses == LiveStages

\* The session after the day of the sweep has not opened yet.
SameNight(w) == now < (sweeps[w].day + 1) * DayLength + OpenAt

\* executeSweep reads the live orders once.  A failed read ends the sweep and
\* not the snapshots.
ReadOrders(w) ==
  /\ sweeps[w].step = "read"
  /\ \/ /\ sweeps' = [sweeps EXCEPT ![w].step = "expire",
                                    ![w].todo = {k \in DayOrders : stage[k] \in ReadStatuses}]
        /\ night' = IF SameNight(w) THEN [night EXCEPT !.late = {}, !.failed = {}] ELSE night
        /\ UNCHANGED mishaps
     \/ /\ mishaps < MaxMishaps /\ mishaps' = mishaps + 1
        /\ sweeps' = [sweeps EXCEPT ![w].step = "page"]
        /\ UNCHANGED night
  /\ UNCHANGED <<now, stage, marking, leases, accounts, snapshots, announced>>

\* expireOrder waits for the lock of the row, and fails for an order that has
\* ended; any failure is logged and the sweep goes on.
ExpireOrder(w, k) ==
  /\ sweeps[w].step = "expire" /\ k \in sweeps[w].todo \ marking
  /\ sweeps' = [sweeps EXCEPT ![w].todo = @ \ {k}]
  /\ \/ /\ stage' = IF k \in LiveOrders THEN [stage EXCEPT ![k] = "EXPIRED"] ELSE stage
        /\ UNCHANGED <<night, mishaps>>
     \/ /\ mishaps < MaxMishaps /\ mishaps' = mishaps + 1
        /\ night' = [night EXCEPT !.failed = @ \cup {k}]
        /\ UNCHANGED stage
  /\ UNCHANGED <<now, marking, leases, accounts, snapshots, announced>>

EndExpiry(w) ==
  /\ sweeps[w].step = "expire" /\ sweeps[w].todo = {}
  /\ sweeps' = [sweeps EXCEPT ![w].step = "page", ![w].due = accounts]
  /\ night' = [night EXCEPT !.swept = @ \/ SameNight(w)]
  /\ UNCHANGED <<now, stage, marking, leases, accounts, snapshots, announced, mishaps>>

\* findMany ordered by id, with take and skip.
Page(skip) ==
  {p \in accounts : Cardinality({q \in accounts : q < p}) \in skip .. skip + PageSize - 1}

\* snapshotPortfolios reads a page; after an empty one the close is announced.
ReadPage(w) ==
  /\ sweeps[w].step = "page" /\ sweeps[w].todo = {}
  /\ LET page == Page(sweeps[w].skip) IN
     IF page # {}
     THEN /\ sweeps' = [sweeps EXCEPT ![w].todo = page, ![w].skip = @ + PageSize]
          /\ UNCHANGED <<announced, night>>
     ELSE /\ sweeps' = [sweeps EXCEPT ![w] = AtRest]
          /\ announced' = "CLOSED"
          /\ night' = [night EXCEPT !.complete = @ \cup (sweeps[w].due \X {sweeps[w].day})]
  /\ UNCHANGED <<now, stage, marking, leases, accounts, snapshots, mishaps>>

\* One portfolio: skipped when it has the snapshot of the day, valued and
\* captured otherwise; a failure is counted and the next one taken.
Capture(w) ==
  /\ sweeps[w].step = "page" /\ sweeps[w].todo # {}
  /\ LET p == CHOOSE q \in sweeps[w].todo : \A r \in sweeps[w].todo : q <= r IN
     \/ /\ sweeps' = [sweeps EXCEPT ![w].todo = @ \ {p}]
        /\ snapshots' = snapshots \cup {<<p, sweeps[w].day>>}
        /\ UNCHANGED mishaps
     \/ /\ mishaps < MaxMishaps /\ mishaps' = mishaps + 1
        /\ sweeps' = [sweeps EXCEPT ![w].todo = @ \ {p}, ![w].due = @ \ {p}]
        /\ UNCHANGED snapshots
  /\ UNCHANGED <<now, stage, marking, leases, accounts, announced, night>>

\* The process ends: it crashes, or a page cannot be read, which nobody
\* catches.  The next one begins no sweep before the next close.
WorkerCrash(w) ==
  /\ sweeps[w].step # "rest" /\ mishaps < MaxMishaps
  /\ mishaps' = mishaps + 1
  /\ sweeps' = [sweeps EXCEPT ![w] = AtRest]
  /\ UNCHANGED <<now, stage, marking, leases, accounts, snapshots, announced, night>>

DayNext ==
  \/ Passes
  \/ \E k \in DayOrders :
       AssertOpen(k) \/ Insert(k) \/ MarkPending(k) \/ CommitPending(k) \/ FillOrder(k)
  \/ \E p \in Accounts : OpenAccount(p)
  \/ \E w \in SweepWorkers :
       \/ AnnounceOpen(w) \/ BeginSweep(w) \/ ReadOrders(w) \/ EndExpiry(w)
       \/ ReadPage(w) \/ Capture(w) \/ WorkerCrash(w)
       \/ \E k \in DayOrders : ExpireOrder(w, k)

DaySpec == DayInit /\ [][DayNext]_dayVars

-----------------------------------------------------------------------------
DayTypeOK ==
  /\ now \in 0 .. LastTime
  /\ stage \in [DayOrders -> LiveStages \cup {"none", "checked", "FILLED", "EXPIRED"}]
  /\ marking \subseteq DayOrders /\ accounts \subseteq Accounts
  /\ \A l \in leases : l.key \in {"bod", "eod"} \X Nat /\ l.expires \in Nat
  /\ sweeps \in [SweepWorkers -> [step : {"rest", "read", "expire", "page"}, day : Nat,
                                  todo : SUBSET (DayOrders \cup Accounts), skip : Nat,
                                  due : SUBSET Accounts]]
  /\ snapshots \subseteq Accounts \X Nat
  /\ announced \in {"none", "OPEN", "CLOSED"} /\ mishaps \in 0 .. MaxMishaps
  /\ night \in [swept : BOOLEAN, late : SUBSET DayOrders, failed : SUBSET DayOrders,
                complete : SUBSET (Accounts \X Nat)]

\* In the night after a sweep an order is live only if it was inserted after
\* the sweep had read the table, or its own expiry failed: a session that
\* closes between two looks at it leaves no other order behind.
NightOrdersExplained == night.swept => LiveOrders \subseteq night.late \cup night.failed

\* Once a sweep has gone through all pages, every portfolio that existed when
\* it began them and did not fail has its snapshot, whatever portfolios were
\* created between two pages.
SnapshotsComplete == night.complete \subseteq snapshots

\* Both halves of the close of a day (EodSweepService.executeSweep and
\* snapshotPortfolios).
SweepComplete == NightOrdersExplained /\ SnapshotsComplete
=============================================================================
