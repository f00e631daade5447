---------------------------- MODULE EngineProofs ----------------------------
(***************************************************************************)
(* Theorems about the engine: types, no unit dispatched twice, no level    *)
(* before its predecessor is in the table, limits, books that are empty    *)
(* after the lease is lost, and a table that keeps the contract of         *)
(* OrderLifecycle, for any number of engines and orders, any depth and any *)
(* faults.                                                                 *)
(***************************************************************************)
EXTENDS Engine, TLAPS

(***************************************************************************)
(* Levels.  Orders are filled one depth after the other, so every filled   *)
(* quantity that ever was in a row is a multiple of the depth, or all.     *)
(***************************************************************************)

AtLevel(k, n) ==
  n \in 0 .. Requested[k] /\ (n = Requested[k] \/ \E c \in Nat : n = c * Depth)

LEMMA Monotone ==
  ASSUME NEW q \in Nat, NEW a \in Nat, NEW b \in Nat, a <= b
  PROVE  a * q <= b * q
OBVIOUS

LEMMA LevelZero == ASSUME NEW k \in Orders PROVE AtLevel(k, 0) /\ 0 < Requested[k]
<1>1. Requested[k] \in Nat \ {0} /\ Depth \in Nat
  BY OrdersAssumption, MarketAssumption
<1>2. 0 = 0 * Depth
  BY <1>1
<1>3. QED
  BY <1>1, <1>2 DEF AtLevel

LEMMA NextLevel ==
  ASSUME NEW k \in Orders, NEW n, AtLevel(k, n), n < Requested[k]
  PROVE  /\ n \in Nat /\ ExecutableQty(k, n) \in Nat \ {0}
         /\ AtLevel(k, n + ExecutableQty(k, n))
<1>1. Requested[k] \in Nat \ {0} /\ Depth \in Nat \ {0} /\ n \in 0 .. Requested[k]
  BY OrdersAssumption, MarketAssumption DEF AtLevel
<1>2. PICK c \in Nat : n = c * Depth
  BY <1>1 DEF AtLevel
<1>3. (c + 1) * Depth = n + Depth /\ c + 1 \in Nat
  BY <1>1, <1>2
<1>4. PICK q \in Nat : q = ExecutableQty(k, n) /\ q # 0
                       /\ (n + q = Requested[k] \/ (q = Depth /\ n + q < Requested[k]))
  BY <1>1 DEF ExecutableQty
<1>5. AtLevel(k, n + q)
  <2>1. n + q \in 0 .. Requested[k]
    BY <1>1, <1>4
  <2>2. n + q = Requested[k] \/ \E d \in Nat : n + q = d * Depth
    <3>1. n + q = Requested[k] \/ n + q = (c + 1) * Depth
      BY <1>3, <1>4
    <3>2. QED
      BY <1>3, <3>1
  <2>3. QED
    BY <2>1, <2>2 DEF AtLevel
<1>6. QED
  BY <1>1, <1>4, <1>5

LEMMA LevelsApart ==
  ASSUME NEW k \in Orders, NEW a, NEW b, AtLevel(k, a), AtLevel(k, b), a < b
  PROVE  a + ExecutableQty(k, a) <= b
<1>1. Requested[k] \in Nat \ {0} /\ Depth \in Nat \ {0} /\ a \in 0 .. Requested[k] /\ b \in 0 .. Requested[k]
  BY OrdersAssumption, MarketAssumption DEF AtLevel
<1>2. PICK c \in Nat : a = c * Depth
  BY <1>1 DEF AtLevel
<1>3. /\ ExecutableQty(k, a) <= Depth /\ a + ExecutableQty(k, a) <= Requested[k]
      /\ ExecutableQty(k, a) \in Nat
  BY <1>1 DEF ExecutableQty
<1>4. CASE b = Requested[k]
  BY <1>3, <1>4
<1>5. ASSUME NEW d \in Nat, b = d * Depth PROVE a + Depth <= b
  <2>1. c < d
    <3>1. CASE d <= c
      <4>1. d * Depth <= c * Depth
        BY <1>1, <3>1, Monotone
      <4>2. QED
        BY <1>1, <1>2, <1>5, <4>1
    <3>2. QED
      BY <3>1
  <2>2. (c + 1) * Depth <= d * Depth
    BY <1>1, <2>1, Monotone
  <2>3. (c + 1) * Depth = c * Depth + Depth
    BY <1>1
  <2>4. QED
    BY <1>1, <1>2, <1>5, <2>2, <2>3
<1>6. b = Requested[k] \/ \E d \in Nat : b = d * Depth
  BY DEF AtLevel
<1>7. CASE \E d \in Nat : b = d * Depth
  <2>1. PICK d \in Nat : b = d * Depth
    BY <1>7
  <2>2. a + Depth <= b
    BY <1>5, <2>1
  <2>3. QED
    BY <1>1, <1>3, <2>2
<1>8. QED
  BY <1>4, <1>6, <1>7

-----------------------------------------------------------------------------
(***************************************************************************)
(* The inductive invariant.  What engines read, however late they use it,  *)
(* and what they keep is a level the table has reached; what they dispatch *)
(* starts at such a level; and the jobs of all lower levels are applied,   *)
(* so that a job that starts at one of them is never applied again.        *)
(***************************************************************************)

Behind(table, k, n) == AtLevel(k, n) /\ n <= table[k].filled

RowsAtLevels == \A k \in Orders : AtLevel(k, rows[k].filled)

AnswersBehind ==
  \A e \in Engines :
    /\ \A r \in reads[e] : Behind(rows, r.message.order, r.row.filled)
    /\ scans[e] # Absent => \A k \in Orders : Behind(rows, k, scans[e][k].filled)

Dispatchable(table, k, n) == Behind(table, k, n) /\ n < Requested[k]

EntriesBehind ==
  \A e \in Engines, k \in Orders :
    book[e][k] # Absent => Dispatchable(rows, k, book[e][k].filled)

ObjectsKept ==
  \A e \in Engines : \A a \in activations[e] :
    a.ofEntry \/ a.ofRow => book[e][a.order] # Absent

InLimit(j) ==
  Type[j.order] \in {"LIMIT", "STOP_LIMIT"} =>
    IF Side[j.order] = "BUY" THEN j.price <= LimitPrice[j.order]
                             ELSE j.price >= LimitPrice[j.order]

JobSound(table, j) ==
  /\ Dispatchable(table, j.order, j.key - j.quantity)
  /\ j.quantity = ExecutableQty(j.order, j.key - j.quantity)
  /\ InLimit(j)

JobsSound ==
  /\ \A j \in jobs : JobSound(rows, j)
  /\ \A i, j \in jobs : i.order = j.order /\ i.key = j.key => i = j

LevelsApplied ==
  \A k \in Orders, n \in Nat :
    AtLevel(k, n) /\ n < rows[k].filled =>
      \E j \in jobs : j.order = k /\ j.key = n + ExecutableQty(k, n) /\ j.isApplied

EngineInv ==
  /\ TypeOK /\ RowsAtLevels /\ AnswersBehind /\ EntriesBehind /\ ObjectsKept
  /\ LostLeaseEmptiesTheBook /\ JobsSound /\ LevelsApplied

LEMMA EngineInvInit == Init => EngineInv
<1> SUFFICES ASSUME Init PROVE EngineInv
  OBVIOUS
<1> USE DEF Init
<1>1. TypeOK
  BY BoundAssumption DEF TypeOK, Row, Message, Executable, Ended
<1>2. \A k \in Orders : rows[k].filled = 0 /\ AtLevel(k, 0)
  BY LevelZero
<1>3. RowsAtLevels /\ LevelsApplied
  BY <1>2, OrdersAssumption DEF RowsAtLevels, LevelsApplied, AtLevel
<1>4. AnswersBehind /\ EntriesBehind /\ ObjectsKept /\ LostLeaseEmptiesTheBook /\ JobsSound
  BY DEF AnswersBehind, EntriesBehind, ObjectsKept, LostLeaseEmptiesTheBook, JobsSound
<1>5. QED
  BY <1>1, <1>3, <1>4 DEF EngineInv

-----------------------------------------------------------------------------
(***************************************************************************)
(* What the operators give.                                                *)
(***************************************************************************)

\* A fault is counted.
LEMMA FaultCounted ==
  ASSUME faults \in 0 .. MaxFaults, NEW kind, Fault(kind) \/ UNCHANGED faults
  PROVE  faults' \in 0 .. MaxFaults
BY BoundAssumption DEF Fault

\* A job that is dispatched at a level the table has reached is sound, when
\* its price is within the limit.
LEMMA DispatchIsSound ==
  ASSUME TypeOK, NEW k \in Orders, NEW price \in Prices, NEW n, Dispatchable(rows, k, n),
         Type[k] \in {"LIMIT", "STOP_LIMIT"} => CanFill(k, price, n)
  PROVE  /\ ExecuteFill(k, price, n) \in Job /\ JobSound(rows, ExecuteFill(k, price, n))
         /\ ExecuteFill(k, price, n).order = k
<1> DEFINE q == ExecutableQty(k, n)
<1>1. n \in Nat /\ q \in Nat \ {0}
  BY NextLevel DEF Dispatchable, Behind
<1>2. ExecutablePrice(k, price, n) \in Int
  <2>1. n \div Depth \in Int
    BY <1>1, MarketAssumption
  <2>2. Slippage * (n \div Depth) \in Int
    BY <2>1, MarketAssumption
  <2>3. QED
    BY <2>2, MarketAssumption DEF ExecutablePrice
<1>3. n + q \in Nat /\ n + q - q = n
  BY <1>1
<1> DEFINE j == ExecuteFill(k, price, n)
<1>4. /\ j.order = k /\ j.key = n + q /\ j.quantity = q /\ j.price = ExecutablePrice(k, price, n)
      /\ j \in Job
  BY <1>1, <1>2, <1>3 DEF ExecuteFill, Job, TypeOK
<1>5. InLimit(j)
  <2> HIDE DEF j
  <2>1. LimitPrice[k] \in Int
    BY OrdersAssumption
  <2>2. QED
    BY <1>2, <1>4, <2>1 DEF InLimit, CanFill
<1>6. JobSound(rows, j)
  <2> HIDE DEF j, q
  <2>1. j.key - j.quantity = n
    BY <1>1, <1>3, <1>4
  <2>2. q = ExecutableQty(k, n)
    BY DEF q
  <2>3. QED
    BY <1>4, <1>5, <2>1, <2>2 DEF JobSound
<1>7. QED
  BY <1>4, <1>6

\* The queue gets the job or has one under its key.
LEMMA EnqueueFacts ==
  ASSUME NEW j, Enqueues(j)
  PROVE  /\ jobs' = jobs \/ (jobs' = jobs \cup {j} /\ ~IsKnown(j))
         /\ \E kind \in FaultKinds : Fault(kind) \/ UNCHANGED faults
BY DEF Enqueues, Queued, FaultKinds

\* A row an engine takes is dispatchable at what it has filled.
LEMMA AddedIsDispatchable ==
  ASSUME TypeOK, EntriesBehind, NEW e \in Engines, NEW k \in Orders, NEW row \in Row,
         Behind(rows, k, row.filled), IsCandidate(k, row)
  PROVE  /\ EntryAfterAdd(e, k, row) \in Entry /\ EntryAfterAdd(e, k, row) # Absent
         /\ Dispatchable(rows, k, EntryAfterAdd(e, k, row).filled)
         /\ Fresh(row) \in Entry /\ Fresh(row) # Absent /\ Dispatchable(rows, k, Fresh(row).filled)
<1>1. /\ Fresh(row) \in Entry /\ Fresh(row).filled = row.filled
      /\ row.filled < Requested[k]
  BY DEF Row, Fresh, Entry, IsCandidate
<1>2. Dispatchable(rows, k, Fresh(row).filled)
  BY <1>1 DEF Dispatchable
<1> DEFINE old == book[e][k]
<1>3. CASE old # Absent /\ old.state = "QUEUED" /\ CaughtUp(old, row)
  <2>1. EntryAfterAdd(e, k, row) = [Fresh(row) EXCEPT !.expected = old.expected]
    BY <1>3 DEF EntryAfterAdd
  <2>2. old \in Entry
    BY <1>3 DEF TypeOK
  <2>3. old.expected \in Nat
    BY <2>2 DEF Entry
  <2>4. /\ [Fresh(row) EXCEPT !.expected = old.expected] \in Entry
        /\ [Fresh(row) EXCEPT !.expected = old.expected].filled = row.filled
    BY <1>1, <2>3 DEF Entry
  <2>5. QED
    BY <1>1, <1>2, <2>1, <2>4, AbsentAssumption
<1>4. CASE old # Absent /\ old.state = "QUEUED" /\ ~CaughtUp(old, row)
  <2>1. EntryAfterAdd(e, k, row) = old
    BY <1>4 DEF EntryAfterAdd
  <2>2. old \in Entry /\ Dispatchable(rows, k, old.filled)
    BY <1>4 DEF TypeOK, EntriesBehind
  <2>3. QED
    BY <1>1, <1>2, <2>1, <2>2, AbsentAssumption
<1>5. CASE ~(old # Absent /\ old.state = "QUEUED")
  <2>1. EntryAfterAdd(e, k, row) = Fresh(row)
    BY <1>5 DEF EntryAfterAdd
  <2>2. QED
    BY <1>1, <1>2, <2>1, AbsentAssumption
<1>6. QED
  BY <1>3, <1>4, <1>5

\* Activations keep their types, and refer to nothing but what they referred
\* to before, or to what was added.
LEMMA AfterAdd ==
  ASSUME TypeOK, NEW e \in Engines, NEW added, NEW row
  PROVE  /\ ActivationsAfterAdd(e, added, row) \subseteq Activation
         /\ \A b \in ActivationsAfterAdd(e, added, row) :
              b.ofEntry \/ b.ofRow =>
                \/ b.order \in added
                \/ \E a \in activations[e] : a.order = b.order /\ (a.ofEntry \/ a.ofRow)
<1> SUFFICES ASSUME NEW b \in ActivationsAfterAdd(e, added, row)
             PROVE  /\ b \in Activation
                    /\ b.ofEntry \/ b.ofRow =>
                        \/ b.order \in added
                        \/ \E a \in activations[e] : a.order = b.order /\ (a.ofEntry \/ a.ofRow)
  BY SMTT(40)
<1> DEFINE isQueued(k) == book[e][k] # Absent /\ book[e][k].state = "QUEUED"
<1>1. PICK a \in activations[e] :
        \/ b = a
        \/ a.order \in added /\ b = [a EXCEPT !.ofRow = FALSE, !.ofEntry = a.ofEntry /\ isQueued(a.order)]
  BY DEF ActivationsAfterAdd
<1>2. a \in Activation
  BY DEF TypeOK
<1>3. CASE b = a
  BY <1>2, <1>3
<1>4. CASE a.order \in added /\ b = [a EXCEPT !.ofRow = FALSE, !.ofEntry = a.ofEntry /\ isQueued(a.order)]
  <2>1. PICK on \in BOOLEAN : on = (a.ofEntry /\ isQueued(a.order))
    OBVIOUS
  <2>2. b = [a EXCEPT !.ofRow = FALSE, !.ofEntry = on]
    BY <1>4, <2>1
  <2>3. b \in Activation /\ b.order = a.order
    BY <1>2, <2>2 DEF Activation
  <2>4. QED
    BY <1>4, <2>3
<1>5. QED
  BY <1>1, <1>3, <1>4

LEMMA AfterRemove ==
  ASSUME TypeOK, NEW e \in Engines, NEW gone
  PROVE  /\ ActivationsAfterRemove(e, gone) \subseteq Activation
         /\ \A b \in ActivationsAfterRemove(e, gone) :
              b.ofEntry \/ b.ofRow =>
                /\ b.order \notin gone
                /\ \E a \in activations[e] : a.order = b.order /\ (a.ofEntry \/ a.ofRow)
<1> SUFFICES ASSUME NEW b \in ActivationsAfterRemove(e, gone)
             PROVE  /\ b \in Activation
                    /\ b.ofEntry \/ b.ofRow =>
                        /\ b.order \notin gone
                        /\ \E a \in activations[e] : a.order = b.order /\ (a.ofEntry \/ a.ofRow)
  OBVIOUS
<1>1. PICK a \in activations[e] :
        \/ b = a /\ a.order \notin gone
        \/ a.order \in gone /\ b = [a EXCEPT !.ofRow = FALSE, !.ofEntry = FALSE]
  BY DEF ActivationsAfterRemove
<1>2. a \in Activation
  BY DEF TypeOK
<1>3. CASE b = a /\ a.order \notin gone
  BY <1>2, <1>3
<1>4. CASE a.order \in gone /\ b = [a EXCEPT !.ofRow = FALSE, !.ofEntry = FALSE]
  <2>1. b \in Activation /\ ~b.ofEntry /\ ~b.ofRow
    BY <1>2, <1>4 DEF Activation
  <2>2. QED
    BY <2>1
<1>5. QED
  BY <1>1, <1>3, <1>4

-----------------------------------------------------------------------------
(***************************************************************************)
(* Jobs.                                                                   *)
(***************************************************************************)

\* What the table has reached it does not lose.
LEMMA ReachedStays ==
  ASSUME TypeOK, NEW k \in Orders, NEW n,
         rows[k].filled <= rows'[k].filled, rows'[k].filled \in Nat
  PROVE  /\ Behind(rows, k, n) => Behind(rows', k, n)
         /\ Dispatchable(rows, k, n) => Dispatchable(rows', k, n)
<1>1. rows[k].filled \in Nat
  BY DEF TypeOK, Row
<1>2. ASSUME Behind(rows, k, n) PROVE Behind(rows', k, n)
  <2>1. AtLevel(k, n) /\ n <= rows[k].filled /\ n \in Int
    BY <1>2 DEF Behind, AtLevel
  <2>2. n <= rows'[k].filled
    BY <1>1, <2>1
  <2>3. QED
    BY <2>1, <2>2 DEF Behind
<1>3. QED
  BY <1>2 DEF Dispatchable

LEMMA JobsGrow ==
  ASSUME EngineInv, NEW j \in Job, JobSound(rows, j),
         jobs' = jobs \/ (jobs' = jobs \cup {j} /\ ~IsKnown(j)),
         \A k \in Orders : rows'[k].filled = rows[k].filled
  PROVE  jobs' \subseteq Job /\ JobsSound' /\ LevelsApplied'
<1> USE DEF EngineInv
<1>1. jobs' \subseteq Job
  BY DEF TypeOK
<1>2. ASSUME NEW i \in jobs' PROVE JobSound(rows', i)
  <2>1. i \in Job /\ JobSound(rows, i)
    BY <1>1, <1>2 DEF JobsSound
  <2>2. i.order \in Orders /\ rows[i.order].filled \in Nat
    BY <2>1 DEF Job, TypeOK, Row
  <2>3. Dispatchable(rows', i.order, i.key - i.quantity)
    BY <2>1, <2>2, ReachedStays DEF JobSound
  <2>4. QED
    BY <2>1, <2>3 DEF JobSound, InLimit
<1>3. \A i, l \in jobs' : i.order = l.order /\ i.key = l.key => i = l
  BY DEF JobsSound, IsKnown
<1>4. LevelsApplied'
  BY DEF LevelsApplied
<1>5. QED
  BY <1>1, <1>2, <1>3, <1>4 DEF JobsSound

\* An attempt at a job: the job stays the same but for its counters, and if
\* it writes anything, the level the table was at becomes applied.
LEMMA AttemptFacts ==
  ASSUME TypeOK, NEW j \in jobs, ProcessJob(j)
  PROVE  /\ \E to \in Job :
              /\ jobs' = With(j, to)
              /\ to.order = j.order /\ to.key = j.key /\ to.quantity = j.quantity
              /\ to.price = j.price /\ (j.isApplied => to.isApplied)
              /\ \/ rows' = rows /\ events' = events
                 \/ /\ Applies(j) /\ rows' = Filled(j) /\ to.isApplied
                    /\ events' = events \cup {[order |-> j.order, filled |-> j.key]}
         /\ \E kind \in FaultKinds : Fault(kind) \/ UNCHANGED faults
<1>1. j \in Job
  BY DEF TypeOK
<1>2. PICK n \in Nat : n = j.attempts + 1
  BY <1>1 DEF Job
<1>0. PICK done \in BOOLEAN : done = (j.attempts + 1 >= Attempts)
  <2>1. CASE j.attempts + 1 >= Attempts
    BY <2>1
  <2>2. CASE ~(j.attempts + 1 >= Attempts)
    <3>1. FALSE = (j.attempts + 1 >= Attempts)
      BY <2>2
    <3>2. QED
      BY <3>1
  <2>3. QED
    BY <2>1, <2>2
<1>3. Attempted(j) = [j EXCEPT !.attempts = n, !.isDone = done]
  <2>1. Attempted(j) = [[j EXCEPT !.attempts = n] EXCEPT !.isDone = done]
    BY <1>0, <1>1, <1>2 DEF Attempted, Job
  <2>2. QED
    BY <2>1
<1> DEFINE Same(to) ==
        /\ to \in Job /\ to.order = j.order /\ to.key = j.key /\ to.quantity = j.quantity
        /\ to.price = j.price /\ (j.isApplied => to.isApplied)
<1>5. /\ Same([j EXCEPT !.isDone = TRUE, !.isApplied = TRUE])
      /\ [j EXCEPT !.isDone = TRUE, !.isApplied = TRUE].isApplied
  BY <1>1 DEF Job
<1>6. /\ Same([Attempted(j) EXCEPT !.isApplied = TRUE])
      /\ [Attempted(j) EXCEPT !.isApplied = TRUE].isApplied
  BY <1>1, <1>3 DEF Job
<1>7. Same([j EXCEPT !.isDone = TRUE]) /\ Same(Attempted(j))
  BY <1>1, <1>3 DEF Job
<1> HIDE DEF Same
<1>8. \E to :
        /\ Same(to) /\ jobs' = With(j, to)
        /\ \/ rows' = rows /\ events' = events
           \/ /\ Applies(j) /\ rows' = Filled(j) /\ to.isApplied
              /\ events' = events \cup {[order |-> j.order, filled |-> j.key]}
  BY <1>5, <1>6, <1>7 DEF ProcessJob
<1>9. \E kind \in FaultKinds : Fault(kind) \/ UNCHANGED faults
  BY DEF ProcessJob, Fails, FaultKinds
<1>10. QED
  BY <1>8, <1>9 DEF Same

\* A job is applied only at the level it starts at: a lower one is applied
\* already, by a job with its key.
LEMMA AppliedAtItsStart ==
  ASSUME EngineInv, NEW j \in jobs, Applies(j)
  PROVE  rows[j.order].filled = j.key - j.quantity
<1> USE DEF EngineInv
<1> DEFINE k == j.order
           n == j.key - j.quantity
<1>1. /\ k \in Orders /\ Dispatchable(rows, k, n) /\ j.quantity = ExecutableQty(k, n)
      /\ rows[k].filled \in Nat /\ j.key \in Nat /\ j.quantity \in Nat
  BY DEF JobsSound, JobSound, TypeOK, Job, Row
<1>2. AtLevel(k, n) /\ n <= rows[k].filled /\ n \in Nat
  BY <1>1 DEF Dispatchable, Behind, AtLevel
<1>3. CASE n < rows[k].filled
  <2>1. \E i \in jobs : i.order = k /\ i.key = n + ExecutableQty(k, n) /\ i.isApplied
    BY <1>1, <1>2, <1>3 DEF LevelsApplied
  <2>2. n + ExecutableQty(k, n) = j.key
    BY <1>1, <1>2
  <2>3. IsApplied(j)
    BY <2>1, <2>2 DEF IsApplied
  <2>4. QED
    BY <2>3 DEF Applies
<1>4. QED
  BY <1>1, <1>2, <1>3

\* A step of the execution worker keeps the invariant.
LEMMA JobStep ==
  ASSUME EngineInv, NEW j \in jobs, ProcessJob(j)
  PROVE  EngineInv'
<1> USE DEF EngineInv
<1>1. PICK to \in Job :
        /\ jobs' = With(j, to)
        /\ to.order = j.order /\ to.key = j.key /\ to.quantity = j.quantity
        /\ to.price = j.price /\ (j.isApplied => to.isApplied)
        /\ \/ rows' = rows /\ events' = events
           \/ /\ Applies(j) /\ rows' = Filled(j) /\ to.isApplied
              /\ events' = events \cup {[order |-> j.order, filled |-> j.key]}
  BY AttemptFacts
<1>2. faults' \in 0 .. MaxFaults
  BY AttemptFacts, FaultCounted DEF TypeOK
<1>3. UNCHANGED <<isOpen, routing, wire, reads, scans, book, activations, process, owned, lease>>
  BY DEF ProcessJob, memory, leases
<1> DEFINE k == j.order
           n == j.key - j.quantity
<1>4. /\ j \in Job /\ k \in Orders /\ Dispatchable(rows, k, n) /\ JobSound(rows, j)
      /\ j.quantity = ExecutableQty(k, n) /\ j.key \in Nat /\ j.quantity \in Nat
      /\ \A l \in Orders : rows[l] \in Row /\ rows[l].filled \in Nat
  BY DEF JobsSound, JobSound, TypeOK, Job, Row
<1>5. n \in Nat /\ AtLevel(k, n) /\ n < Requested[k] /\ n <= rows[k].filled
  BY <1>4 DEF Dispatchable, Behind, AtLevel
<1>6. j.key = n + ExecutableQty(k, n) /\ n < j.key /\ AtLevel(k, j.key)
  BY <1>4, <1>5, NextLevel
<1>7. /\ rows' \in [Orders -> Row]
      /\ \/ \A l \in Orders : rows'[l].filled = rows[l].filled
         \/ /\ \A l \in Orders \ {k} : rows'[l].filled = rows[l].filled
            /\ rows[k].filled = n /\ rows'[k].filled = j.key /\ to.isApplied
  <2>1. CASE rows' = rows
    BY <2>1 DEF TypeOK
  <2>2. CASE Applies(j) /\ rows' = Filled(j) /\ to.isApplied
    <3>1. rows[k].filled = n
      BY <2>2, AppliedAtItsStart
    <3>2. PICK status \in {"FILLED", "PARTIALLY_FILLED"} :
            status = IF rows[k].filled + j.quantity = Requested[k] THEN "FILLED" ELSE "PARTIALLY_FILLED"
      OBVIOUS
    <3>a. rows' = [rows EXCEPT ![k].filled = n + j.quantity, ![k].status = status]
      BY <2>2, <3>1, <3>2 DEF Filled
    <3>b. rows \in [Orders -> Row]
      BY DEF TypeOK
    <3>c. PICK r : r = [rows EXCEPT ![k].filled = n + j.quantity]
      OBVIOUS
    <3>d. rows' = [r EXCEPT ![k].status = status]
      BY <3>a, <3>c
    <3>3. /\ rows'[k] = [rows[k] EXCEPT !.filled = n + j.quantity, !.status = status]
          /\ \A l \in Orders \ {k} : rows'[l] = rows[l]
          /\ rows' = [rows EXCEPT ![k] = rows'[k]]
      BY <1>4, <3>b, <3>c, <3>d
    <3>4. n + j.quantity = j.key
      BY <1>4, <1>5, <1>6
    <3>5. rows'[k] \in Row /\ rows'[k].filled = j.key
      <4>1. PICK row : row = rows'[k]
        OBVIOUS
      <4>2. row = [rows[k] EXCEPT !.filled = j.key, !.status = status]
        BY <3>3, <3>4, <4>1
      <4>3. rows[k] \in Row /\ j.key \in Nat /\ status \in Executable \cup Ended
        BY <1>4 DEF Executable, Ended
      <4>4. row \in Row /\ row.filled = j.key
        BY <4>2, <4>3 DEF Row
      <4>5. QED
        BY <4>1, <4>4
    <3>6. rows' \in [Orders -> Row]
      BY <3>3, <3>5, <1>4 DEF TypeOK
    <3>7. QED
      BY <2>2, <3>1, <3>3, <3>5, <3>6
  <2>3. QED
    BY <1>1, <2>1, <2>2
<1>8. \A l \in Orders : /\ rows[l].filled <= rows'[l].filled /\ rows'[l].filled \in Nat
                        /\ AtLevel(l, rows'[l].filled)
  BY <1>4, <1>5, <1>6, <1>7 DEF RowsAtLevels
<1>9. RowsAtLevels'
  BY <1>8 DEF RowsAtLevels, AtLevel
<1>10. TypeOK'
  <2>1. events' \subseteq Message
    BY <1>1, <1>4 DEF TypeOK, Message
  <2>2. jobs' \subseteq Job
    BY <1>1 DEF With, TypeOK
  <2>3. QED
    BY <1>2, <1>3, <1>7, <2>1, <2>2 DEF TypeOK
<1>11. \A m : \A l \in Orders :
         /\ Behind(rows, l, m) => Behind(rows', l, m)
         /\ Dispatchable(rows, l, m) => Dispatchable(rows', l, m)
  BY <1>8, ReachedStays
<1>12. AnswersBehind' /\ EntriesBehind' /\ ObjectsKept' /\ LostLeaseEmptiesTheBook'
  <2>1. AnswersBehind'
    <3>1. ASSUME NEW e \in Engines, NEW r \in reads[e]
          PROVE  r.message.order \in Orders
      BY <3>1 DEF TypeOK, Read, Message
    <3>2. QED
      BY <1>3, <1>11, <3>1 DEF AnswersBehind
  <2>2. EntriesBehind'
    BY <1>3, <1>11 DEF EntriesBehind
  <2>3. QED
    BY <1>3, <2>1, <2>2 DEF ObjectsKept, LostLeaseEmptiesTheBook
<1>13. JobsSound'
  <2>1. ASSUME NEW i \in jobs' PROVE JobSound(rows', i)
    <3>1. i \in Job /\ JobSound(rows, i)
      <4>1. CASE i \in jobs
        BY <4>1 DEF JobsSound, TypeOK
      <4>2. CASE i = to
        BY <1>1, <1>4, <4>2 DEF JobSound, InLimit
      <4>3. QED
        BY <1>1, <2>1, <4>1, <4>2 DEF With
    <3>2. QED
      BY <1>11, <3>1 DEF JobSound, InLimit, Job
  <2>2. \A i, l \in jobs' : i.order = l.order /\ i.key = l.key => i = l
    BY <1>1 DEF JobsSound, With
  <2>3. QED
    BY <2>1, <2>2 DEF JobsSound
<1>14. LevelsApplied'
  <2>1. SUFFICES ASSUME NEW l \in Orders, NEW m \in Nat, AtLevel(l, m), m < rows'[l].filled
                 PROVE  \E i \in jobs' : i.order = l /\ i.key = m + ExecutableQty(l, m) /\ i.isApplied
    BY DEF LevelsApplied, AtLevel, ExecutableQty
  <2>2. to \in jobs' /\ (jobs \ {j}) \subseteq jobs'
    BY <1>1 DEF With
  <2>3. CASE m < rows[l].filled
    <3>1. PICK i \in jobs : i.order = l /\ i.key = m + ExecutableQty(l, m) /\ i.isApplied
      BY <2>1, <2>3 DEF LevelsApplied
    <3>2. QED
      BY <1>1, <2>2, <3>1
  <2>4. CASE ~(m < rows[l].filled)
    <3>1. l = k /\ rows[k].filled = n /\ rows'[k].filled = j.key /\ to.isApplied
      BY <1>4, <1>7, <2>1, <2>4
    <3>2. m = n
      <4>1. n <= m /\ m < j.key
        BY <1>4, <2>1, <2>4, <3>1
      <4>2. CASE n < m
        <5>1. j.key <= m
          BY <1>5, <1>6, <2>1, <3>1, <4>2, LevelsApart
        <5>2. QED
          BY <1>4, <4>1, <5>1
      <4>3. QED
        BY <1>5, <4>1, <4>2
    <3>3. QED
      BY <1>1, <1>6, <2>2, <3>1, <3>2
  <2>5. QED
    BY <2>3, <2>4
<1>15. QED
  BY <1>9, <1>10, <1>12, <1>13, <1>14

-----------------------------------------------------------------------------
(***************************************************************************)
(* Steps that write no filled quantity.                                    *)
(***************************************************************************)

SameFilled == \A k \in Orders : rows'[k].filled = rows[k].filled

LEMMA RowWritten ==
  ASSUME TypeOK, NEW k \in Orders, NEW s \in {"ACCEPTED"} \cup Executable \cup Ended,
         \/ rows' = [rows EXCEPT ![k].status = s]
         \/ rows' = [rows EXCEPT ![k].isActivated = TRUE]
         \/ rows' = rows
  PROVE  rows' \in [Orders -> Row] /\ SameFilled
<1>1. rows \in [Orders -> Row]
  BY DEF TypeOK
<1>2. CASE rows' = [rows EXCEPT ![k].status = s]
  BY <1>1, <1>2 DEF SameFilled, Row
<1>3. CASE rows' = [rows EXCEPT ![k].isActivated = TRUE]
  BY <1>1, <1>3 DEF SameFilled, Row
<1>4. CASE rows' = rows
  BY <1>1, <1>4 DEF SameFilled
<1>5. QED
  BY <1>2, <1>3, <1>4

LEMMA ReachedKept ==
  ASSUME TypeOK, SameFilled
  PROVE  \A k \in Orders : \A n :
           /\ Behind(rows', k, n) <=> Behind(rows, k, n)
           /\ Dispatchable(rows', k, n) <=> Dispatchable(rows, k, n)
BY DEF SameFilled, Behind, Dispatchable

LEMMA JobsStay ==
  ASSUME EngineInv, jobs' = jobs, SameFilled
  PROVE  JobsSound' /\ LevelsApplied'
<1> USE DEF EngineInv
<1>1. ASSUME NEW j \in jobs PROVE JobSound(rows', j)
  <2>1. j.order \in Orders /\ JobSound(rows, j)
    BY DEF TypeOK, Job, JobsSound
  <2>2. QED
    BY <2>1, ReachedKept DEF JobSound
<1>2. JobsSound'
  BY <1>1 DEF JobsSound
<1>3. LevelsApplied'
  BY DEF LevelsApplied, SameFilled
<1>4. QED
  BY <1>2, <1>3

LEMMA AnswersStay ==
  ASSUME EngineInv, SameFilled,
         \A e \in Engines : reads'[e] \subseteq reads[e] /\ scans'[e] \in {scans[e], Absent}
  PROVE  AnswersBehind'
<1> USE DEF EngineInv
<1>1. ASSUME NEW e \in Engines, NEW r \in reads[e]
      PROVE  r.message.order \in Orders
  BY <1>1 DEF TypeOK, Read, Message
<1>2. QED
  BY <1>1, ReachedKept DEF AnswersBehind

\* One engine changes its book and its activations.
SoundBook(e, B, A) ==
  /\ B \in [Orders -> Entry \cup {Absent}] /\ A \subseteq Activation
  /\ \A k \in Orders : B[k] # Absent => Dispatchable(rows, k, B[k].filled)
  /\ \A a \in A : a.ofEntry \/ a.ofRow => B[a.order] # Absent
  /\ owned'[e] \/ \A k \in Orders : B[k] = Absent

ChangesBook(e) ==
  \E B, A : /\ book' = [book EXCEPT ![e] = B] /\ activations' = [activations EXCEPT ![e] = A]
            /\ SoundBook(e, B, A)

LEMMA BookChanges ==
  ASSUME EngineInv, SameFilled, NEW e \in Engines, ChangesBook(e),
         \A f \in Engines \ {e} : owned'[f] = owned[f]
  PROVE  /\ book' \in [Engines -> [Orders -> Entry \cup {Absent}]]
         /\ activations' \in [Engines -> SUBSET Activation]
         /\ EntriesBehind' /\ ObjectsKept' /\ LostLeaseEmptiesTheBook'
<1>0. PICK B, A : /\ book' = [book EXCEPT ![e] = B] /\ activations' = [activations EXCEPT ![e] = A]
                  /\ SoundBook(e, B, A)
  BY DEF ChangesBook
<1> USE DEF EngineInv, SoundBook
<1>1. /\ book \in [Engines -> [Orders -> Entry \cup {Absent}]]
      /\ activations \in [Engines -> SUBSET Activation]
  BY DEF TypeOK
<1>2. /\ book'[e] = B /\ activations'[e] = A
      /\ \A f \in Engines \ {e} : book'[f] = book[f] /\ activations'[f] = activations[f]
  BY <1>0, <1>1
<1>3. /\ book' \in [Engines -> [Orders -> Entry \cup {Absent}]]
      /\ activations' \in [Engines -> SUBSET Activation]
  BY <1>0, <1>1
<1>4. EntriesBehind'
  BY <1>0, <1>2, ReachedKept DEF EntriesBehind
<1>5. ObjectsKept'
  BY <1>0, <1>2 DEF ObjectsKept
<1>6. LostLeaseEmptiesTheBook'
  BY <1>0, <1>2 DEF LostLeaseEmptiesTheBook
<1>7. QED
  BY <1>3, <1>4, <1>5, <1>6

\* No engine changes its book, and none loses its lease.
LEMMA BooksStay ==
  ASSUME EngineInv, SameFilled, book' = book, activations' = activations,
         \A e \in Engines : owned[e] => owned'[e]
  PROVE  EntriesBehind' /\ ObjectsKept' /\ LostLeaseEmptiesTheBook'
BY ReachedKept DEF EngineInv, EntriesBehind, ObjectsKept, LostLeaseEmptiesTheBook

LEMMA Collected ==
  ASSUME EngineInv, SameFilled, TypeOK', AnswersBehind', EntriesBehind', ObjectsKept',
         LostLeaseEmptiesTheBook', JobsSound', LevelsApplied'
  PROVE  EngineInv'
<1>1. RowsAtLevels'
  BY DEF EngineInv, RowsAtLevels, SameFilled
<1>2. QED
  BY <1>1 DEF EngineInv

\* Steps that touch neither what engines keep nor the queue.
LEMMA MemoryKept ==
  ASSUME EngineInv, TypeOK', SameFilled, UNCHANGED <<memory, jobs>>,
         \A e \in Engines : owned[e] => owned'[e]
  PROVE  EngineInv'
<1>1. reads' = reads /\ scans' = scans /\ book' = book /\ activations' = activations /\ jobs' = jobs
  BY DEF memory
<1>2. JobsSound' /\ LevelsApplied'
  BY <1>1, JobsStay
<1>3. AnswersBehind'
  BY <1>1, AnswersStay
<1>4. EntriesBehind' /\ ObjectsKept' /\ LostLeaseEmptiesTheBook'
  BY <1>1, BooksStay
<1>5. QED
  BY <1>2, <1>3, <1>4, Collected

LEMMA OutsideStep ==
  ASSUME EngineInv,
         \/ CloseSession \/ LeaseExpires
         \/ \E k \in Orders : EndOrder(k)
         \/ \E m \in events : Dispatch(m)
         \/ \E e \in Engines : LoseRoute(e) \/ Start(e)
  PROVE  EngineInv'
<1> USE DEF database, messages, memory, leases
<1>0. TypeOK /\ faults \in 0 .. MaxFaults
  BY DEF EngineInv, TypeOK
<1>1. CASE CloseSession
  <2>1. TypeOK'
    BY <1>0, <1>1, FaultCounted DEF CloseSession, TypeOK
  <2>2. QED
    BY <1>1, <2>1, MemoryKept DEF CloseSession, SameFilled
<1>2. CASE LeaseExpires
  <2>1. faults' \in 0 .. MaxFaults
    BY <1>0, <1>2, FaultCounted DEF LeaseExpires
  <2>2. TypeOK'
    BY <1>0, <1>2, <2>1 DEF LeaseExpires, TypeOK
  <2>3. QED
    BY <1>2, <2>2, MemoryKept DEF LeaseExpires, SameFilled
<1>3. ASSUME NEW k \in Orders, EndOrder(k) PROVE EngineInv'
  <2>1. faults' \in 0 .. MaxFaults
    BY <1>0, <1>3, FaultCounted DEF EndOrder
  <2>2. rows' \in [Orders -> Row] /\ SameFilled
    BY <1>0, <1>3, RowWritten DEF EndOrder, Ended
  <2>3. TypeOK'
    BY <1>0, <1>3, <2>1, <2>2 DEF EndOrder, TypeOK
  <2>4. QED
    BY <1>3, <2>2, <2>3, MemoryKept DEF EndOrder
<1>4. ASSUME NEW m \in events, MarkPending(m) PROVE EngineInv'
  <2>1. m \in Message /\ m.order \in Orders
    BY <1>0 DEF TypeOK, Message
  <2>2. PICK s \in {"PENDING", "EXPIRED"} : s = IF isOpen THEN "PENDING" ELSE "EXPIRED"
    OBVIOUS
  <2>3. rows' = [rows EXCEPT ![m.order].status = s] \/ rows' = rows
    BY <1>4, <2>2 DEF MarkPending
  <2>4. rows' \in [Orders -> Row] /\ SameFilled
    BY <1>0, <2>1, <2>2, <2>3, RowWritten DEF Executable, Ended
  <2>5. routing' \subseteq Orders /\ events' \subseteq Message
    BY <1>0, <1>4, <2>1 DEF MarkPending, TypeOK
  <2>6. UNCHANGED <<isOpen, wire, memory, leases, jobs, faults>>
    BY <1>4 DEF MarkPending
  <2>7. TypeOK'
    BY <1>0, <2>4, <2>5, <2>6 DEF TypeOK
  <2>8. QED
    BY <2>4, <2>6, <2>7, MemoryKept
<1>5. ASSUME NEW m \in events, RouteAccepted(m) \/ RouteFill(m) PROVE EngineInv'
  <2>1. m \in Message
    BY <1>0 DEF TypeOK
  <2>2. faults' \in 0 .. MaxFaults
    BY <1>0, <1>5, FaultCounted DEF RouteAccepted, RouteFill
  <2>3. Published(m) \in [Engines -> SUBSET Message]
    BY <1>0, <2>1 DEF Published, TypeOK
  <2>4. /\ wire' \in [Engines -> SUBSET Message]
        /\ events' \subseteq Message /\ routing' \subseteq Orders
    BY <1>0, <1>5, <2>3 DEF RouteAccepted, RouteFill, TypeOK
  <2>5. UNCHANGED <<database, memory, leases, jobs>>
    BY <1>5 DEF RouteAccepted, RouteFill
  <2>6. TypeOK'
    BY <1>0, <2>2, <2>4, <2>5 DEF TypeOK
  <2>7. QED
    BY <2>5, <2>6, MemoryKept DEF SameFilled
<1>6. ASSUME NEW e \in Engines, LoseRoute(e) PROVE EngineInv'
  <2>1. faults' \in 0 .. MaxFaults
    BY <1>0, <1>6, FaultCounted DEF LoseRoute
  <2>2. wire' \in [Engines -> SUBSET Message]
    BY <1>0, <1>6 DEF LoseRoute, TypeOK
  <2>3. UNCHANGED <<database, events, routing, memory, leases, jobs>>
    BY <1>6 DEF LoseRoute
  <2>4. TypeOK'
    BY <1>0, <2>1, <2>2, <2>3 DEF TypeOK
  <2>5. QED
    BY <2>3, <2>4, MemoryKept DEF SameFilled
<1>7. ASSUME NEW e \in Engines, Start(e) PROVE EngineInv'
  <2>1. TypeOK'
    BY <1>0, <1>7 DEF Start, TypeOK
  <2>2. \A f \in Engines : owned[f] => owned'[f]
    BY <1>0, <1>7 DEF Start, TypeOK
  <2>3. QED
    BY <1>7, <2>1, <2>2, MemoryKept DEF Start, SameFilled
<1>8. QED
  BY <1>1, <1>2, <1>3, <1>4, <1>5, <1>6, <1>7 DEF Dispatch

\* Rows that engines read are as the table has them.
LEMMA ReadStep ==
  ASSUME EngineInv, NEW e \in Engines, ReadRoute(e) \/ Scan(e)
  PROVE  EngineInv'
<1> USE DEF database, messages, memory, leases
<1>0. TypeOK /\ AnswersBehind /\ RowsAtLevels
  BY DEF EngineInv
<1>1. /\ UNCHANGED <<rows, isOpen, events, routing, book, activations, process, owned, lease, jobs, faults>>
      /\ SameFilled
  BY DEF ReadRoute, Scan, SameFilled
<1>2. \A k \in Orders : rows[k] \in Row /\ Behind(rows, k, rows[k].filled)
  BY <1>0 DEF TypeOK, RowsAtLevels, Behind, Row
<1>3. TypeOK' /\ AnswersBehind'
  <2>1. CASE ReadRoute(e)
    <3>1. PICK m \in wire[e] :
            /\ wire' = [wire EXCEPT ![e] = @ \ {m}]
            /\ reads' = [reads EXCEPT ![e] =
                 IF owned[e] THEN @ \cup {[message |-> m, row |-> rows[m.order]]} ELSE @]
      BY <2>1 DEF ReadRoute
    <3>2. PICK r : r = [message |-> m, row |-> rows[m.order]]
      OBVIOUS
    <3>3. m \in Message /\ m.order \in Orders
      BY <1>0 DEF TypeOK, Message
    <3>4. r \in Read /\ Behind(rows, r.message.order, r.row.filled)
      BY <1>2, <3>2, <3>3 DEF Read
    <3>5. /\ reads' \in [Engines -> SUBSET Read] /\ wire' \in [Engines -> SUBSET Message]
          /\ \A f \in Engines : reads'[f] \subseteq reads[f] \cup {r}
      BY <1>0, <3>1, <3>2, <3>4 DEF TypeOK
    <3>6. scans' = scans
      BY <2>1 DEF ReadRoute
    <3>7. TypeOK'
      BY <1>0, <1>1, <3>5, <3>6 DEF TypeOK
    <3>8. AnswersBehind'
      <4>1. ASSUME NEW f \in Engines, NEW a \in reads'[f]
            PROVE  Behind(rows', a.message.order, a.row.filled)
        <5>1. Behind(rows, a.message.order, a.row.filled)
          BY <1>0, <3>4, <3>5, <4>1 DEF AnswersBehind
        <5>2. QED
          BY <1>1, <5>1
      <4>2. QED
        BY <1>0, <1>1, <3>6, <4>1 DEF AnswersBehind
    <3>9. QED
      BY <3>7, <3>8
  <2>2. CASE Scan(e)
    <3>1. scans' = [scans EXCEPT ![e] = rows] /\ reads' = reads /\ wire' = wire
      BY <2>2 DEF Scan
    <3>2. TypeOK'
      BY <1>0, <1>1, <3>1 DEF TypeOK
    <3>3. AnswersBehind'
      BY <1>0, <1>1, <1>2, <3>1 DEF AnswersBehind, TypeOK
    <3>4. QED
      BY <3>2, <3>3
  <2>3. QED
    BY <2>1, <2>2
<1>4. JobsSound' /\ LevelsApplied'
  BY <1>1, JobsStay
<1>5. EntriesBehind' /\ ObjectsKept' /\ LostLeaseEmptiesTheBook'
  BY <1>1, BooksStay
<1>6. QED
  BY <1>1, <1>3, <1>4, <1>5, Collected

\* What the invariant says of one engine's book.
LEMMA BookOf ==
  ASSUME EngineInv, NEW e \in Engines
  PROVE  /\ book[e] \in [Orders -> Entry \cup {Absent}] /\ activations[e] \subseteq Activation
         /\ \A l \in Orders : book[e][l] # Absent => Dispatchable(rows, l, book[e][l].filled)
         /\ \A a \in activations[e] : a.order \in Orders /\ (a.ofEntry \/ a.ofRow => book[e][a.order] # Absent)
         /\ ~owned[e] => \A l \in Orders : book[e][l] = Absent
         /\ book = [book EXCEPT ![e] = book[e]] /\ activations = [activations EXCEPT ![e] = activations[e]]
BY DEF EngineInv, TypeOK, EntriesBehind, ObjectsKept, LostLeaseEmptiesTheBook, Activation

\* The book of an engine that uses what it has read.
LEMMA UseStep ==
  ASSUME EngineInv, NEW e \in Engines, NEW r \in reads[e], UseRoute(e, r)
  PROVE  EngineInv'
<1> USE DEF database, messages, memory, leases
<1>0. TypeOK /\ AnswersBehind /\ EntriesBehind /\ ObjectsKept /\ LostLeaseEmptiesTheBook
  BY DEF EngineInv
<1>1. /\ UNCHANGED <<rows, isOpen, events, routing, wire, scans, process, owned, lease, jobs, faults>>
      /\ SameFilled /\ reads' = [reads EXCEPT ![e] = @ \ {r}]
  BY DEF UseRoute, SameFilled
<1> DEFINE k == r.message.order
<1>2. r \in Read /\ k \in Orders /\ r.row \in Row /\ Behind(rows, k, r.row.filled)
  BY <1>0 DEF TypeOK, Read, Message, AnswersBehind
<1>3. /\ book[e] \in [Orders -> Entry \cup {Absent}] /\ activations[e] \subseteq Activation
      /\ \A l \in Orders : book[e][l] # Absent => Dispatchable(rows, l, book[e][l].filled)
      /\ \A a \in activations[e] : a.order \in Orders /\ (a.ofEntry \/ a.ofRow => book[e][a.order] # Absent)
      /\ ~owned[e] => \A l \in Orders : book[e][l] = Absent
      /\ book = [book EXCEPT ![e] = book[e]] /\ activations = [activations EXCEPT ![e] = activations[e]]
  BY BookOf
<1>4. ChangesBook(e)
  <2>1. CASE StillOwned(e) /\ IsCandidate(k, r.row)
    <3>1. PICK x : x = EntryAfterAdd(e, k, r.row)
      OBVIOUS
    <3>2. PICK A : A = ActivationsAfterAdd(e, {k}, [l \in Orders |-> r.row])
      OBVIOUS
    <3>3. x \in Entry /\ x # Absent /\ Dispatchable(rows, k, x.filled)
      BY <1>0, <1>2, <2>1, <3>1, AddedIsDispatchable
    <3>4. /\ A \subseteq Activation
          /\ \A b \in A : b.ofEntry \/ b.ofRow =>
               b.order = k \/ \E a \in activations[e] : a.order = b.order /\ (a.ofEntry \/ a.ofRow)
      BY <1>0, <3>2, AfterAdd
    <3>5. PICK B : B = [book[e] EXCEPT ![k] = x]
      OBVIOUS
    <3>6. book' = [book EXCEPT ![e] = B] /\ activations' = [activations EXCEPT ![e] = A]
      BY <2>1, <3>1, <3>2, <3>5 DEF UseRoute
    <3>7. /\ B \in [Orders -> Entry \cup {Absent}] /\ B[k] = x
          /\ \A l \in Orders \ {k} : B[l] = book[e][l]
      BY <1>2, <1>3, <3>3, <3>5
    <3>8. \A l \in Orders : B[l] # Absent => Dispatchable(rows, l, B[l].filled)
      BY <1>3, <3>3, <3>7
    <3>9. \A a \in A : a.ofEntry \/ a.ofRow => B[a.order] # Absent
      BY <1>3, <3>3, <3>4, <3>7
    <3>10. QED
      BY <1>1, <2>1, <3>4, <3>6, <3>7, <3>8, <3>9 DEF StillOwned, SoundBook, ChangesBook
  <2>2. CASE StillOwned(e) /\ ~IsCandidate(k, r.row)
    <3>1. PICK A : A = ActivationsAfterRemove(e, {k})
      OBVIOUS
    <3>2. /\ A \subseteq Activation
          /\ \A b \in A : b.ofEntry \/ b.ofRow =>
               b.order # k /\ \E a \in activations[e] : a.order = b.order /\ (a.ofEntry \/ a.ofRow)
      BY <1>0, <3>1, AfterRemove
    <3>3. PICK B : B = [book[e] EXCEPT ![k] = Absent]
      OBVIOUS
    <3>4. book' = [book EXCEPT ![e] = B] /\ activations' = [activations EXCEPT ![e] = A]
      BY <2>2, <3>1, <3>3 DEF UseRoute
    <3>5. /\ B \in [Orders -> Entry \cup {Absent}] /\ B[k] = Absent
          /\ \A l \in Orders \ {k} : B[l] = book[e][l]
      BY <1>2, <1>3, <3>3
    <3>6. \A a \in A : a.ofEntry \/ a.ofRow => B[a.order] # Absent
      BY <1>3, <3>2, <3>5
    <3>7. \A l \in Orders : B[l] # Absent => Dispatchable(rows, l, B[l].filled)
      BY <1>3, <3>5
    <3>8. QED
      BY <1>1, <2>2, <3>2, <3>4, <3>5, <3>6, <3>7, ZenonT(40) DEF StillOwned, SoundBook, ChangesBook
  <2>3. CASE ~StillOwned(e)
    <3>1. book' = book /\ activations' = activations
      BY <2>3 DEF UseRoute
    <3>2. SoundBook(e, book[e], activations[e])
      BY <1>1, <1>3 DEF SoundBook
    <3>3. QED
      BY <1>3, <3>1, <3>2 DEF ChangesBook
  <2>4. QED
    BY <2>1, <2>2, <2>3
<1>5. /\ book' \in [Engines -> [Orders -> Entry \cup {Absent}]]
      /\ activations' \in [Engines -> SUBSET Activation]
      /\ EntriesBehind' /\ ObjectsKept' /\ LostLeaseEmptiesTheBook'
  BY <1>1, <1>4, BookChanges
<1>6. TypeOK'
  BY <1>0, <1>1, <1>5 DEF TypeOK
<1>7. AnswersBehind'
  BY <1>0, <1>1, AnswersStay DEF TypeOK
<1>8. JobsSound' /\ LevelsApplied'
  BY <1>1, JobsStay
<1>9. QED
  BY <1>1, <1>5, <1>6, <1>7, <1>8, Collected

\* The book of an engine that uses what it has scanned.
LEMMA ScanUsed ==
  ASSUME EngineInv, NEW e \in Engines, Hydrate(e) \/ Reconcile(e)
  PROVE  EngineInv'
<1> USE DEF database, messages, memory, leases
<1>0. TypeOK /\ AnswersBehind /\ EntriesBehind
  BY DEF EngineInv
<1>1. /\ UNCHANGED <<rows, isOpen, events, routing, wire, reads, owned, lease, jobs, faults>>
      /\ SameFilled /\ scans' = [scans EXCEPT ![e] = Absent]
      /\ process' \in [Engines -> {"down", "boot", "up"}]
  BY <1>0 DEF Hydrate, Reconcile, SameFilled, TypeOK
<1>2. /\ scans[e] \in [Orders -> Row]
      /\ \A l \in Orders : Behind(rows, l, scans[e][l].filled)
  BY <1>0 DEF Hydrate, Reconcile, TypeOK, AnswersBehind
<1>3. /\ book[e] \in [Orders -> Entry \cup {Absent}] /\ activations[e] \subseteq Activation
      /\ \A l \in Orders : book[e][l] # Absent => Dispatchable(rows, l, book[e][l].filled)
      /\ \A a \in activations[e] : a.order \in Orders /\ (a.ofEntry \/ a.ofRow => book[e][a.order] # Absent)
      /\ ~owned[e] => \A l \in Orders : book[e][l] = Absent
      /\ book = [book EXCEPT ![e] = book[e]] /\ activations = [activations EXCEPT ![e] = activations[e]]
  BY BookOf
<1>4. \A l \in Orders : IsCandidate(l, scans[e][l]) =>
        /\ EntryAfterAdd(e, l, scans[e][l]) \in Entry /\ EntryAfterAdd(e, l, scans[e][l]) # Absent
        /\ Dispatchable(rows, l, EntryAfterAdd(e, l, scans[e][l]).filled)
        /\ Fresh(scans[e][l]) \in Entry /\ Fresh(scans[e][l]) # Absent
        /\ Dispatchable(rows, l, Fresh(scans[e][l]).filled)
  BY <1>0, <1>2, AddedIsDispatchable
<1>5. ASSUME ~owned[e] PROVE ChangesBook(e)
  <2>1. book'[e] = book[e] /\ book' = [book EXCEPT ![e] = book'[e]] /\ activations' = activations
    <3>1. PICK B : B = book'[e]
      OBVIOUS
    <3>2. book' = [book EXCEPT ![e] = B] /\ B = [l \in Orders |-> book[e][l]]
      BY <1>0, <1>5, <3>1 DEF Hydrate, Reconcile, TypeOK
    <3>3. activations' = activations
      BY <1>3, <1>5 DEF Hydrate, Reconcile
    <3>4. QED
      BY <1>3, <3>1, <3>2, <3>3
  <2>2. SoundBook(e, book[e], activations[e])
    BY <1>1, <1>3 DEF SoundBook
  <2>3. QED
    BY <1>3, <2>1, <2>2 DEF ChangesBook
<1>6. ASSUME owned[e], Hydrate(e) PROVE ChangesBook(e)
  <2>1. PICK found : found = {l \in Orders : IsCandidate(l, scans[e][l])}
    OBVIOUS
  <2>2. PICK A : A = ActivationsAfterAdd(e, found, scans[e])
    OBVIOUS
  <2>3. PICK B : B = [l \in Orders |-> IF l \in found THEN EntryAfterAdd(e, l, scans[e][l]) ELSE book[e][l]]
    OBVIOUS
  <2>4. book' = [book EXCEPT ![e] = B] /\ activations' = [activations EXCEPT ![e] = A]
    BY <1>0, <1>6, <2>1, <2>2, <2>3 DEF Hydrate, TypeOK
  <2>5. /\ A \subseteq Activation
        /\ \A b \in A : b.ofEntry \/ b.ofRow =>
             \/ b.order \in found
             \/ \E a \in activations[e] : a.order = b.order /\ (a.ofEntry \/ a.ofRow)
    BY <1>0, <2>2, AfterAdd
  <2>6. /\ \A l \in found : /\ B[l] = EntryAfterAdd(e, l, scans[e][l]) /\ B[l] \in Entry
                            /\ B[l] # Absent /\ Dispatchable(rows, l, B[l].filled)
        /\ \A l \in Orders \ found : B[l] = book[e][l]
    BY <1>4, <2>1, <2>3
  <2>7. B \in [Orders -> Entry \cup {Absent}] /\ found \subseteq Orders
    BY <1>3, <2>1, <2>3, <2>6
  <2>8. \A l \in Orders : B[l] # Absent => Dispatchable(rows, l, B[l].filled)
    BY <1>3, <2>6
  <2>9. \A a \in A : a.ofEntry \/ a.ofRow => B[a.order] # Absent
    BY <1>3, <2>5, <2>6
  <2>10. QED
    BY <1>1, <1>6, <2>4, <2>5, <2>7, <2>8, <2>9 DEF SoundBook, ChangesBook
<1>7. ASSUME owned[e], Reconcile(e) PROVE ChangesBook(e)
  <2>1. PICK A : A = ActivationsAfterRemove(e, Evicted(e))
    OBVIOUS
  <2>2. PICK B : B = [l \in Orders |-> IF l \in Recovered(e) THEN Fresh(scans[e][l])
                                       ELSE IF l \in Evicted(e) THEN Absent ELSE book[e][l]]
    OBVIOUS
  <2>3. Recovered(e) \cap Evicted(e) = {}
    BY DEF Recovered, Evicted, IsCandidate
  <2>4. book' = [book EXCEPT ![e] = B] /\ activations' = [activations EXCEPT ![e] = A]
    BY <1>0, <1>7, <2>1, <2>2, <2>3 DEF Reconcile, TypeOK
  <2>5. /\ A \subseteq Activation
        /\ \A b \in A : b.ofEntry \/ b.ofRow =>
             b.order \notin Evicted(e) /\ \E a \in activations[e] : a.order = b.order /\ (a.ofEntry \/ a.ofRow)
    BY <1>0, <2>1, AfterRemove
  <2>6. /\ \A l \in Recovered(e) : l \in Orders /\ B[l] = Fresh(scans[e][l]) /\ B[l] \in Entry
                                   /\ B[l] # Absent /\ Dispatchable(rows, l, B[l].filled)
        /\ \A l \in Evicted(e) : B[l] = Absent
        /\ \A l \in Orders \ (Recovered(e) \cup Evicted(e)) : B[l] = book[e][l]
    BY <1>4, <2>2, <2>3 DEF Recovered, Evicted
  <2>7. B \in [Orders -> Entry \cup {Absent}]
    BY <1>3, <2>2, <2>6
  <2>8. \A l \in Orders : B[l] # Absent => Dispatchable(rows, l, B[l].filled)
    BY <1>3, <2>6
  <2>9. \A a \in A : a.ofEntry \/ a.ofRow => B[a.order] # Absent
    BY <1>3, <2>5, <2>6
  <2>10. QED
    BY <1>1, <1>7, <2>4, <2>5, <2>7, <2>8, <2>9 DEF SoundBook, ChangesBook
<1>8. /\ book' \in [Engines -> [Orders -> Entry \cup {Absent}]]
      /\ activations' \in [Engines -> SUBSET Activation]
      /\ EntriesBehind' /\ ObjectsKept' /\ LostLeaseEmptiesTheBook'
  BY <1>1, <1>5, <1>6, <1>7, BookChanges
<1>9. scans' \in [Engines -> [Orders -> Row] \cup {Absent}]
  BY <1>0, <1>1 DEF TypeOK
<1>10. TypeOK'
  BY <1>0, <1>1, <1>8, <1>9 DEF TypeOK
<1>11. AnswersBehind'
  BY <1>0, <1>1, AnswersStay DEF TypeOK
<1>12. JobsSound' /\ LevelsApplied'
  BY <1>1, JobsStay
<1>13. QED
  BY <1>1, <1>8, <1>10, <1>11, <1>12, Collected

\* A process that dies or loses its lease has an empty book.
LEMMA LossStep ==
  ASSUME EngineInv, NEW e \in Engines, Crash(e) \/ LoseLease(e)
  PROVE  EngineInv'
<1> USE DEF database, messages, memory, leases
<1>0. TypeOK /\ AnswersBehind /\ EntriesBehind
  BY DEF EngineInv
<1>1. PICK B : B = [k \in Orders |-> Absent]
  OBVIOUS
<1>2. /\ UNCHANGED <<rows, isOpen, events, routing, lease, jobs>> /\ SameFilled
      /\ owned' = [owned EXCEPT ![e] = FALSE] /\ book' = [book EXCEPT ![e] = B]
  BY <1>1 DEF Crash, LoseLease, SameFilled
<1>3. /\ wire' \in [Engines -> SUBSET Message] /\ reads' \in [Engines -> SUBSET Read]
      /\ scans' \in [Engines -> [Orders -> Row] \cup {Absent}]
      /\ process' \in [Engines -> {"down", "boot", "up"}]
  BY <1>0 DEF Crash, LoseLease, TypeOK
<1>4. /\ faults' \in 0 .. MaxFaults
      /\ \A f \in Engines : reads'[f] \subseteq reads[f] /\ scans'[f] \in {scans[f], Absent}
  BY <1>0, FaultCounted DEF Crash, LoseLease, TypeOK
<1>5. PICK A : A = IF Crash(e) THEN {} ELSE ActivationsAfterRemove(e, Orders)
  OBVIOUS
<1>6. activations' = [activations EXCEPT ![e] = A]
  BY <1>5 DEF Crash, LoseLease
<1>7. A \subseteq Activation /\ \A a \in A : ~(a.ofEntry \/ a.ofRow)
  <2>1. /\ ActivationsAfterRemove(e, Orders) \subseteq Activation
        /\ \A a \in ActivationsAfterRemove(e, Orders) : a.ofEntry \/ a.ofRow => a.order \notin Orders
    BY <1>0, AfterRemove
  <2>2. QED
    BY <1>5, <2>1 DEF Activation
<1>8. ChangesBook(e)
  <2>1. B \in [Orders -> Entry \cup {Absent}] /\ \A k \in Orders : B[k] = Absent
    BY <1>1
  <2>2. SoundBook(e, B, A)
    BY <1>7, <2>1 DEF SoundBook
  <2>3. QED
    BY <1>2, <1>6, <2>2 DEF ChangesBook
<1>9. owned' \in [Engines -> BOOLEAN] /\ \A f \in Engines \ {e} : owned'[f] = owned[f]
  BY <1>0, <1>2 DEF TypeOK
<1>10. /\ book' \in [Engines -> [Orders -> Entry \cup {Absent}]]
       /\ activations' \in [Engines -> SUBSET Activation]
       /\ EntriesBehind' /\ ObjectsKept' /\ LostLeaseEmptiesTheBook'
  BY <1>2, <1>8, <1>9, BookChanges
<1>11. TypeOK'
  BY <1>0, <1>2, <1>3, <1>4, <1>9, <1>10 DEF TypeOK
<1>12. AnswersBehind'
  BY <1>2, <1>4, AnswersStay
<1>13. JobsSound' /\ LevelsApplied'
  BY <1>2, JobsStay
<1>14. QED
  BY <1>2, <1>10, <1>11, <1>12, <1>13, Collected

\* The transaction of an activation.
LEMMA ActivateStep ==
  ASSUME EngineInv, NEW e \in Engines, NEW a \in activations[e], ActivateStopLimit(e, a)
  PROVE  EngineInv'
<1> USE DEF database, messages, memory, leases
<1>0. TypeOK
  BY DEF EngineInv
<1>1. UNCHANGED <<isOpen, events, routing, wire, reads, scans, book, process, owned, lease, jobs>>
  BY DEF ActivateStopLimit
<1>2. a \in Activation /\ a.order \in Orders
  BY <1>0 DEF TypeOK, Activation
<1>3. rows' = rows \/ rows' = [rows EXCEPT ![a.order].isActivated = TRUE]
  BY DEF ActivateStopLimit
<1>4. rows' \in [Orders -> Row] /\ SameFilled
  BY <1>0, <1>2, <1>3, RowWritten
<1>5. faults' \in 0 .. MaxFaults
  BY <1>0, FaultCounted DEF ActivateStopLimit, TypeOK
<1>6. PICK result \in {"failed", "activated"} : Returns(e, a, result)
  BY DEF ActivateStopLimit
<1>7. PICK b : b = [a EXCEPT !.result = result]
  OBVIOUS
<1>8. b \in Activation /\ b.order = a.order /\ b.ofEntry = a.ofEntry /\ b.ofRow = a.ofRow
  BY <1>2, <1>6, <1>7 DEF Activation
<1>9. PICK A : A = (activations[e] \ {a}) \cup {b}
  OBVIOUS
<1>10. activations' = [activations EXCEPT ![e] = A]
  BY <1>6, <1>7, <1>9 DEF Returns
<1>11. SoundBook(e, book[e], A) /\ book' = [book EXCEPT ![e] = book[e]]
  BY <1>1, <1>8, <1>9, BookOf DEF SoundBook
<1>12. ChangesBook(e)
  BY <1>10, <1>11 DEF ChangesBook
<1>13. /\ activations' \in [Engines -> SUBSET Activation]
       /\ EntriesBehind' /\ ObjectsKept' /\ LostLeaseEmptiesTheBook'
  BY <1>1, <1>4, <1>12, BookChanges
<1>14. TypeOK'
  BY <1>0, <1>1, <1>4, <1>5, <1>13 DEF TypeOK
<1>15. AnswersBehind'
  BY <1>1, <1>4, AnswersStay
<1>16. JobsSound' /\ LevelsApplied'
  BY <1>1, <1>4, JobsStay
<1>17. QED
  BY <1>4, <1>13, <1>14, <1>15, <1>16, Collected

-----------------------------------------------------------------------------
(***************************************************************************)
(* Dispatch.                                                               *)
(***************************************************************************)

LEMMA DispatchedIsEntry ==
  ASSUME NEW x \in Entry, NEW j \in Job
  PROVE  /\ Dispatched(x, j) \in Entry /\ Dispatched(x, j) # Absent
         /\ Dispatched(x, j).filled = x.filled
BY AbsentAssumption DEF Dispatched, Entry, Job

\* An engine that changes its book and may add a sound job.
LEMMA DispatchStep ==
  ASSUME EngineInv, NEW e \in Engines, ChangesBook(e),
         UNCHANGED <<database, messages, reads, scans, leases>>,
         \/ UNCHANGED <<jobs, faults>>
         \/ \E j \in Job : JobSound(rows, j) /\ Enqueues(j)
  PROVE  EngineInv'
<1> USE DEF database, messages, leases
<1>0. TypeOK /\ SameFilled
  BY DEF EngineInv, SameFilled
<1>1. /\ book' \in [Engines -> [Orders -> Entry \cup {Absent}]]
      /\ activations' \in [Engines -> SUBSET Activation]
      /\ EntriesBehind' /\ ObjectsKept' /\ LostLeaseEmptiesTheBook'
  BY <1>0, BookChanges
<1>2. AnswersBehind'
  BY <1>0, AnswersStay
<1>3. faults' \in 0 .. MaxFaults
  BY <1>0, FaultCounted, EnqueueFacts DEF TypeOK
<1>4. jobs' \subseteq Job /\ JobsSound' /\ LevelsApplied'
  <2>1. CASE jobs' = jobs
    BY <1>0, <2>1, JobsStay DEF TypeOK
  <2>2. ASSUME NEW j \in Job, JobSound(rows, j), Enqueues(j)
        PROVE  jobs' \subseteq Job /\ JobsSound' /\ LevelsApplied'
    <3>1. jobs' = jobs \/ (jobs' = jobs \cup {j} /\ ~IsKnown(j))
      BY <2>2, EnqueueFacts
    <3>2. \A k \in Orders : rows'[k].filled = rows[k].filled
      BY <1>0 DEF SameFilled
    <3>3. QED
      BY <2>2, <3>1, <3>2, JobsGrow
  <2>3. QED
    BY <2>1, <2>2
<1>5. TypeOK'
  BY <1>0, <1>1, <1>3, <1>4 DEF TypeOK
<1>6. QED
  BY <1>0, <1>1, <1>2, <1>4, <1>5, Collected

LEMMA EvaluateStep ==
  ASSUME EngineInv, NEW e \in Engines, NEW k \in Orders, NEW price \in Prices,
         EvaluateOrder(e, k, price)
  PROVE  EngineInv'
<1>0. TypeOK /\ UNCHANGED <<database, messages, reads, scans, leases>>
  BY DEF EngineInv, EvaluateOrder
<1>1. PICK x : x = book[e][k]
  OBVIOUS
<1>2. /\ x \in Entry /\ x # Absent /\ Dispatchable(rows, k, x.filled) /\ owned[e] /\ owned'[e]
      /\ book[e] \in [Orders -> Entry \cup {Absent}] /\ activations[e] \subseteq Activation
      /\ \A l \in Orders : book[e][l] # Absent => Dispatchable(rows, l, book[e][l].filled)
      /\ \A a \in activations[e] : a.order \in Orders /\ (a.ofEntry \/ a.ofRow => book[e][a.order] # Absent)
      /\ activations = [activations EXCEPT ![e] = activations[e]]
  BY <1>1, BookOf DEF EvaluateOrder, leases
<1>3. ASSUME NEW y \in Entry, y # Absent, y.filled = x.filled,
             NEW A, A \subseteq Activation,
             \A a \in A : a \in activations[e] \/ a.order = k,
             book' = [book EXCEPT ![e][k] = y],
             activations' = [activations EXCEPT ![e] = A]
      PROVE  ChangesBook(e)
  <2>1. PICK B : B = [book[e] EXCEPT ![k] = y]
    OBVIOUS
  <2>2. book' = [book EXCEPT ![e] = B]
    BY <1>3, <2>1
  <2>3. /\ B \in [Orders -> Entry \cup {Absent}] /\ B[k] = y
        /\ \A l \in Orders \ {k} : B[l] = book[e][l]
    BY <1>2, <1>3, <2>1
  <2>4. \A l \in Orders : B[l] # Absent => Dispatchable(rows, l, B[l].filled)
    BY <1>2, <1>3, <2>3
  <2>5. \A a \in A : a.ofEntry \/ a.ofRow => B[a.order] # Absent
    BY <1>2, <1>3, <2>3
  <2>6. QED
    BY <1>2, <1>3, <2>2, <2>3, <2>4, <2>5, ZenonT(60) DEF SoundBook, ChangesBook
<1>4. CASE IsExecuted(k, price, x) /\ Trigger(e, k, price)
  <2>1. PICK j : j = ExecuteFill(k, price, x.filled)
    OBVIOUS
  <2>2. Type[k] \in {"LIMIT", "STOP_LIMIT"} => CanFill(k, price, x.filled)
    BY <1>4 DEF IsExecuted
  <2>3. j \in Job /\ JobSound(rows, j)
    BY <1>0, <1>2, <2>1, <2>2, DispatchIsSound
  <2>4. /\ book' = [book EXCEPT ![e][k] = Dispatched(x, j)] /\ Enqueues(j)
        /\ activations' = activations
    BY <1>1, <1>4, <2>1 DEF Trigger
  <2>5. /\ Dispatched(x, j) \in Entry /\ Dispatched(x, j) # Absent
        /\ Dispatched(x, j).filled = x.filled
    BY <1>2, <2>3, DispatchedIsEntry
  <2>6. ChangesBook(e)
    BY <1>2, <1>3, <2>4, <2>5
  <2>7. QED
    BY <1>0, <2>3, <2>4, <2>6, DispatchStep
<1>5. CASE IsActivated(k, price, x) /\ BeginActivation(e, k, price)
  <2>1. PICK b : b = [order |-> k, price |-> price, result |-> "pending",
                      ofEntry |-> TRUE, ofRow |-> TRUE]
    OBVIOUS
  <2>2. b \in Activation /\ b.order = k
    BY <2>1 DEF Activation
  <2>3. PICK A : A = activations[e] \cup {b}
    OBVIOUS
  <2>4. activations' = [activations EXCEPT ![e] = A] /\ UNCHANGED <<jobs, faults>>
    BY <1>5, <2>1, <2>3 DEF BeginActivation
  <2>5. PICK y : y = [x EXCEPT !.isActivated = TRUE]
    OBVIOUS
  <2>6. y \in Entry /\ y # Absent /\ y.filled = x.filled
    BY <1>2, <2>5, AbsentAssumption DEF Entry
  <2>7. book' = [book EXCEPT ![e][k] = y]
    BY <1>1, <1>5, <2>5 DEF BeginActivation
  <2>8. A \subseteq Activation /\ \A a \in A : a \in activations[e] \/ a.order = k
    BY <1>2, <2>2, <2>3
  <2>9. ChangesBook(e)
    BY <1>3, <2>4, <2>6, <2>7, <2>8
  <2>10. QED
    BY <1>0, <2>4, <2>9, DispatchStep
<1>6. QED
  BY <1>1, <1>4, <1>5 DEF EvaluateOrder

\* The answer of an activation comes: the old row it puts back has nothing
\* filled, which is a level every order has reached.
LEMMA ResumeStep ==
  ASSUME EngineInv, NEW e \in Engines, NEW a \in activations[e], ResumeActivation(e, a)
  PROVE  EngineInv'
<1> DEFINE k == a.order
<1>0. TypeOK /\ UNCHANGED <<database, messages, reads, scans, leases>>
  BY DEF EngineInv, ResumeActivation
<1>1. a \in Activation /\ k \in Orders /\ a.price \in Prices
  BY <1>0 DEF TypeOK, Activation
<1>2. /\ book[e] \in [Orders -> Entry \cup {Absent}] /\ activations[e] \subseteq Activation
      /\ \A l \in Orders : book[e][l] # Absent => Dispatchable(rows, l, book[e][l].filled)
      /\ \A b \in activations[e] : b.order \in Orders /\ (b.ofEntry \/ b.ofRow => book[e][b.order] # Absent)
      /\ ~owned[e] => \A l \in Orders : book[e][l] = Absent
      /\ owned'[e] = owned[e]
      /\ book = [book EXCEPT ![e] = book[e]]
  BY <1>0, BookOf DEF leases
<1>3. Dispatchable(rows, k, 0)
  BY <1>0, <1>1, LevelZero DEF TypeOK, Row, Dispatchable, Behind
<1>4. ASSUME NEW A, A \subseteq Activation, activations' = [activations EXCEPT ![e] = A],
             \A b \in A : b.ofEntry \/ b.ofRow =>
               \E c \in activations[e] : c.order = b.order /\ (c.ofEntry \/ c.ofRow),
             \/ book' = book
             \/ \E y \in Entry : /\ a.ofEntry \/ a.ofRow
                                 /\ y.filled = 0 \/ y.filled = book[e][k].filled
                                 /\ book' = [book EXCEPT ![e][k] = y]
      PROVE  ChangesBook(e)
  <2>1. CASE book' = book
    <3>1. SoundBook(e, book[e], A)
      BY <1>2, <1>4 DEF SoundBook
    <3>2. QED
      BY <1>2, <1>4, <2>1, <3>1 DEF ChangesBook
  <2>2. CASE book' # book
    <3>1. PICK y \in Entry : /\ a.ofEntry \/ a.ofRow
                             /\ y.filled = 0 \/ y.filled = book[e][k].filled
                             /\ book' = [book EXCEPT ![e][k] = y]
      BY <1>4, <2>2
    <3>2. y # Absent /\ book[e][k] # Absent /\ Dispatchable(rows, k, y.filled) /\ owned'[e]
      BY <1>1, <1>2, <1>3, <3>1, AbsentAssumption
    <3>3. PICK B : B = [book[e] EXCEPT ![k] = y]
      OBVIOUS
    <3>4. book' = [book EXCEPT ![e] = B]
      BY <3>1, <3>3
    <3>5. /\ B \in [Orders -> Entry \cup {Absent}] /\ B[k] = y
          /\ \A l \in Orders \ {k} : B[l] = book[e][l]
      BY <1>1, <1>2, <3>1, <3>3
    <3>6. \A l \in Orders : B[l] # Absent => Dispatchable(rows, l, B[l].filled)
      BY <1>2, <3>2, <3>5
    <3>7. \A b \in A : b.ofEntry \/ b.ofRow => B[b.order] # Absent
      BY <1>2, <1>4, <3>2, <3>5
    <3>8. QED
      BY <1>4, <3>2, <3>4, <3>5, <3>6, <3>7 DEF SoundBook, ChangesBook
  <2>3. QED
    BY <2>1, <2>2
<1>5. PICK rest : rest = activations[e] \ {a}
  OBVIOUS
<1>6. CASE a.result = "failed"
  <2>1. /\ activations' = [activations EXCEPT ![e] = rest] /\ UNCHANGED <<jobs, faults>>
        /\ book' = IF a.ofRow THEN [book EXCEPT ![e][k].isActivated = FALSE] ELSE book
    BY <1>5, <1>6 DEF ResumeActivation
  <2>2. /\ rest \subseteq Activation
        /\ \A b \in rest : b.ofEntry \/ b.ofRow =>
             \E c \in activations[e] : c.order = b.order /\ (c.ofEntry \/ c.ofRow)
    BY <1>2, <1>5
  <2>3. \/ book' = book
        \/ \E y \in Entry : /\ a.ofEntry \/ a.ofRow
                            /\ y.filled = 0 \/ y.filled = book[e][k].filled
                            /\ book' = [book EXCEPT ![e][k] = y]
    <3>1. CASE a.ofRow
      <4>1. PICK y : y = [book[e][k] EXCEPT !.isActivated = FALSE]
        OBVIOUS
      <4>2. book[e][k] \in Entry
        BY <1>1, <1>2, <3>1
      <4>3. y \in Entry /\ y.filled = book[e][k].filled
        BY <4>1, <4>2 DEF Entry
      <4>4. book' = [book EXCEPT ![e][k] = y]
        BY <2>1, <3>1, <4>1
      <4>5. QED
        BY <3>1, <4>3, <4>4
    <3>2. CASE ~a.ofRow
      BY <2>1, <3>2
    <3>3. QED
      BY <3>1, <3>2
  <2>4. ChangesBook(e)
    BY <1>4, <2>1, <2>2, <2>3
  <2>5. QED
    BY <1>0, <2>1, <2>4, DispatchStep
<1>7. CASE a.result = "activated"
  <2>1. PICK A : A = {IF b.order = k /\ a.ofEntry THEN [b EXCEPT !.ofRow = FALSE] ELSE b : b \in rest}
    OBVIOUS
  <2>2. activations' = [activations EXCEPT ![e] = A]
    BY <1>5, <1>7, <2>1 DEF ResumeActivation
  <2>3. /\ A \subseteq Activation
        /\ \A b \in A : b.ofEntry \/ b.ofRow =>
             \E c \in activations[e] : c.order = b.order /\ (c.ofEntry \/ c.ofRow)
    <3>1. SUFFICES ASSUME NEW b \in A
                   PROVE  b \in Activation /\
                          (b.ofEntry \/ b.ofRow =>
                             \E c \in activations[e] : c.order = b.order /\ (c.ofEntry \/ c.ofRow))
      OBVIOUS
    <3>2. PICK c \in rest : b = c \/ b = [c EXCEPT !.ofRow = FALSE]
      BY <2>1
    <3>3. c \in Activation /\ c \in activations[e]
      BY <1>2, <1>5
    <3>4. CASE b = c
      BY <3>3, <3>4
    <3>5. CASE b = [c EXCEPT !.ofRow = FALSE]
      <4>1. b \in Activation /\ b.order = c.order /\ b.ofEntry = c.ofEntry /\ b.ofRow = FALSE
        BY <3>3, <3>5 DEF Activation
      <4>2. QED
        BY <3>3, <4>1
    <3>6. QED
      BY <3>2, <3>4, <3>5
  <2>4. PICK j : j = ExecuteFill(k, a.price, 0)
    OBVIOUS
  <2>5. PICK entry : entry = [book[e][k] EXCEPT !.filled = 0, !.isActivated = TRUE]
    OBVIOUS
  <2>6. a.ofEntry => entry \in Entry /\ entry.filled = 0
    BY <1>1, <1>2, <2>5, ZenonT(60) DEF Entry
  <2>7. CASE owned[e] /\ CanFill(k, a.price, 0)
    <3>1. /\ book' = IF a.ofEntry THEN [book EXCEPT ![e][k] = Dispatched(entry, j)] ELSE book
          /\ Enqueues(j)
      BY <1>7, <2>4, <2>5, <2>7 DEF ResumeActivation
    <3>2. j \in Job /\ JobSound(rows, j)
      BY <1>0, <1>1, <1>3, <2>4, <2>7, DispatchIsSound
    <3>3. a.ofEntry => Dispatched(entry, j) \in Entry /\ Dispatched(entry, j).filled = 0
      BY <2>6, <3>2, DispatchedIsEntry
    <3>4. ChangesBook(e)
      BY <1>4, <2>2, <2>3, <3>1, <3>3
    <3>5. QED
      BY <1>0, <3>1, <3>2, <3>4, DispatchStep
  <2>8. CASE ~(owned[e] /\ CanFill(k, a.price, 0))
    <3>1. /\ book' = IF a.ofEntry THEN [book EXCEPT ![e][k] = entry] ELSE book
          /\ UNCHANGED <<jobs, faults>>
      BY <1>7, <2>5, <2>8 DEF ResumeActivation
    <3>2. ChangesBook(e)
      BY <1>4, <2>2, <2>3, <2>6, <3>1
    <3>3. QED
      BY <1>0, <3>1, <3>2, DispatchStep
  <2>9. QED
    BY <2>7, <2>8
<1>8. QED
  BY <1>6, <1>7 DEF ResumeActivation

-----------------------------------------------------------------------------
LEMMA EngineInvStep == EngineInv /\ [Next]_vars => EngineInv'
<1> SUFFICES ASSUME EngineInv, [Next]_vars PROVE EngineInv'
  OBVIOUS
<1>1. CASE UNCHANGED vars
  <2>1. UNCHANGED <<memory, jobs>> /\ SameFilled
    BY <1>1 DEF vars, memory, SameFilled
  <2>2. TypeOK'
    BY <1>1 DEF EngineInv, TypeOK, vars
  <2>3. \A e \in Engines : owned[e] => owned'[e]
    BY <1>1 DEF vars
  <2>4. QED
    BY <2>1, <2>2, <2>3, MemoryKept
<1>2. CASE \/ CloseSession \/ LeaseExpires
           \/ \E k \in Orders : EndOrder(k)
           \/ \E m \in events : Dispatch(m)
           \/ \E e \in Engines : LoseRoute(e) \/ Start(e)
  BY <1>2, OutsideStep
<1>3. ASSUME NEW e \in Engines, Resume(e) PROVE EngineInv'
  BY <1>3, ReadStep, UseStep, ActivateStep, ResumeStep DEF Resume
<1>4. ASSUME NEW e \in Engines, Maintain(e) PROVE EngineInv'
  BY <1>4, ReadStep, ScanUsed DEF Maintain
<1>5. ASSUME NEW e \in Engines, NEW k \in Orders, NEW price \in Prices, EvaluateOrder(e, k, price)
      PROVE  EngineInv'
  BY <1>5, EvaluateStep
<1>6. ASSUME NEW e \in Engines, Crash(e) \/ LoseLease(e) PROVE EngineInv'
  BY <1>6, LossStep
<1>7. ASSUME NEW j \in jobs, ProcessJob(j) PROVE EngineInv'
  BY <1>7, JobStep
<1>8. QED
  BY <1>1, <1>2, <1>3, <1>4, <1>5, <1>6, <1>7 DEF Next

LEMMA EngineInvAlways == Spec => []EngineInv
  BY EngineInvInit, EngineInvStep, PTL DEF Spec

\* The table, the messages, the books and the queue hold values of their
\* kind, for any number of engines and orders (the types of trading-engine.ts
\* and of the jobs of its queue).
THEOREM EngineTypeCorrect == Spec => []TypeOK
<1>1. EngineInv => TypeOK
  BY DEF EngineInv
<1>2. QED
  BY <1>1, EngineInvAlways, PTL

\* No unit of an order is dispatched by two jobs, whatever two engines read
\* late and dispatch at the same time (evaluateOrder and triggerExecution):
\* levels do not overlap and the queue has one job for each of them.
THEOREM UnitsAreDispatchedOnce == Spec => []UnitsDispatchedOnce
<1>1. EngineInv => UnitsDispatchedOnce
  <2>1. SUFFICES ASSUME EngineInv, NEW i \in jobs, NEW j \in jobs, i # j, i.order = j.order
                 PROVE  Units(i) \cap Units(j) = {}
    BY DEF UnitsDispatchedOnce
  <2>2. PICK k \in Orders : i.order = k /\ j.order = k
    BY <2>1 DEF EngineInv, TypeOK, Job
  <2>3. PICK m, n : m = i.key - i.quantity /\ n = j.key - j.quantity
    OBVIOUS
  <2>4. /\ i.key \in Nat /\ i.quantity \in Nat /\ j.key \in Nat /\ j.quantity \in Nat
        /\ AtLevel(k, m) /\ AtLevel(k, n)
        /\ i.quantity = ExecutableQty(k, m) /\ j.quantity = ExecutableQty(k, n)
    BY <2>1, <2>2, <2>3 DEF EngineInv, TypeOK, Job, JobsSound, JobSound, Dispatchable, Behind
  <2>5. m # n
    BY <2>1, <2>2, <2>3, <2>4 DEF EngineInv, JobsSound
  <2>6. CASE m < n
    <3>1. i.key <= j.key - j.quantity
      BY <2>3, <2>4, <2>6, LevelsApart
    <3>2. QED
      BY <2>4, <3>1 DEF Units
  <2>7. CASE n < m
    <3>1. j.key <= i.key - i.quantity
      BY <2>3, <2>4, <2>7, LevelsApart
    <3>2. QED
      BY <2>4, <3>1 DEF Units
  <2>8. QED
    BY <2>3, <2>4, <2>5, <2>6, <2>7
<1>2. QED
  BY <1>1, EngineInvAlways, PTL

\* Every job starts at a level the table has reached: an engine waits for its
\* fills (the expected quantity of a QUEUED order) and reads no row that is
\* ahead of the table.
THEOREM DispatchIsNeverAhead == Spec => []NeverAheadOfTheTable
<1>1. EngineInv => NeverAheadOfTheTable
  BY DEF EngineInv, JobsSound, JobSound, Dispatchable, Behind, NeverAheadOfTheTable
<1>2. QED
  BY <1>1, EngineInvAlways, PTL

\* No LIMIT or activated STOP_LIMIT order is executed beyond its limit, for
\* any spread, slippage and depth (canFillLimit and getExecutablePrice).
THEOREM PricesStayWithinLimit == Spec => []PriceWithinLimit
<1>1. EngineInv => PriceWithinLimit
  BY DEF EngineInv, JobsSound, JobSound, InLimit, PriceWithinLimit
<1>2. QED
  BY <1>1, EngineInvAlways, PTL

\* handleLeaseLoss empties the book, and no answer that comes later puts an
\* order back, for any number of answers under way.
THEOREM LostLeaseEmptiesEveryBook == Spec => []LostLeaseEmptiesTheBook
<1>1. EngineInv => LostLeaseEmptiesTheBook
  BY DEF EngineInv
<1>2. QED
  BY <1>1, EngineInvAlways, PTL

-----------------------------------------------------------------------------
(***************************************************************************)
(* The engine's table keeps the contract of OrderLifecycle, from the       *)
(* acceptance of the orders on.                                            *)
(***************************************************************************)

Contract == INSTANCE OrderLifecycle WITH
  Keys       <- Orders,
  Quantities <- UNION {1 .. Requested[k] : k \in Orders},
  status     <- [k \in Orders |-> rows[k].status],
  requested  <- Requested,
  filled     <- [k \in Orders |-> rows[k].filled]

\* Whatever the dispatcher, the engines and the worker do to the table orders,
\* in whatever order, is a step in the life of one order (Transitions of
\* order.service.ts, and fills that never exceed the quantity asked for).
RowsKeepTheContract == [][Contract!Next]_(Contract!vars)

LEMMA RowsAlone ==
  ASSUME [Next]_vars
  PROVE  \/ rows' = rows
         \/ \E k \in Orders : EndOrder(k)
         \/ \E m \in events : MarkPending(m)
         \/ \E e \in Engines : \E a \in activations[e] : ActivateStopLimit(e, a)
         \/ \E j \in jobs : ProcessJob(j)
<1>1. CASE UNCHANGED vars
  BY <1>1 DEF vars
<1>2. CASE CloseSession \/ LeaseExpires
  BY <1>2 DEF CloseSession, LeaseExpires, database
<1>3. ASSUME NEW m \in events, RouteAccepted(m) \/ RouteFill(m) PROVE rows' = rows
  BY <1>3 DEF RouteAccepted, RouteFill, database
<1>4. ASSUME NEW e \in Engines, LoseRoute(e) \/ Start(e) \/ Crash(e) \/ LoseLease(e)
      PROVE  rows' = rows
  BY <1>4 DEF LoseRoute, Start, Crash, LoseLease, database
<1>5. ASSUME NEW e \in Engines, ReadRoute(e) \/ Maintain(e) PROVE rows' = rows
  BY <1>5 DEF ReadRoute, Maintain, Scan, Hydrate, Reconcile, database
<1>6. ASSUME NEW e \in Engines, NEW r \in reads[e], UseRoute(e, r) PROVE rows' = rows
  BY <1>6 DEF UseRoute, database
<1>7. ASSUME NEW e \in Engines, NEW a \in activations[e], ResumeActivation(e, a) PROVE rows' = rows
  BY <1>7 DEF ResumeActivation, database
<1>8. ASSUME NEW e \in Engines, NEW k \in Orders, NEW price \in Prices, EvaluateOrder(e, k, price)
      PROVE  rows' = rows
  BY <1>8 DEF EvaluateOrder, database
<1>9. QED
  BY <1>1, <1>2, <1>3, <1>4, <1>5, <1>6, <1>7, <1>8 DEF Next, Dispatch, Resume

LEMMA ContractUntouched ==
  ASSUME \A k \in Orders : rows'[k].status = rows[k].status /\ rows'[k].filled = rows[k].filled
  PROVE  UNCHANGED Contract!vars
BY DEF Contract!vars

\* The row of one order changes to another status.
LEMMA StatusStep ==
  ASSUME TypeOK, NEW k \in Orders, NEW to, rows' = [rows EXCEPT ![k].status = to]
  PROVE  /\ to \in {"CANCELLED", "EXPIRED"} /\ rows[k].status \notin Ended => Contract!Next
         /\ to = "PENDING" /\ rows[k].status = "ACCEPTED" => Contract!Next
<1>1. rows \in [Orders -> Row] /\ rows[k] \in Row
  BY DEF TypeOK
<1>2. /\ rows'[k].status = to /\ rows'[k].filled = rows[k].filled
      /\ \A l \in Orders \ {k} : rows'[l] = rows[l]
  BY <1>1 DEF Row
<1>3. /\ [l \in Orders |-> rows'[l].filled] = [l \in Orders |-> rows[l].filled]
      /\ [l \in Orders |-> rows'[l].status] = [[l \in Orders |-> rows[l].status] EXCEPT ![k] = to]
  <2>1. \A l \in Orders : /\ rows'[l].filled = rows[l].filled
                          /\ rows'[l].status = IF l = k THEN to ELSE rows[l].status
    BY <1>2
  <2>2. PICK was, is : /\ was = [l \in Orders |-> rows[l].status]
                       /\ is = [l \in Orders |-> rows'[l].status]
    OBVIOUS
  <2>3. is = [was EXCEPT ![k] = to]
    BY <2>1, <2>2
  <2>4. QED
    BY <2>1, <2>2, <2>3
<1>4. ASSUME to \in {"CANCELLED", "EXPIRED"}, rows[k].status \notin Ended PROVE Contract!Next
  <2>1. rows[k].status \in {"ACCEPTED", "PENDING", "PARTIALLY_FILLED"}
    BY <1>1, <1>4 DEF Row, Executable, Ended
  <2>2. Contract!Withdraw(k, to)
    BY <1>3, <2>1 DEF Contract!Withdraw, Contract!Live, Contract!Executable
  <2>3. QED
    BY <1>4, <2>2 DEF Contract!Next
<1>5. ASSUME to = "PENDING", rows[k].status = "ACCEPTED" PROVE Contract!Next
  <2>1. Contract!Route(k)
    BY <1>3, <1>5 DEF Contract!Route
  <2>2. QED
    BY <2>1 DEF Contract!Next
<1>6. QED
  BY <1>4, <1>5

\* A job that is applied fills its quantity, which is at least one unit and no
\* more than the order has left.
LEMMA FillStep ==
  ASSUME TypeOK, JobsSound, NEW j \in jobs, Applies(j), rows' = Filled(j)
  PROVE  Contract!Next
<1> DEFINE k == j.order
<1>1. /\ k \in Orders /\ rows \in [Orders -> Row] /\ rows[k].filled \in Nat
      /\ j.key \in Nat /\ Requested[k] \in Nat
  BY OrdersAssumption DEF TypeOK, Job, Row
<1>2. PICK q \in Nat \ {0} : q = j.quantity
  <2>1. /\ Dispatchable(rows, k, j.key - j.quantity)
        /\ j.quantity = ExecutableQty(k, j.key - j.quantity)
    BY DEF JobsSound, JobSound
  <2>2. QED
    BY <1>1, <2>1, NextLevel DEF Dispatchable, Behind
<1>3. PICK now \in Nat : now = rows[k].filled + q
  BY <1>1, <1>2
<1>4. rows[k].status \in {"PENDING", "PARTIALLY_FILLED"} /\ now <= Requested[k]
  BY <1>2, <1>3 DEF Applies, Executable
<1>5. PICK to : to = IF now = Requested[k] THEN "FILLED" ELSE "PARTIALLY_FILLED"
  OBVIOUS
<1>6. rows' = [rows EXCEPT ![k].filled = now, ![k].status = to]
  BY <1>2, <1>3, <1>5 DEF Filled
<1>7. PICK r : r = [rows EXCEPT ![k].filled = now]
  OBVIOUS
<1>8. rows' = [r EXCEPT ![k].status = to]
  BY <1>6, <1>7
<1>9. /\ rows'[k].filled = now /\ rows'[k].status = to
      /\ \A l \in Orders \ {k} : rows'[l] = rows[l]
  BY <1>1, <1>7, <1>8 DEF Row
<1>10. /\ [l \in Orders |-> rows'[l].filled] = [[l \in Orders |-> rows[l].filled] EXCEPT ![k] = now]
       /\ [l \in Orders |-> rows'[l].status] = [[l \in Orders |-> rows[l].status] EXCEPT ![k] = to]
  BY <1>9
<1>11. q \in UNION {1 .. Requested[l] : l \in Orders}
  <2>1. q \in 1 .. Requested[k]
    BY <1>1, <1>2, <1>3, <1>4
  <2>2. QED
    BY <1>1, <2>1
<1>12. Contract!Execute(k, q)
  BY <1>1, <1>3, <1>4, <1>5, <1>10 DEF Contract!Execute, Contract!Executable
<1>13. QED
  BY <1>1, <1>11, <1>12 DEF Contract!Next

LEMMA ContractStep ==
  ASSUME EngineInv, [Next]_vars PROVE [Contract!Next]_(Contract!vars)
<1>1. TypeOK /\ JobsSound
  BY DEF EngineInv
<1>2. CASE rows' = rows
  BY <1>2, ContractUntouched
<1>3. ASSUME NEW k \in Orders, EndOrder(k) PROVE Contract!Next
  BY <1>1, <1>3, StatusStep DEF EndOrder
<1>4. ASSUME NEW m \in events, MarkPending(m) PROVE rows' = rows \/ Contract!Next
  <2>1. m.order \in Orders
    BY <1>1 DEF TypeOK, Message
  <2>2. \/ rows' = rows
        \/ isOpen /\ rows[m.order].status = "ACCEPTED" /\ rows' = [rows EXCEPT ![m.order].status = "PENDING"]
        \/ rows[m.order].status \notin Ended /\ rows' = [rows EXCEPT ![m.order].status = "EXPIRED"]
    BY <1>4 DEF MarkPending
  <2>3. QED
    BY <1>1, <2>1, <2>2, StatusStep
<1>5. ASSUME NEW e \in Engines, NEW a \in activations[e], ActivateStopLimit(e, a)
      PROVE  UNCHANGED Contract!vars
  <2>1. a.order \in Orders /\ rows \in [Orders -> Row]
    BY <1>1 DEF TypeOK, Activation
  <2>2. rows' = rows \/ rows' = [rows EXCEPT ![a.order].isActivated = TRUE]
    BY <1>5 DEF ActivateStopLimit
  <2>3. \A k \in Orders : rows'[k].status = rows[k].status /\ rows'[k].filled = rows[k].filled
    BY <2>1, <2>2 DEF Row
  <2>4. QED
    BY <2>3, ContractUntouched
<1>6. ASSUME NEW j \in jobs, ProcessJob(j) PROVE rows' = rows \/ Contract!Next
  BY <1>1, <1>6, AttemptFacts, FillStep
<1>7. QED
  BY <1>2, <1>3, <1>4, <1>5, <1>6, RowsAlone

\* For any engines, orders, depth and faults, every change of the table that
\* the way of an order through dispatcher, engine and worker makes is one
\* that the contract of an order allows: routed once and never back, filled
\* only while executable and never beyond what was asked for, withdrawn only
\* while live.
THEOREM EngineKeepsTheContract == Spec => RowsKeepTheContract
<1>1. QED
  BY ContractStep, EngineInvAlways, PTL DEF Spec, RowsKeepTheContract
=============================================================================
