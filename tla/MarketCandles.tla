--------------------------- MODULE MarketCandles ----------------------------
(***************************************************************************)
(* The query for candles: rows of one minute are read from the end, put    *)
(* together into buckets of the timeframe that was asked for, and cut to   *)
(* the limit.  A row is known by its minute, days * DayMinutes + minutes   *)
(* since the opening; what a bucket makes of open, high, low, close and    *)
(* volume is told by the rows it is made of, their first and their last.   *)
(***************************************************************************)
EXTENDS Integers, FiniteSets, FiniteSetsExt

CONSTANTS
  DayMinutes,    \* the minutes of a session
  Days,          \* bound: the days of the table
  BucketSize,    \* [timeframes -> minutes]; "1d" is one bucket a day
  MaxLimit,      \* cappedLimit: 1000
  Limits         \* the limits a caller asks for

ASSUME MarketCandlesAssumption ==
  /\ DayMinutes \in Nat \ {0} /\ Days \in Nat /\ MaxLimit \in Nat \ {0} /\ Limits \subseteq Int
  /\ \A f \in DOMAIN BucketSize : BucketSize[f] \in 1 .. DayMinutes

VARIABLES
  stored,   \* the minutes with a row
  open,     \* of these, the open ones
  reply     \* what the last request got

marketCandlesVars == <<stored, open, reply>>

NoReply == [status |-> 0]

MarketCandlesInit == stored = {} /\ open = {} /\ reply = NoReply

\* The aggregator adds a row, in any order, and closes the older ones or not
\* yet.
Store(m) ==
  /\ m \notin stored
  /\ stored' = stored \cup {m}
  /\ open' \in {{k \in open : k > m} \cup {m}, open \cup {m}}
  /\ reply' = NoReply

\* getBucketBoundary
Bucket(m, f) == (m \div DayMinutes) * DayMinutes
                + ((m % DayMinutes) \div BucketSize[f]) * BucketSize[f]

\* The last n of a set of minutes: orderBy desc, take n.
Latest(S, n) == {m \in S : Cardinality({k \in S : k > m}) < n}

\* Mutant: the last minute of a bucket is not counted.
BaseLimitShort(limit, f) == limit * (IF BucketSize[f] > 1 THEN BucketSize[f] - 1 ELSE 1)

BaseLimit(limit, f) == limit * BucketSize[f]

Capped(limit) == IF limit < MaxLimit THEN limit ELSE MaxLimit

\* aggregateCandles: a bucket is open when its last row is.
Aggregated(rows, f) ==
  {[start |-> Bucket(m, f), rows |-> {k \in rows : Bucket(k, f) = Bucket(m, f)},
    isClosed |-> Max({k \in rows : Bucket(k, f) = Bucket(m, f)}) \notin open] : m \in rows}

\* slice(-limit) of the buckets in their order.
LastBuckets(buckets, n) ==
  {b \in buckets : Cardinality({c \in buckets : c.start > b.start}) < n}

\* MarketController.getCandles with its checks, and the query.
GetCandles(f, limit) ==
  reply' = IF limit <= 0 THEN [status |-> 400]
           ELSE LET rows == Latest(stored, BaseLimit(Capped(limit), f)) IN
                [status |-> 200, timeframe |-> f, limit |-> Capped(limit),
                 candles |-> LastBuckets(Aggregated(rows, f), Capped(limit))]

Request(f, limit) == GetCandles(f, limit) /\ UNCHANGED <<stored, open>>

MarketCandlesNext ==
  \/ \E m \in 0 .. Days * DayMinutes - 1 : Store(m)
  \/ \E f \in DOMAIN BucketSize, limit \in Limits : Request(f, limit)

MarketCandlesSpec == MarketCandlesInit /\ [][MarketCandlesNext]_marketCandlesVars

-----------------------------------------------------------------------------
MarketCandlesTypeOK ==
  /\ stored \subseteq 0 .. Days * DayMinutes - 1 /\ open \subseteq stored
  /\ reply.status \in {0, 200, 400}

\* A reply has the most recent buckets, as many as were asked for when there
\* are as many, and every one of them is made of all its rows: neither the
\* limit on rows, nor a last bucket of a day that is shorter, nor a minute
\* without a row cuts one (MarketCandleService.getCandles).
BucketsAreWhole ==
  reply.status = 200 =>
    LET f == reply.timeframe
        starts == {Bucket(m, f) : m \in stored} IN
    /\ {b.start : b \in reply.candles} = Latest(starts, reply.limit)
    /\ \A b \in reply.candles : b.rows = {m \in stored : Bucket(m, f) = b.start}
=============================================================================
