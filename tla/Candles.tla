------------------------------ MODULE Candles -------------------------------
(***************************************************************************)
(* The candles of one minute, kept by aggregators that listen to the ticks *)
(* of one symbol.  Every worker process has an aggregator and gets every   *)
(* tick; the handlers of ticks do not wait for each other.  A handler      *)
(* first closes the older candles and then, in one statement, notes the    *)
(* receipt of its tick and adds it to its candle, unless the receipt was   *)
(* there.  The publication of the new row is in the module Chart.          *)
(***************************************************************************)
EXTENDS Integers, FiniteSets, FiniteSetsExt, Sums

CONSTANTS
  Aggregators,  \* the processes that listen
  Ticks,        \* the ids of ticks
  TickData,     \* minute, time, price and volume of each
  SessionMinutes,  \* the minutes of the session
  MaxDrops      \* bound: ticks not delivered, handlers that fail

Minutes == {TickData[t].minute : t \in Ticks}

ASSUME CandlesAssumption ==
  /\ TickData \in [Ticks -> [minute : Nat, time : Nat, price : Nat, volume : Nat]]
  /\ \A t, u \in Ticks : TickData[t].minute < TickData[u].minute =>
       TickData[t].time < TickData[u].time
  /\ SessionMinutes \subseteq Nat /\ MaxDrops \in Nat

VARIABLES
  candles,   \* table market_candles, by the minute
  receipts,  \* table market_tick_receipts
  handlers,  \* the handlers that run: aggregator, tick and the next statement
  heard,     \* the ticks each aggregator got
  drops

candlesVars == <<candles, receipts, handlers, heard, drops>>

NoCandle == [volume |-> 0]

CandlesInit ==
  /\ candles = [m \in Minutes |-> NoCandle] /\ receipts = {} /\ handlers = {}
  /\ heard = [a \in Aggregators |-> {}] /\ drops = 0

Exists(m) == candles[m] # NoCandle

\* A tick reaches an aggregator.  One outside of the session is ignored.
Hear(a, t) ==
  /\ t \notin heard[a]
  /\ heard' = [heard EXCEPT ![a] = @ \cup {t}]
  /\ \/ /\ handlers' = IF TickData[t].minute \in SessionMinutes
                       THEN handlers \cup {[by |-> a, tick |-> t, next |-> "close"]}
                       ELSE handlers
        /\ UNCHANGED drops
     \/ drops < MaxDrops /\ drops' = drops + 1 /\ UNCHANGED handlers
  /\ UNCHANGED <<candles, receipts>>

\* UPDATE: the open candles before the minute of the tick are closed.
CloseOlder(h) ==
  /\ h.next = "close"
  /\ candles' = [m \in Minutes |-> IF Exists(m) /\ m < TickData[h.tick].minute
                                   THEN [candles[m] EXCEPT !.isClosed = TRUE] ELSE candles[m]]
  /\ handlers' = (handlers \ {h}) \cup {[h EXCEPT !.next = "add"]}
  /\ UNCHANGED <<receipts, heard, drops>>

Larger(x, y) == IF x > y THEN x ELSE y
Smaller(x, y) == IF x < y THEN x ELSE y

FirstCandle(t) ==
  [open |-> t.price, high |-> t.price, low |-> t.price, close |-> t.price,
   volume |-> t.volume, isClosed |-> FALSE, last |-> t.time]

\* Mutant: the tick handled last gives the close.
WithTickClosing(c, t) ==
  [c EXCEPT !.high = Larger(@, t.price), !.low = Smaller(@, t.price), !.close = t.price,
            !.volume = @ + t.volume, !.last = Larger(@, t.time)]

WithTick(c, t) ==
  [c EXCEPT !.high = Larger(@, t.price), !.low = Smaller(@, t.price),
            !.close = IF t.time >= c.last THEN t.price ELSE @,
            !.volume = @ + t.volume, !.last = Larger(@, t.time)]

\* Receipt and candle in one statement.
AddTick(h) ==
  LET t == TickData[h.tick] IN
  /\ h.next = "add"
  /\ receipts' = receipts \cup {h.tick}
  /\ candles' = IF h.tick \in receipts THEN candles
                ELSE [candles EXCEPT ![t.minute] =
                        IF Exists(t.minute) THEN WithTick(@, t) ELSE FirstCandle(t)]
  /\ handlers' = handlers \ {h}
  /\ UNCHANGED <<heard, drops>>

\* A statement fails, or the process ends: the tick is not tried again.
HandlerFails(h) ==
  /\ drops < MaxDrops /\ drops' = drops + 1
  /\ handlers' = handlers \ {h}
  /\ UNCHANGED <<candles, receipts, heard>>

CandlesNext ==
  \/ \E a \in Aggregators, t \in Ticks : Hear(a, t)
  \/ \E h \in handlers : CloseOlder(h) \/ AddTick(h) \/ HandlerFails(h)

CandlesSpec == CandlesInit /\ [][CandlesNext]_candlesVars

-----------------------------------------------------------------------------
CandleRow ==
  [open : Nat, high : Nat, low : Nat, close : Nat, volume : Nat, isClosed : BOOLEAN, last : Nat]

CandlesTypeOK ==
  /\ candles \in [Minutes -> {NoCandle} \cup CandleRow]
  /\ receipts \subseteq Ticks
  /\ handlers \subseteq [by : Aggregators, tick : Ticks, next : {"close", "add"}]
  /\ heard \in [Aggregators -> SUBSET Ticks] /\ drops \in 0 .. MaxDrops

\* In whatever order ticks are handled, and by however many aggregators, a
\* candle tells the ticks with a receipt and no others, each one once; its
\* close is the price of a latest one (the two statements of handleMessage).
CandleTellsItsTicks ==
  \A m \in Minutes :
    LET ids == {t \in receipts : TickData[t].minute = m}
        told == {TickData[t] : t \in ids}
        volume == SumOf([t \in ids |-> TickData[t].volume]) IN
    IF told = {} THEN ~Exists(m)
    ELSE /\ Exists(m) /\ candles[m].volume = volume
         /\ candles[m].high = Max({t.price : t \in told})
         /\ candles[m].low = Min({t.price : t \in told})
         /\ \E t \in told : t.price = candles[m].close /\ t.time = Max({u.time : u \in told})
=============================================================================
