------------------------------- MODULE Chart --------------------------------
(***************************************************************************)
(* The chart of the web terminal for one symbol: a map of candles, fed by  *)
(* answers of the candle query and by candles of one minute that come over *)
(* the socket, in any order, while the user selects timeframes and the     *)
(* connection comes and goes.  An aggregator publishes a candle after its  *)
(* row is committed; it may die in between, the call may fail, and the     *)
(* channel keeps nothing for a subscriber that is away.                    *)
(*                                                                         *)
(* The server's rows grow as the module Candles says; of a candle its      *)
(* volume is kept, which tells its versions apart.  "wide" stands for all  *)
(* longer timeframes: one bucket of all minutes, at the time of the first. *)
(***************************************************************************)
EXTENDS Integers, FiniteSets, FiniteSetsExt, Sums

CONSTANTS
  LastMinute,   \* the minutes are 0 .. LastMinute
  MaxVolume,    \* bound: the volume of all candles
  Fetches,      \* bound: the queries that may be under way
  MaxSwitches   \* bound: timeframes selected, connections and candles lost, queries failed

ASSUME ChartAssumption ==
  LastMinute \in Nat /\ MaxVolume \in Nat \ {0} /\ MaxSwitches \in Nat

VARIABLES
  rows,       \* the server's candles of one minute
  updates,    \* rows committed and not yet published
  messages,   \* candles published and not yet delivered
  shown,      \* dataMapRef: candles by their time
  timeframe, connected, loading,
  fetches,    \* the queries under way
  gap,        \* history: minutes of which a candle was missed and not made up for
  late,       \* history: minutes that got a tick after they were closed
  switches

chartVars == <<rows, updates, messages, shown, timeframe, connected, loading, fetches, gap,
               late, switches>>

None == [volume |-> 0]
NoFetch == [stage |-> "none"]
ChartMinutes == 0 .. LastMinute
Present(row) == row # None

\* Every candle carries the timeframe it belongs to.
Candle(f, volume, isClosed) == [timeframe |-> f, volume |-> volume, isClosed |-> isClosed]

VolumeOf(S) == SumOf([m \in S |-> rows[m].volume])

\* The answer of the server for a timeframe.
History(f) ==
  LET present == {m \in ChartMinutes : Present(rows[m])} IN
  [m \in ChartMinutes |->
     IF f = "1m" THEN rows[m]
     ELSE IF m = 0 /\ present # {}
     THEN Candle("wide", VolumeOf(present), rows[Max(present)].isClosed) ELSE None]

\* History: an answer covers a minute when it makes up for the candles of it
\* that were missed: it is asked for over a live connection, and none is missed
\* or ignored since it was computed.
Fetch(f) ==
  [stage |-> "sent", timeframe |-> f, covers |-> IF connected' THEN ChartMinutes ELSE {}]

Uncovered ==
  [i \in Fetches |-> IF fetches[i] = NoFetch THEN NoFetch ELSE [fetches[i] EXCEPT !.covers = {}]]

ChartInit ==
  /\ rows = [m \in ChartMinutes |-> None] /\ updates = {} /\ messages = {} /\ shown = rows
  /\ timeframe = "1m" /\ connected = FALSE /\ loading = FALSE
  /\ fetches = [i \in Fetches |-> NoFetch] /\ gap = ChartMinutes
  /\ late = {} /\ switches = 0

Idle(i) == fetches[i] = NoFetch /\ \A j \in Fetches : j < i => fetches[j] # NoFetch

-----------------------------------------------------------------------------
\* The server: an aggregator closes the minutes before a tick, which it tells
\* nobody, adds the tick, and publishes the row when that is done.
CloseMinutes(m) ==
  /\ rows' = [k \in ChartMinutes |-> IF Present(rows[k]) /\ k < m
                                     THEN [rows[k] EXCEPT !.isClosed = TRUE] ELSE rows[k]]
  /\ rows' # rows
  /\ UNCHANGED <<updates, messages, shown, timeframe, connected, loading, fetches, gap, late, switches>>

AddVolume(m) ==
  /\ VolumeOf(ChartMinutes) < MaxVolume
  /\ rows' = [rows EXCEPT ![m] = Candle("1m", @.volume + 1, Present(@) /\ @.isClosed)]
  /\ updates' = updates \cup {[at |-> m, candle |-> rows'[m]]}
  /\ late' = IF Present(rows[m]) /\ rows[m].isClosed THEN late \cup {m} ELSE late
  /\ UNCHANGED <<messages, shown, timeframe, connected, loading, fetches, gap, switches>>

PublishCandle(x) ==
  /\ x \in updates /\ updates' = updates \ {x} /\ messages' = messages \cup {x}
  /\ UNCHANGED <<rows, shown, timeframe, connected, loading, fetches, gap, late, switches>>

\* The aggregator dies before it publishes, the call fails and is logged, or
\* the gateway is not subscribed at that moment.
LoseCandle(x) ==
  /\ x \in updates \cup messages /\ switches < MaxSwitches /\ switches' = switches + 1
  /\ updates' = updates \ {x} /\ messages' = messages \ {x}
  /\ gap' = gap \cup {x.at}
  /\ fetches' = [i \in Fetches |-> IF fetches[i].stage = "served"
                                   THEN [fetches[i] EXCEPT !.covers = @ \ {x.at}] ELSE fetches[i]]
  /\ UNCHANGED <<rows, shown, timeframe, connected, loading, late>>

ServeFetch(i) ==
  /\ fetches[i].stage = "sent"
  /\ fetches' = [fetches EXCEPT ![i] = [stage |-> "served", timeframe |-> @.timeframe,
                                        covers |-> @.covers, data |-> History(@.timeframe)]]
  /\ UNCHANGED <<rows, updates, messages, shown, timeframe, connected, loading, gap, late, switches>>

-----------------------------------------------------------------------------
\* Mutant: the candle that comes last is shown.
AcceptsAny(old, new) == ~(Present(old) /\ old.isClosed /\ ~new.isClosed)

\* mergeCandle: prefer a closed candle, otherwise the larger volume.
Accepts(old, new) ==
  Present(old) => /\ ~(old.isClosed /\ ~new.isClosed)
                  /\ ~(old.volume > new.volume /\ ~new.isClosed)

Merged(old, new) == IF Present(new) /\ Accepts(old, new) THEN new ELSE old

\* The candles of an answer are merged, whatever timeframe is selected now.
AnswerFetch(i) ==
  /\ fetches[i].stage = "served"
  /\ shown' = [m \in ChartMinutes |-> Merged(shown[m], fetches[i].data[m])]
  /\ gap' = gap \ fetches[i].covers
  /\ loading' = FALSE
  /\ fetches' = [fetches EXCEPT ![i] = NoFetch]
  /\ UNCHANGED <<rows, updates, messages, timeframe, connected, late, switches>>

FetchFails(i) ==
  /\ fetches[i] # NoFetch /\ switches < MaxSwitches /\ switches' = switches + 1
  /\ loading' = FALSE
  /\ fetches' = [fetches EXCEPT ![i] = NoFetch]
  /\ UNCHANGED <<rows, updates, messages, shown, timeframe, connected, gap, late>>

\* handleMarketCandle; without a connection the message is lost.  The candle as
\* the row is now makes up for the ones before it.
Deliver(x) ==
  /\ x \in messages /\ messages' = messages \ {x}
  /\ shown' = IF connected /\ timeframe = "1m"
              THEN [shown EXCEPT ![x.at] = Merged(@, x.candle)] ELSE shown
  /\ gap' = IF connected /\ timeframe = "1m" /\ x.candle.volume = rows[x.at].volume
            THEN gap \ {x.at} ELSE gap
  /\ UNCHANGED <<rows, updates, timeframe, connected, loading, fetches, late, switches>>

\* A timeframe is selected: the map is cleared and the history fetched.
Select(f) ==
  /\ f # timeframe /\ switches < MaxSwitches /\ switches' = switches + 1
  /\ timeframe' = f /\ shown' = [m \in ChartMinutes |-> None]
  /\ gap' = ChartMinutes /\ loading' = TRUE /\ UNCHANGED connected
  /\ \E i \in Fetches : Idle(i) /\ fetches' = [Uncovered EXCEPT ![i] = Fetch(f)]
  /\ UNCHANGED <<rows, updates, messages, late>>

\* The socket connects: the history is fetched again unless an answer is
\* awaited.
Connect ==
  /\ ~connected /\ connected' = TRUE
  /\ IF loading THEN UNCHANGED <<loading, fetches>>
     ELSE /\ loading' = TRUE
          /\ \E i \in Fetches : Idle(i) /\ fetches' = [fetches EXCEPT ![i] = Fetch(timeframe)]
  /\ UNCHANGED <<rows, updates, messages, shown, timeframe, gap, late, switches>>

Disconnect ==
  /\ connected /\ switches < MaxSwitches /\ switches' = switches + 1
  /\ connected' = FALSE /\ gap' = ChartMinutes
  /\ fetches' = Uncovered
  /\ UNCHANGED <<rows, updates, messages, shown, timeframe, loading, late>>

\* The button of an error message (the message is not modelled: the button
\* may be there whenever nothing loads).
Retry ==
  /\ ~loading /\ loading' = TRUE /\ UNCHANGED connected
  /\ \E i \in Fetches : Idle(i) /\ fetches' = [fetches EXCEPT ![i] = Fetch(timeframe)]
  /\ UNCHANGED <<rows, updates, messages, shown, timeframe, gap, late, switches>>

ChartNext ==
  \/ \E m \in ChartMinutes : CloseMinutes(m) \/ AddVolume(m)
  \/ \E i \in Fetches : ServeFetch(i) \/ AnswerFetch(i) \/ FetchFails(i)
  \/ \E x \in updates : PublishCandle(x)
  \/ \E x \in messages : Deliver(x)
  \/ \E x \in updates \cup messages : LoseCandle(x)
  \/ \E f \in {"1m", "wide"} : Select(f)
  \/ Connect \/ Disconnect \/ Retry

ChartSpec == ChartInit /\ [][ChartNext]_chartVars

-----------------------------------------------------------------------------
Timeframes == {"1m", "wide"}

Row == {None} \cup [timeframe : Timeframes, volume : Nat, isClosed : BOOLEAN]

ChartQuery ==
  {NoFetch} \cup [stage : {"sent"}, timeframe : Timeframes, covers : SUBSET ChartMinutes]
    \cup [stage : {"served"}, timeframe : Timeframes, covers : SUBSET ChartMinutes,
          data : [ChartMinutes -> Row]]

ChartTypeOK ==
  /\ rows \in [ChartMinutes -> Row] /\ shown \in [ChartMinutes -> Row]
  /\ updates \subseteq [at : ChartMinutes, candle : Row]
  /\ messages \subseteq [at : ChartMinutes, candle : Row]
  /\ timeframe \in Timeframes /\ connected \in BOOLEAN /\ loading \in BOOLEAN
  /\ gap \subseteq ChartMinutes /\ late \subseteq ChartMinutes /\ switches \in 0 .. MaxSwitches
  /\ fetches \in [Fetches -> ChartQuery]

\* No candle of the minute is under way, none was missed and not made up for,
\* none came after the minute was closed (the versions of a closed candle are
\* shown in the order they come in), and no answer for another timeframe put a
\* candle in its place.
Quiet(m) ==
  /\ m \notin gap \cup late /\ \A x \in updates \cup messages : x.at # m
  /\ Present(shown[m]) => shown[m].timeframe = timeframe

\* Then the chart shows the candle of the minute as the server has it, in
\* whatever order candles, answers and reconnections came (mergeCandle); but
\* that it is closed meanwhile is told to nobody.
ChartCatchesUp ==
  timeframe = "1m" =>
    \A m \in ChartMinutes : Present(rows[m]) /\ Quiet(m) => shown[m].volume = rows[m].volume
=============================================================================
