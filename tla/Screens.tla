------------------------------ MODULE Screens ------------------------------
(***************************************************************************)
(* A browser: the socket its pages share, and a panel (the open orders,    *)
(* the metrics or the positions) that fetches its data when it is mounted, *)
(* when the socket connects, and on the events it listens to.              *)
(*                                                                         *)
(* Only the terminal page enters the room of the portfolio (RecentTrades); *)
(* the socket stays in it when the user goes on to another page, until it  *)
(* breaks.  Requests may be answered, and events arrive, in any order.     *)
(* Ticks reach the terminal alone, which enters the room of a symbol and   *)
(* leaves it again, so the positions hear none; nobody sends               *)
(* PORTFOLIO_UPDATED.                                                      *)
(***************************************************************************)
EXTENDS Integers

CONSTANTS
  PanelSlots,  \* requests of the panel that may be in flight
  MaxChanges,  \* bound: changes of what the panel shows
  MaxTurns     \* bound: navigations, broken connections, failed requests

ASSUME ScreensAssumption == {MaxChanges, MaxTurns} \subseteq Nat

VARIABLES
  panel,    \* which panel it is
  changes,  \* the database: how often what the panel shows changed
  unsent,   \* events the panel listens to that were not broadcast yet, by their change
  place,    \* the page: "away", "terminal" or "dashboard"
  linked,   \* the socket is connected
  room,     \* it is "out" of the room, "joining", or "in" it
  asking,   \* each request: Vacant, Sent, or the changes its answer knows
  display,  \* the changes the panel knows, -1 when it shows none or an error
  best,     \* history: the changes some request that ended could know
  deaf,     \* history: one of them passed the panel by since it last sent a request
  silent,   \* history: the changes it is told nothing of
  turns

screensVars ==
  <<panel, changes, unsent, place, linked, room, asking, display, best, deaf, silent, turns>>

Vacant == -2
Sent == -1

Panels == {"orders", "metrics", "positions"}

\* Mutant: the open orders do not hear partial fills.
ListensToEnds ==
  [orders    |-> {"ORDER_ACCEPTED", "ORDER_PENDING", "ORDER_FILLED",
                  "ORDER_CANCELLED", "ORDER_EXPIRED"},
   metrics   |-> {"POSITION_UPDATED", "ORDER_FILLED", "PORTFOLIO_UPDATED"},
   positions |-> {"POSITION_UPDATED", "ORDER_FILLED", "MARKET_TICK"}]

Listens ==
  [orders    |-> {"ORDER_ACCEPTED", "ORDER_PENDING", "ORDER_FILLED",
                  "ORDER_PARTIALLY_FILLED", "ORDER_CANCELLED", "ORDER_EXPIRED"},
   metrics   |-> {"POSITION_UPDATED", "ORDER_FILLED", "PORTFOLIO_UPDATED"},
   positions |-> {"POSITION_UPDATED", "ORDER_FILLED", "MARKET_TICK"}]

\* The transactions that change what a panel shows, as the events they leave
\* for the dispatcher: one of the order, and for a fill one of its position.
Transaction(type) == [order |-> type, position |-> "NONE"]
Fills ==
  [order : {"ORDER_FILLED", "ORDER_PARTIALLY_FILLED"},
   position : {"POSITION_UPDATED", "POSITION_CLOSED"}]
Ends == {Transaction("ORDER_CANCELLED"), Transaction("ORDER_EXPIRED")}

Transactions ==
  [orders    |-> Fills \cup Ends \cup {Transaction("ORDER_PENDING"), Transaction("ORDER_ACTIVATED")},
   metrics   |-> Fills \cup Ends \cup {Transaction("ORDER_ACCEPTED")},
   positions |-> Fills]

\* History: the ones a panel is known to be told nothing of: the metrics and
\* the positions no partial fill that closes a position, the metrics no new,
\* cancelled or expired order, the open orders no activated stop limit.
ClosingPart == [order |-> "ORDER_PARTIALLY_FILLED", position |-> "POSITION_CLOSED"]
Untold ==
  [orders    |-> {Transaction("ORDER_ACTIVATED")},
   metrics   |-> Ends \cup {Transaction("ORDER_ACCEPTED"), ClosingPart},
   positions |-> {ClosingPart}]

Heard(events) == {of \in {"order", "position"} : events[of] \in Listens[panel]}

ScreensInit ==
  /\ panel \in Panels /\ changes = 0 /\ unsent = {} /\ place = "away" /\ linked = FALSE /\ room = "out"
  /\ asking = [i \in PanelSlots |-> Vacant] /\ display = -1
  /\ best = 0 /\ deaf = FALSE /\ silent = {} /\ turns = 0

Turned == turns < MaxTurns /\ turns' = turns + 1

\* The terminal has a panel of the orders, the dashboard has all three.
Mounted == place = "dashboard" \/ (place = "terminal" /\ panel = "orders")

\* fetchOrders: one more request.
FetchOrders ==
  /\ \E i \in PanelSlots : asking[i] = Vacant /\ asking' = [asking EXCEPT ![i] = Sent]
  /\ deaf' = FALSE

-----------------------------------------------------------------------------
\* The API: a transaction commits; the dispatcher broadcasts its events.

Commit(events) ==
  /\ changes < MaxChanges /\ changes' = changes + 1
  /\ unsent' = unsent \cup {[change |-> changes + 1, of |-> of] : of \in Heard(events)}
  /\ silent' = IF events \in Untold[panel] THEN silent \cup {changes + 1} ELSE silent

Change(events) ==
  /\ Commit(events)
  /\ UNCHANGED <<panel, place, linked, room, asking, display, best, deaf, turns>>

Hears == room = "in" /\ Mounted

Broadcast(e) ==
  /\ e \in unsent /\ unsent' = unsent \ {e}
  /\ IF Hears THEN FetchOrders
     ELSE deaf' = (deaf \/ (Mounted /\ room # "in")) /\ UNCHANGED asking
  /\ UNCHANGED <<panel, changes, place, linked, room, display, best, silent, turns>>

-----------------------------------------------------------------------------
\* The browser.

\* Another page is another panel; the socket remains.
Visit(p) ==
  /\ p # place /\ Turned /\ place' = p
  /\ UNCHANGED <<panel, changes, unsent, linked, silent>>
  /\ display' = -1 /\ best' = 0 /\ deaf' = FALSE
  /\ \E i \in PanelSlots :
       asking' = [j \in PanelSlots |-> IF j = i /\ Mounted' THEN Sent ELSE Vacant]
  /\ room' = IF p = "terminal" /\ linked /\ room = "out" THEN "joining" ELSE room

\* The panel fetches again; the terminal asks for the room again.
SocketConnects ==
  /\ ~linked /\ linked' = TRUE
  /\ IF Mounted THEN FetchOrders ELSE UNCHANGED <<asking, deaf>>
  /\ room' = IF place = "terminal" THEN "joining" ELSE "out"
  /\ UNCHANGED <<panel, changes, unsent, silent, place, display, best, turns>>

Joined ==
  /\ room = "joining" /\ room' = "in"
  /\ UNCHANGED <<panel, changes, unsent, silent, place, linked, asking, display, best, deaf, turns>>

SocketBreaks ==
  /\ linked /\ Turned /\ linked' = FALSE /\ room' = "out"
  /\ UNCHANGED <<panel, changes, unsent, silent, place, asking, display, best, deaf>>

\* handleCancel: the order is cancelled, and its answer sends a request.
CancelHere ==
  /\ panel = "orders" /\ Mounted /\ Commit(Transaction("ORDER_CANCELLED")) /\ FetchOrders
  /\ UNCHANGED <<panel, place, linked, room, display, best, turns>>

Query(i) ==
  /\ asking[i] = Sent /\ asking' = [asking EXCEPT ![i] = changes]
  /\ UNCHANGED <<panel, changes, unsent, silent, place, linked, room, display, best, deaf, turns>>

ShowAnswer(i) ==
  /\ asking[i] >= 0 /\ asking' = [asking EXCEPT ![i] = Vacant]
  /\ display' = asking[i] /\ best' = IF asking[i] > best THEN asking[i] ELSE best
  /\ UNCHANGED <<panel, changes, unsent, silent, place, linked, room, deaf, turns>>

\* A request fails: the panel is unavailable until the next answer.
RequestFails(i) ==
  /\ asking[i] # Vacant /\ Turned /\ asking' = [asking EXCEPT ![i] = Vacant]
  /\ display' = -1 /\ best' = changes
  /\ UNCHANGED <<panel, changes, unsent, silent, place, linked, room, deaf>>

ScreensNext ==
  \/ \E events \in Transactions[panel] : Change(events)
  \/ SocketConnects \/ Joined \/ SocketBreaks \/ CancelHere
  \/ \E e \in unsent : Broadcast(e)
  \/ \E p \in {"away", "terminal", "dashboard"} : Visit(p)
  \/ \E i \in PanelSlots : Query(i) \/ ShowAnswer(i) \/ RequestFails(i)

ScreensSpec == ScreensInit /\ [][ScreensNext]_screensVars

-----------------------------------------------------------------------------
ScreensTypeOK ==
  /\ panel \in Panels /\ changes \in 0 .. MaxChanges /\ silent \subseteq 1 .. MaxChanges
  /\ unsent \subseteq [change : 1 .. MaxChanges, of : {"order", "position"}] /\ turns \in 0 .. MaxTurns
  /\ place \in {"away", "terminal", "dashboard"} /\ room \in {"out", "joining", "in"}
  /\ asking \in [PanelSlots -> Vacant .. MaxChanges] /\ display \in -1 .. MaxChanges
  /\ best \in 0 .. MaxChanges
  /\ {linked, deaf} \subseteq BOOLEAN

\* Once every event is broadcast and every request answered, the panel shows
\* the data as they are, unless it says that it failed, an older answer came
\* after a newer one, an event it listens to passed while the socket was outside
\* the room (always so on a dashboard opened before the terminal, or after a
\* reconnect there), or every change since its data is of a kind it is told
\* nothing of (Untold): a listener that is missing for any other one shows here.
StaleScreenHasACause ==
  Mounted /\ unsent = {} /\ (\A i \in PanelSlots : asking[i] = Vacant)
    => \/ display = -1 \/ display < best \/ deaf
       \/ (display + 1) .. changes \subseteq silent
=============================================================================
