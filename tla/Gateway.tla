------------------------------ MODULE Gateway ------------------------------
(***************************************************************************)
(* The WebSocket gateway of one API process (WebSocketServer): the limit   *)
(* on the connections of an address, and the rooms of a socket.            *)
(*                                                                         *)
(* A handler runs to its first await; handlers of packets that arrived     *)
(* together all do so before the first of them goes on, and they go on in  *)
(* the order in which they waited.  A look-up in the database takes longer *)
(* and may be overtaken.  socket.io (external) forgets the rooms of a      *)
(* socket when it disconnects, and a later join of that socket is void.    *)
(***************************************************************************)
EXTENDS Integers, Sequences, FiniteSets

CONSTANTS
  Sockets,           \* connections from one address
  Markets,           \* symbols a client may name
  Folios,            \* portfolios
  OwnerOf,           \* the sockets of the owner of each portfolio
  ConnectionLimit,   \* connections of an address in a minute
  MaxSubscriptions,  \* MAX_MARKET_SUBSCRIPTIONS_PER_SOCKET
  MaxBurst,          \* bound, for each socket: handlers that wait
  MaxRequests,       \* bound: requests counted in a minute
  MaxFaults          \* bound: Redis commands that fail and crashes

ASSUME GatewayAssumption ==
  /\ Markets \cap Folios = {} /\ OwnerOf \in [Folios -> SUBSET Sockets]
  /\ ConnectionLimit \in Nat /\ MaxSubscriptions \in Nat \ {0}
  /\ MaxBurst \in [Sockets -> Nat \ {0}] /\ {MaxRequests, MaxFaults} \subseteq Nat

VARIABLES
  requests,       \* Redis: rl:ws:conn of the address, 0 when there is no key
  requestsEnd,    \* whether the key expires
  link,           \* each socket: "out", "first" or "later" (counted), "in"
  rooms,          \* socket.io: the rooms it is in
  subscriptions,  \* socket.data.marketSubscriptions
  waiting,        \* its handlers that wait, oldest first
  lookups,        \* the portfolios its handlers look up
  faults

gatewayVars ==
  <<requests, requestsEnd, link, rooms, subscriptions, waiting, lookups, faults>>

GatewayInit ==
  /\ requests = 0 /\ requestsEnd = FALSE /\ faults = 0
  /\ link = [s \in Sockets |-> "out"] /\ rooms = [s \in Sockets |-> {}]
  /\ subscriptions = [s \in Sockets |-> {}] /\ waiting = [s \in Sockets |-> <<>>]
  /\ lookups = [s \in Sockets |-> {}]

\* What a socket has: nothing before it connects and after it disconnects.
Fresh(s, l) ==
  /\ link' = [link EXCEPT ![s] = l]
  /\ rooms' = [rooms EXCEPT ![s] = {}] /\ subscriptions' = [subscriptions EXCEPT ![s] = {}]
  /\ waiting' = [waiting EXCEPT ![s] = <<>>] /\ lookups' = [lookups EXCEPT ![s] = {}]

NoRooms == UNCHANGED <<rooms, subscriptions, waiting, lookups>>

-----------------------------------------------------------------------------
\* The limit of setupAuthentication.

Knock(s) ==
  /\ link[s] = "out" /\ requests < MaxRequests
  /\ requests' = requests + 1
  /\ link' = [link EXCEPT ![s] = IF requests = 0 THEN "first" ELSE
                                 IF requests < ConnectionLimit THEN "later" ELSE "out"]
  /\ UNCHANGED <<requestsEnd, faults>> /\ NoRooms

\* expire is called by the connection that found the counter at 1.
Expires(s) == requestsEnd \/ link[s] = "first"

\* A token is missing or invalid, or the socket is connected.
Admit(s) ==
  /\ link[s] \in {"first", "later"}
  /\ requestsEnd' = Expires(s)
  /\ \E ok \in BOOLEAN : Fresh(s, IF ok THEN "in" ELSE "out")
  /\ UNCHANGED <<requests, faults>>

\* A command fails: the limit is not enforced.
FailOpen(s) ==
  /\ link[s] \in {"out", "first"} /\ faults < MaxFaults /\ faults' = faults + 1
  /\ \E ok \in BOOLEAN : Fresh(s, IF ok THEN "in" ELSE "out")
  /\ UNCHANGED <<requests, requestsEnd>>

Minute ==
  /\ requestsEnd /\ requests' = 0 /\ requestsEnd' = FALSE
  /\ UNCHANGED <<link, faults>> /\ NoRooms

-----------------------------------------------------------------------------
\* Rooms.

CanStart(s) ==
  link[s] = "in" /\ Len(waiting[s]) + Cardinality(lookups[s]) < MaxBurst[s]

Wait(s, op, k) == waiting' = [waiting EXCEPT ![s] = Append(@, <<op, k>>)]

JoinMarket(s, k) ==
  /\ CanStart(s)
  /\ k \notin subscriptions[s] /\ Cardinality(subscriptions[s]) < MaxSubscriptions
  /\ rooms' = [rooms EXCEPT ![s] = @ \cup {k}]
  /\ Wait(s, "join", k)
  /\ UNCHANGED <<requests, requestsEnd, link, subscriptions, lookups, faults>>

LeaveMarket(s, k) ==
  /\ CanStart(s)
  /\ rooms' = [rooms EXCEPT ![s] = @ \ {k}]
  /\ Wait(s, "leave", k)
  /\ UNCHANGED <<requests, requestsEnd, link, subscriptions, lookups, faults>>

\* Mutant: leave_market forgets to delete the subscription.
ResumedWithoutDelete(old, op, k) == IF op = "join" THEN old \cup {k} ELSE old

\* After its await join_market adds the subscription, leave_market deletes it.
Resumed(old, op, k) == IF op = "join" THEN old \cup {k} ELSE old \ {k}

GoOn(s) ==
  /\ waiting[s] # <<>>
  /\ subscriptions' =
       [subscriptions EXCEPT ![s] = Resumed(@, Head(waiting[s])[1], Head(waiting[s])[2])]
  /\ waiting' = [waiting EXCEPT ![s] = Tail(@)]
  /\ UNCHANGED <<requests, requestsEnd, link, rooms, lookups, faults>>

JoinPortfolio(s, f) ==
  /\ CanStart(s) /\ f \notin lookups[s]
  /\ lookups' = [lookups EXCEPT ![s] = @ \cup {f}]
  /\ UNCHANGED <<requests, requestsEnd, link, rooms, subscriptions, waiting, faults>>

\* The look-up is answered (or fails): only an owner enters the room.
Found(s, f) ==
  /\ f \in lookups[s]
  /\ lookups' = [lookups EXCEPT ![s] = @ \ {f}]
  /\ rooms' \in {rooms, [rooms EXCEPT ![s] = @ \cup (IF s \in OwnerOf[f] THEN {f} ELSE {})]}
  /\ UNCHANGED <<requests, requestsEnd, link, subscriptions, waiting, faults>>

DropSocket(s) ==
  /\ link[s] = "in" /\ Fresh(s, "out")
  /\ UNCHANGED <<requests, requestsEnd, faults>>

GatewayCrash ==
  /\ faults < MaxFaults /\ faults' = faults + 1
  /\ link' = [s \in Sockets |-> "out"] /\ rooms' = [s \in Sockets |-> {}]
  /\ subscriptions' = [s \in Sockets |-> {}] /\ waiting' = [s \in Sockets |-> <<>>]
  /\ lookups' = [s \in Sockets |-> {}]
  /\ UNCHANGED <<requests, requestsEnd>>

GatewayNext ==
  \/ Minute \/ GatewayCrash
  \/ \E s \in Sockets :
       \/ Knock(s) \/ Admit(s) \/ FailOpen(s) \/ GoOn(s) \/ DropSocket(s)
       \/ \E k \in Markets : JoinMarket(s, k) \/ LeaveMarket(s, k)
       \/ \E f \in Folios : JoinPortfolio(s, f) \/ Found(s, f)

GatewaySpec == GatewayInit /\ [][GatewayNext]_gatewayVars

-----------------------------------------------------------------------------
GatewayTypeOK ==
  /\ requests \in 0 .. MaxRequests /\ requestsEnd \in BOOLEAN /\ faults \in 0 .. MaxFaults
  /\ link \in [Sockets -> {"out", "first", "later", "in"}]
  /\ rooms \in [Sockets -> SUBSET (Markets \cup Folios)]
  /\ subscriptions \in [Sockets -> SUBSET Markets]
  /\ waiting \in [Sockets -> Seq({"join", "leave"} \X Markets)]
  /\ lookups \in [Sockets -> SUBSET Folios]

Joining(s) ==
  {waiting[s][i][2] : i \in {j \in 1 .. Len(waiting[s]) : waiting[s][j][1] = "join"}}

\* However join_market and leave_market of a socket overlap, once none of them
\* waits the subscriptions that count against the limit are the market rooms
\* the socket is in; a burst passes the limit by its own length at most, each
\* packet of it having been checked before the first was added.
SubscriptionsMatchRooms ==
  \A s \in Sockets :
    /\ waiting[s] = <<>> => rooms[s] \cap Markets = subscriptions[s]
    /\ Cardinality(subscriptions[s] \cup Joining(s)) < MaxSubscriptions + MaxBurst[s]

\* An address is not shut out for good: its counter expires, or will once a
\* handshake in progress goes on, unless a command failed or a process crashed
\* between incr and expire.
CounterExpires ==
  requests > 0 /\ faults = 0 => requestsEnd \/ \E s \in Sockets : link[s] = "first"

\* The two things the gateway keeps for its clients agree with what they stand
\* for: the subscriptions with the rooms, the counter with the minute.
GatewayKeepsItsBooks == SubscriptionsMatchRooms /\ CounterExpires
=============================================================================
