--------------------------- MODULE ClientsProofs ----------------------------
(***************************************************************************)
(* Theorems about what the API's clients deal with: the sockets of the     *)
(* gateway, registration, the webhooks, the panels of a browser, the pages *)
(* of a listing.  Each component is closed; its theorems are those of its  *)
(* own specification.                                                      *)
(***************************************************************************)
EXTENDS Gateway, Accounts, Webhooks, Screens, Listings, FiniteSetTheorems, SequenceTheorems,
        TLAPS

-----------------------------------------------------------------------------
(***************************************************************************)
(* Theorems about the gateway: types, the subscriptions of a socket        *)
(* against its rooms and against their limit, and the counter of an        *)
(* address against the minute it counts.                                   *)
(***************************************************************************)

Handler == {"join", "leave"} \X Markets

LEMMA GatewayTypeInit == GatewayInit => GatewayTypeOK
<1> SUFFICES ASSUME GatewayInit PROVE GatewayTypeOK
  OBVIOUS
<1>1. waiting \in [Sockets -> Seq(Handler)]
  BY EmptySeq DEF GatewayInit
<1>2. 0 \in 0 .. MaxRequests /\ 0 \in 0 .. MaxFaults
  BY GatewayAssumption
<1>3. QED
  BY <1>1, <1>2 DEF GatewayInit, GatewayTypeOK, Handler

\* What a socket starts with again is of the right type.
LEMMA FreshType ==
  ASSUME GatewayTypeOK, NEW s \in Sockets, NEW l \in {"out", "first", "later", "in"}, Fresh(s, l)
  PROVE  /\ link' \in [Sockets -> {"out", "first", "later", "in"}]
         /\ rooms' \in [Sockets -> SUBSET (Markets \cup Folios)]
         /\ subscriptions' \in [Sockets -> SUBSET Markets]
         /\ waiting' \in [Sockets -> Seq(Handler)]
         /\ lookups' \in [Sockets -> SUBSET Folios]
<1>1. <<>> \in Seq(Handler)
  BY EmptySeq
<1>2. QED
  BY <1>1 DEF Fresh, GatewayTypeOK, Handler

LEMMA GatewayTypeStep == GatewayTypeOK /\ [GatewayNext]_gatewayVars => GatewayTypeOK'
<1> SUFFICES ASSUME GatewayTypeOK, [GatewayNext]_gatewayVars
             PROVE  GatewayTypeOK'
  OBVIOUS
<1>0. waiting \in [Sockets -> Seq(Handler)]
  BY DEF GatewayTypeOK, Handler
<1>1. CASE Minute
  <2>1. 0 \in 0 .. MaxRequests
    BY GatewayAssumption
  <2>2. QED
    BY <1>1, <2>1 DEF Minute, NoRooms, GatewayTypeOK
<1>2. CASE GatewayCrash
  <2>1. waiting' \in [Sockets -> Seq(Handler)]
    BY <1>2, EmptySeq DEF GatewayCrash
  <2>2. faults' \in 0 .. MaxFaults
    BY <1>2, GatewayAssumption DEF GatewayCrash, GatewayTypeOK
  <2>3. QED
    BY <1>2, <2>1, <2>2 DEF GatewayCrash, GatewayTypeOK, Handler
<1>3. ASSUME NEW s \in Sockets, Knock(s) PROVE GatewayTypeOK'
  <2>1. requests' \in 0 .. MaxRequests
    BY <1>3, GatewayAssumption DEF Knock, GatewayTypeOK
  <2>2. QED
    BY <1>3, <2>1 DEF Knock, NoRooms, GatewayTypeOK
<1>4. ASSUME NEW s \in Sockets, Admit(s) PROVE GatewayTypeOK'
  <2>1. PICK l \in {"in", "out"} : Fresh(s, l)
    BY <1>4 DEF Admit
  <2>2. requestsEnd' \in BOOLEAN
    BY <1>4 DEF Admit, Expires, GatewayTypeOK
  <2>3. QED
    BY <1>4, <2>1, <2>2, FreshType DEF Admit, GatewayTypeOK, Handler
<1>5. ASSUME NEW s \in Sockets, FailOpen(s) PROVE GatewayTypeOK'
  <2>1. PICK l \in {"in", "out"} : Fresh(s, l)
    BY <1>5 DEF FailOpen
  <2>2. faults' \in 0 .. MaxFaults
    BY <1>5, GatewayAssumption DEF FailOpen, GatewayTypeOK
  <2>3. QED
    BY <1>5, <2>1, <2>2, FreshType DEF FailOpen, GatewayTypeOK, Handler
<1>6. ASSUME NEW s \in Sockets, DropSocket(s) PROVE GatewayTypeOK'
  BY <1>6, FreshType DEF DropSocket, GatewayTypeOK, Handler
<1>7. ASSUME NEW s \in Sockets, GoOn(s) PROVE GatewayTypeOK'
  <2>1. waiting[s] \in Seq(Handler) /\ waiting[s] # <<>>
    BY <1>0, <1>7 DEF GoOn
  <2>2. Head(waiting[s]) \in Handler /\ Tail(waiting[s]) \in Seq(Handler)
    BY <2>1, HeadTailProperties
  <2>3. subscriptions' \in [Sockets -> SUBSET Markets]
    BY <1>7, <2>2 DEF GoOn, Resumed, GatewayTypeOK, Handler
  <2>4. waiting' \in [Sockets -> Seq(Handler)]
    BY <1>0, <1>7, <2>2 DEF GoOn
  <2>5. QED
    BY <1>7, <2>3, <2>4 DEF GoOn, GatewayTypeOK, Handler
<1>8. ASSUME NEW s \in Sockets, NEW k \in Markets, JoinMarket(s, k) \/ LeaveMarket(s, k)
      PROVE  GatewayTypeOK'
  <2>1. PICK op \in {"join", "leave"} : Wait(s, op, k)
    BY <1>8 DEF JoinMarket, LeaveMarket
  <2>2. <<op, k>> \in Handler
    BY DEF Handler
  <2>3. Append(waiting[s], <<op, k>>) \in Seq(Handler)
    BY <1>0, <2>2, AppendProperties
  <2>4. waiting' \in [Sockets -> Seq(Handler)]
    BY <1>0, <2>1, <2>3 DEF Wait
  <2>5. rooms' \in [Sockets -> SUBSET (Markets \cup Folios)]
    <3>1. PICK r \in SUBSET (Markets \cup Folios) : rooms' = [rooms EXCEPT ![s] = r]
      <4>1. rooms[s] \cup {k} \in SUBSET (Markets \cup Folios)
        BY DEF GatewayTypeOK
      <4>2. rooms[s] \ {k} \in SUBSET (Markets \cup Folios)
        BY DEF GatewayTypeOK
      <4>3. QED
        BY <1>8, <4>1, <4>2 DEF JoinMarket, LeaveMarket
    <3>2. QED
      BY <3>1 DEF GatewayTypeOK
  <2>6. QED
    BY <1>8, <2>4, <2>5 DEF JoinMarket, LeaveMarket, GatewayTypeOK, Handler
<1>9. ASSUME NEW s \in Sockets, NEW f \in Folios, JoinPortfolio(s, f) \/ Found(s, f)
      PROVE  GatewayTypeOK'
  <2>1. rooms' \in [Sockets -> SUBSET (Markets \cup Folios)]
    <3>1. PICK x \in SUBSET {f} : rooms' \in {rooms, [rooms EXCEPT ![s] = @ \cup x]}
      BY <1>9 DEF JoinPortfolio, Found
    <3>2. rooms[s] \cup x \in SUBSET (Markets \cup Folios)
      BY DEF GatewayTypeOK
    <3>3. QED
      BY <3>1, <3>2 DEF GatewayTypeOK
  <2>2. lookups' \in [Sockets -> SUBSET Folios]
    <3>1. PICK l \in SUBSET Folios : lookups' = [lookups EXCEPT ![s] = l]
      <4>1. lookups[s] \cup {f} \in SUBSET Folios
        BY DEF GatewayTypeOK
      <4>2. lookups[s] \ {f} \in SUBSET Folios
        BY DEF GatewayTypeOK
      <4>3. QED
        BY <1>9, <4>1, <4>2 DEF JoinPortfolio, Found
    <3>2. QED
      BY <3>1 DEF GatewayTypeOK
  <2>3. QED
    BY <1>9, <2>1, <2>2 DEF JoinPortfolio, Found, GatewayTypeOK
<1>10. CASE UNCHANGED gatewayVars
  BY <1>10 DEF gatewayVars, GatewayTypeOK
<1>11. QED
  BY <1>1, <1>2, <1>3, <1>4, <1>5, <1>6, <1>7, <1>8, <1>9, <1>10 DEF GatewayNext

\* The counter, the sockets, their rooms and their waiting handlers keep their
\* types, for any number of sockets and any length of their bursts (websocket.ts).
THEOREM GatewayTypeCorrect == GatewaySpec => []GatewayTypeOK
  BY GatewayTypeInit, GatewayTypeStep, PTL DEF GatewaySpec

-----------------------------------------------------------------------------
(***************************************************************************)
(* The counter.  It was found at 1 by a connection that is still in its    *)
(* handshake, or has its expiry.                                           *)
(***************************************************************************)

LEMMA CounterStep ==
  ASSUME GatewayTypeOK, CounterExpires, [GatewayNext]_gatewayVars
  PROVE  CounterExpires'
<1> USE DEF GatewayTypeOK
<1>1. CASE Minute \/ GatewayCrash
  BY <1>1 DEF Minute, GatewayCrash, CounterExpires
<1>2. ASSUME NEW s \in Sockets, Knock(s) PROVE CounterExpires'
  <2>1. CASE requests = 0
    BY <1>2, <2>1 DEF Knock, CounterExpires
  <2>2. CASE requests > 0
    <3>1. \A t \in Sockets : link[t] = "first" => link'[t] = "first"
      BY <1>2 DEF Knock
    <3>2. QED
      BY <1>2, <2>2, <3>1 DEF Knock, CounterExpires
  <2>3. QED
    BY <2>1, <2>2
<1>3. ASSUME NEW s \in Sockets, Admit(s) PROVE CounterExpires'
  <2>1. \A t \in Sockets : link[t] = "first" => t = s \/ link'[t] = "first"
    BY <1>3 DEF Admit, Fresh
  <2>2. QED
    BY <1>3, <2>1 DEF Admit, Expires, CounterExpires
<1>4. ASSUME NEW s \in Sockets, FailOpen(s) PROVE CounterExpires'
  BY <1>4 DEF FailOpen, CounterExpires
<1>5. ASSUME NEW s \in Sockets, DropSocket(s) PROVE CounterExpires'
  <2>1. \A t \in Sockets : link[t] = "first" => link'[t] = "first"
    BY <1>5 DEF DropSocket, Fresh
  <2>2. QED
    BY <1>5, <2>1 DEF DropSocket, CounterExpires
<1>6. CASE UNCHANGED <<requests, requestsEnd, link, faults>>
  BY <1>6 DEF CounterExpires
<1>7. ASSUME NEW s \in Sockets,
             \/ GoOn(s)
             \/ \E k \in Markets : JoinMarket(s, k) \/ LeaveMarket(s, k)
             \/ \E f \in Folios : JoinPortfolio(s, f) \/ Found(s, f)
      PROVE  CounterExpires'
  BY <1>6, <1>7 DEF GoOn, JoinMarket, LeaveMarket, JoinPortfolio, Found
<1>8. CASE UNCHANGED gatewayVars
  BY <1>6, <1>8 DEF gatewayVars
<1>9. QED
  BY <1>1, <1>2, <1>3, <1>4, <1>5, <1>7, <1>8 DEF GatewayNext

-----------------------------------------------------------------------------
(***************************************************************************)
(* The books of a socket.  Handlers go on in the order in which they       *)
(* changed the rooms, so of the handlers that wait the last one about a    *)
(* market says whether the socket is in its room; without one the          *)
(* subscriptions say it.                                                   *)
(***************************************************************************)

Waits(s) == 1 .. Len(waiting[s])
About(s, i, k) == waiting[s][i][2] = k
Entering(s, i) == waiting[s][i][1] = "join"

RoomsAreExplained(s) ==
  \A k \in Markets :
    /\ (\A i \in Waits(s) : ~About(s, i, k)) => (k \in rooms[s] <=> k \in subscriptions[s])
    /\ \A i \in Waits(s) :
         About(s, i, k) /\ (\A j \in Waits(s) : i < j => ~About(s, j, k))
           => (k \in rooms[s] <=> Entering(s, i))

\* Counting is possible, and the limit is passed by less than a burst.
Counts(s) ==
  /\ IsFiniteSet(subscriptions[s]) /\ IsFiniteSet(lookups[s])
  /\ Len(waiting[s]) <= MaxBurst[s]
  /\ IsFiniteSet(subscriptions[s] \cup Joining(s))
  /\ Cardinality(subscriptions[s] \cup Joining(s)) < MaxSubscriptions + MaxBurst[s]

GatewayInv ==
  GatewayTypeOK /\ CounterExpires /\ \A s \in Sockets : RoomsAreExplained(s) /\ Counts(s)

\* The markets that handlers join are no more than the handlers.
LEMMA JoiningBound ==
  ASSUME NEW w, NEW n \in Nat, Len(w) = n,
         NEW J, J = {w[i][2] : i \in {j \in 1 .. Len(w) : w[j][1] = "join"}}
  PROVE  IsFiniteSet(J) /\ Cardinality(J) \in Nat /\ Cardinality(J) <= n
<1> DEFINE I == {j \in 1 .. n : w[j][1] = "join"}
           f == [i \in I |-> w[i][2]]
<1>1. IsFiniteSet(1 .. n) /\ Cardinality(1 .. n) = n /\ I \in SUBSET (1 .. n)
  BY FS_Interval
<1>2. IsFiniteSet(I) /\ Cardinality(I) <= n
  BY <1>1, FS_Subset
<1>3. J = {w[i][2] : i \in I}
  OBVIOUS
<1>4. f \in Surjection(I, J)
  BY <1>3 DEF Surjection
<1>5. IsFiniteSet(J) /\ Cardinality(J) <= Cardinality(I)
  BY <1>2, <1>4, FS_Surjection
<1>6. Cardinality(J) \in Nat /\ Cardinality(I) \in Nat
  BY <1>2, <1>5, FS_CardinalityType
<1>7. QED
  BY <1>2, <1>5, <1>6

\* A socket at its beginning, or after it is gone.
LEMMA EmptyBooks ==
  ASSUME NEW s \in Sockets, rooms[s] = {}, subscriptions[s] = {}, waiting[s] = <<>>, lookups[s] = {}
  PROVE  RoomsAreExplained(s) /\ Counts(s)
<1>1. Waits(s) = {} /\ Joining(s) = {} /\ Len(waiting[s]) = 0
  BY DEF Waits, Joining
<1>2. RoomsAreExplained(s)
  BY <1>1 DEF RoomsAreExplained
<1>3. Counts(s)
  BY <1>1, GatewayAssumption, FS_EmptySet DEF Counts
<1>4. QED
  BY <1>2, <1>3

LEMMA EmptyBooksNext ==
  ASSUME NEW s \in Sockets, rooms'[s] = {}, subscriptions'[s] = {}, waiting'[s] = <<>>,
         lookups'[s] = {}
  PROVE  RoomsAreExplained(s)' /\ Counts(s)'
<1>1. Waits(s)' = {} /\ Joining(s)' = {} /\ Len(waiting'[s]) = 0
  BY DEF Waits, Joining
<1>2. RoomsAreExplained(s)'
  BY <1>1 DEF RoomsAreExplained
<1>3. Counts(s)'
  BY <1>1, GatewayAssumption, FS_EmptySet DEF Counts
<1>4. QED
  BY <1>2, <1>3

LEMMA SameBooks ==
  ASSUME NEW s \in Sockets, RoomsAreExplained(s) /\ Counts(s),
         \A k \in Markets : k \in rooms'[s] <=> k \in rooms[s],
         subscriptions'[s] = subscriptions[s], waiting'[s] = waiting[s], IsFiniteSet(lookups'[s])
  PROVE  RoomsAreExplained(s)' /\ Counts(s)'
<1>1. /\ Waits(s)' = Waits(s) /\ Joining(s)' = Joining(s)
      /\ \A i, k : (About(s, i, k)' <=> About(s, i, k)) /\ (Entering(s, i)' <=> Entering(s, i))
  BY DEF Waits, Joining, About, Entering
<1>2. RoomsAreExplained(s)'
  BY <1>1 DEF RoomsAreExplained
<1>3. Counts(s)'
  BY <1>1 DEF Counts
<1>4. QED
  BY <1>2, <1>3

\* A join or a leave changes the room and waits behind the others.
LEMMA WaitBooks ==
  ASSUME GatewayTypeOK, NEW s \in Sockets, RoomsAreExplained(s), Counts(s), CanStart(s),
         NEW op \in {"join", "leave"}, NEW k \in Markets, Wait(s, op, k),
         op = "join" => Cardinality(subscriptions[s]) < MaxSubscriptions,
         rooms'[s] = IF op = "join" THEN rooms[s] \cup {k} ELSE rooms[s] \ {k},
         subscriptions'[s] = subscriptions[s], lookups'[s] = lookups[s]
  PROVE  RoomsAreExplained(s)' /\ Counts(s)'
<1>1. PICK n \in Nat : n = Len(waiting[s])
  BY LenProperties DEF GatewayTypeOK
<1>2. /\ Len(waiting'[s]) = n + 1 /\ waiting'[s][n + 1] = <<op, k>>
      /\ \A i \in 1 .. n : waiting'[s][i] = waiting[s][i]
  <2>1. waiting[s] \in Seq(Handler) /\ <<op, k>> \in Handler
    BY DEF GatewayTypeOK, Handler
  <2>2. waiting'[s] = Append(waiting[s], <<op, k>>)
    BY DEF Wait, GatewayTypeOK
  <2>3. QED
    BY <1>1, <2>1, <2>2, AppendProperties
<1>3. Waits(s) = 1 .. n /\ Waits(s)' = 1 .. n + 1
  BY <1>1, <1>2 DEF Waits
<1>4. ASSUME NEW i \in 1 .. n, NEW q
      PROVE  (About(s, i, q)' <=> About(s, i, q)) /\ (Entering(s, i)' <=> Entering(s, i))
  BY <1>2 DEF About, Entering
<1>5. ASSUME NEW q
      PROVE  (About(s, n + 1, q)' <=> q = k) /\ (Entering(s, n + 1)' <=> op = "join")
  BY <1>2 DEF About, Entering
<1>6. RoomsAreExplained(s)'
  <2> SUFFICES ASSUME NEW q \in Markets
               PROVE  /\ (\A i \in 1 .. n + 1 : ~About(s, i, q)')
                           => (q \in rooms'[s] <=> q \in subscriptions'[s])
                      /\ \A i \in 1 .. n + 1 :
                           About(s, i, q)' /\ (\A j \in 1 .. n + 1 : i < j => ~About(s, j, q)')
                             => (q \in rooms'[s] <=> Entering(s, i)')
    BY <1>3 DEF RoomsAreExplained
  <2>1. CASE q = k
    <3>1. About(s, n + 1, q)' /\ n + 1 \in 1 .. n + 1 /\ (q \in rooms'[s] <=> op = "join")
      BY <1>5, <2>1
    <3>2. \A i \in 1 .. n + 1 : i = n + 1 \/ i < n + 1
      OBVIOUS
    <3>3. QED
      BY <1>5, <3>1, <3>2
  <2>2. CASE q # k
    <3>1. ~About(s, n + 1, q)' /\ (q \in rooms'[s] <=> q \in rooms[s])
      BY <1>5, <2>2
    <3>2. /\ (\A i \in 1 .. n : ~About(s, i, q)) => (q \in rooms[s] <=> q \in subscriptions[s])
          /\ \A i \in 1 .. n : About(s, i, q) /\ (\A j \in 1 .. n : i < j => ~About(s, j, q))
               => (q \in rooms[s] <=> Entering(s, i))
      BY <1>3 DEF RoomsAreExplained
    <3>3. \A i \in 1 .. n + 1 : i \in 1 .. n \/ i = n + 1
      OBVIOUS
    <3>4. QED
      BY <1>4, <3>1, <3>2, <3>3
  <2>3. QED
    BY <2>1, <2>2
<1>7. /\ IsFiniteSet(subscriptions[s]) /\ IsFiniteSet(lookups[s])
      /\ IsFiniteSet(subscriptions[s] \cup Joining(s))
      /\ Cardinality(subscriptions[s] \cup Joining(s)) < MaxSubscriptions + MaxBurst[s]
      /\ MaxBurst[s] \in Nat /\ MaxSubscriptions \in Nat
  BY GatewayAssumption DEF Counts
<1>8. n + 1 <= MaxBurst[s]
  <2>1. Cardinality(lookups[s]) \in Nat
    BY <1>7, FS_CardinalityType
  <2>2. QED
    BY <1>1, <1>7, <2>1 DEF CanStart
<1>9. /\ IsFiniteSet(subscriptions[s] \cup Joining(s)')
      /\ Cardinality(subscriptions[s] \cup Joining(s)') < MaxSubscriptions + MaxBurst[s]
  <2>1. CASE op = "join"
    <3>1. /\ IsFiniteSet(Joining(s)') /\ Cardinality(Joining(s)') \in Nat
          /\ Cardinality(Joining(s)') <= n + 1
      <4>1. n + 1 \in Nat
        OBVIOUS
      <4>2. Joining(s)' =
              {waiting'[s][i][2] : i \in {j \in 1 .. Len(waiting'[s]) : waiting'[s][j][1] = "join"}}
        BY DEF Joining
      <4>3. QED
        BY <1>2, <4>1, <4>2, JoiningBound
    <3>2. /\ IsFiniteSet(subscriptions[s] \cup Joining(s)')
          /\ Cardinality(subscriptions[s] \cup Joining(s)') =
               Cardinality(subscriptions[s]) + Cardinality(Joining(s)')
                 - Cardinality(subscriptions[s] \cap Joining(s)')
      BY <1>7, <3>1, FS_Union
    <3>3. Cardinality(subscriptions[s] \cap Joining(s)') \in Nat
      BY <1>7, FS_Subset, FS_CardinalityType
    <3>4. Cardinality(subscriptions[s]) \in Nat
      BY <1>7, FS_CardinalityType
    <3>5. QED
      BY <1>7, <1>8, <2>1, <3>1, <3>2, <3>3, <3>4
  <2>2. CASE op = "leave"
    <3>1. Joining(s)' = Joining(s)
      BY <1>1, <1>2, <2>2, SMTT(40) DEF Joining
    <3>2. QED
      BY <1>7, <3>1
  <2>3. QED
    BY <2>1, <2>2
<1>10. Counts(s)'
  BY <1>2, <1>7, <1>8, <1>9 DEF Counts
<1>11. QED
  BY <1>6, <1>10

\* The oldest handler goes on, and the others move up.
LEMMA GoOnBooks ==
  ASSUME GatewayTypeOK, NEW s \in Sockets, RoomsAreExplained(s), Counts(s), GoOn(s)
  PROVE  RoomsAreExplained(s)' /\ Counts(s)'
<1>1. PICK n \in Nat : n = Len(waiting[s])
  BY LenProperties DEF GatewayTypeOK
<1>2. PICK op \in {"join", "leave"}, k \in Markets : waiting[s][1] = <<op, k>>
  BY <1>1 DEF GoOn, GatewayTypeOK
<1>3. /\ n >= 1 /\ Len(waiting'[s]) = n - 1
      /\ \A i \in 1 .. n - 1 : waiting'[s][i] = waiting[s][i + 1]
  <2>1. /\ waiting[s] \in Seq(Handler) /\ waiting[s] # <<>>
        /\ waiting'[s] = Tail(waiting[s])
    BY DEF GoOn, GatewayTypeOK, Handler
  <2>2. QED
    BY <1>1, <2>1, HeadTailProperties, EmptySeq
<1>4. /\ subscriptions'[s] = IF op = "join" THEN subscriptions[s] \cup {k}
                                            ELSE subscriptions[s] \ {k}
      /\ UNCHANGED <<rooms, lookups>>
  <2>1. Head(waiting[s]) = <<op, k>>
    BY <1>2 DEF GoOn, GatewayTypeOK
  <2>2. Head(waiting[s])[1] = op /\ Head(waiting[s])[2] = k
    BY <2>1
  <2>3. /\ subscriptions'[s] = Resumed(subscriptions[s], op, k)
        /\ UNCHANGED <<rooms, lookups>>
    BY <2>2 DEF GoOn, GatewayTypeOK
  <2>4. QED
    BY <2>3 DEF Resumed
<1>5. Waits(s) = 1 .. n /\ Waits(s)' = 1 .. n - 1
  BY <1>1, <1>3 DEF Waits
<1>6. ASSUME NEW i \in 1 .. n - 1, NEW q
      PROVE  (About(s, i, q)' <=> About(s, i + 1, q)) /\ (Entering(s, i)' <=> Entering(s, i + 1))
  BY <1>3 DEF About, Entering
<1>7. ASSUME NEW q PROVE (About(s, 1, q) <=> q = k) /\ (Entering(s, 1) <=> op = "join")
  BY <1>2 DEF About, Entering
<1>8. RoomsAreExplained(s)'
  <2> SUFFICES ASSUME NEW q \in Markets
               PROVE  /\ (\A i \in 1 .. n - 1 : ~About(s, i, q)')
                           => (q \in rooms'[s] <=> q \in subscriptions'[s])
                      /\ \A i \in 1 .. n - 1 :
                           About(s, i, q)' /\ (\A j \in 1 .. n - 1 : i < j => ~About(s, j, q)')
                             => (q \in rooms'[s] <=> Entering(s, i)')
    BY <1>5 DEF RoomsAreExplained
  <2>1. /\ (\A i \in 1 .. n : ~About(s, i, q)) => (q \in rooms[s] <=> q \in subscriptions[s])
        /\ \A i \in 1 .. n : About(s, i, q) /\ (\A j \in 1 .. n : i < j => ~About(s, j, q))
             => (q \in rooms[s] <=> Entering(s, i))
    BY <1>5 DEF RoomsAreExplained
  <2>2. ASSUME NEW i \in 1 .. n
        PROVE  i = 1 \/ (i - 1 \in 1 .. n - 1 /\ (About(s, i - 1, q)' <=> About(s, i, q)))
    <3>1. i = 1 \/ (i - 1 \in 1 .. n - 1 /\ (i - 1) + 1 = i)
      OBVIOUS
    <3>2. QED
      BY <1>6, <3>1
  <2>3. (\A i \in 1 .. n - 1 : ~About(s, i, q)') => (q \in rooms'[s] <=> q \in subscriptions'[s])
    <3> SUFFICES ASSUME \A i \in 1 .. n - 1 : ~About(s, i, q)'
                 PROVE  q \in rooms'[s] <=> q \in subscriptions'[s]
      OBVIOUS
    <3>1. \A i \in 1 .. n : i # 1 => ~About(s, i, q)
      BY <2>2
    <3>2. CASE q = k
      <4>1. 1 \in 1 .. n /\ About(s, 1, q) /\ \A j \in 1 .. n : 1 < j => ~About(s, j, q)
        BY <1>3, <1>7, <3>1, <3>2
      <4>2. q \in rooms[s] <=> op = "join"
        BY <1>7, <2>1, <4>1
      <4>3. QED
        BY <1>4, <3>2, <4>2
    <3>3. CASE q # k
      <4>1. q \in rooms[s] <=> q \in subscriptions[s]
        BY <1>7, <2>1, <3>1, <3>3
      <4>2. QED
        BY <1>4, <3>3, <4>1
    <3>4. QED
      BY <3>2, <3>3
  <2>4. ASSUME NEW i \in 1 .. n - 1, About(s, i, q)',
               \A j \in 1 .. n - 1 : i < j => ~About(s, j, q)'
        PROVE  q \in rooms'[s] <=> Entering(s, i)'
    <3>1. i + 1 \in 1 .. n /\ About(s, i + 1, q)
      BY <1>6, <2>4
    <3>2. ASSUME NEW j \in 1 .. n, i + 1 < j PROVE ~About(s, j, q)
      <4>1. j # 1 /\ i < j - 1
        BY <3>2
      <4>2. QED
        BY <2>2, <2>4, <4>1
    <3>3. q \in rooms[s] <=> Entering(s, i + 1)
      BY <2>1, <3>1, <3>2
    <3>4. QED
      BY <1>4, <1>6, <3>3
  <2>5. QED
    BY <2>3, <2>4
<1>9. /\ IsFiniteSet(subscriptions[s] \cup Joining(s)) /\ IsFiniteSet(lookups[s])
      /\ Cardinality(subscriptions[s] \cup Joining(s)) < MaxSubscriptions + MaxBurst[s]
      /\ MaxBurst[s] \in Nat /\ MaxSubscriptions \in Nat /\ n <= MaxBurst[s]
  BY <1>1, GatewayAssumption DEF Counts
<1>10. subscriptions'[s] \cup Joining(s)' \subseteq subscriptions[s] \cup Joining(s)
  <2>1. Joining(s)' \subseteq Joining(s)
    <3> SUFFICES ASSUME NEW i \in 1 .. n - 1, waiting'[s][i][1] = "join"
                 PROVE  waiting'[s][i][2] \in Joining(s)
      BY <1>3 DEF Joining
    <3>1. i + 1 \in 1 .. Len(waiting[s]) /\ waiting'[s][i] = waiting[s][i + 1]
      BY <1>1, <1>3
    <3>2. QED
      BY <3>1 DEF Joining
  <2>2. op = "join" => k \in Joining(s)
    <3>1. 1 \in 1 .. Len(waiting[s])
      BY <1>1, <1>3
    <3>2. QED
      BY <1>2, <3>1 DEF Joining
  <2>3. QED
    BY <1>4, <2>1, <2>2
<1>11. /\ IsFiniteSet(subscriptions'[s] \cup Joining(s)')
       /\ Cardinality(subscriptions'[s] \cup Joining(s)') <= Cardinality(subscriptions[s] \cup Joining(s))
  BY <1>9, <1>10, FS_Subset
<1>12. IsFiniteSet(subscriptions'[s])
  BY <1>11, FS_Subset
<1>13. /\ Cardinality(subscriptions'[s] \cup Joining(s)') \in Nat
       /\ Cardinality(subscriptions[s] \cup Joining(s)) \in Nat
  BY <1>9, <1>11, FS_CardinalityType
<1>14. Counts(s)'
  <2>1. n - 1 <= MaxBurst[s] /\ Len(waiting'[s]) <= MaxBurst[s]
    BY <1>3, <1>9
  <2>2. Cardinality(subscriptions'[s] \cup Joining(s)') < MaxSubscriptions + MaxBurst[s]
    BY <1>9, <1>11, <1>13
  <2>3. QED
    BY <1>4, <1>9, <1>11, <1>12, <2>1, <2>2 DEF Counts
<1>15. QED
  BY <1>8, <1>14

\* The look-ups of a socket and the rooms of its portfolios touch none of this.
LEMMA LookUpBooks ==
  ASSUME GatewayTypeOK, NEW s \in Sockets, RoomsAreExplained(s) /\ Counts(s),
         NEW f \in Folios, JoinPortfolio(s, f) \/ Found(s, f)
  PROVE  RoomsAreExplained(s)' /\ Counts(s)'
<1>1. IsFiniteSet(lookups[s])
  BY DEF Counts
<1>2. IsFiniteSet(lookups'[s])
  <2>1. lookups'[s] = lookups[s] \cup {f} \/ lookups'[s] = lookups[s] \ {f}
    BY DEF JoinPortfolio, Found, GatewayTypeOK
  <2>2. QED
    BY <1>1, <2>1, FS_AddElement, FS_RemoveElement
<1>3. \A k \in Markets : k \in rooms'[s] <=> k \in rooms[s]
  <2>1. PICK x \in SUBSET {f} : rooms' \in {rooms, [rooms EXCEPT ![s] = @ \cup x]}
    BY DEF JoinPortfolio, Found
  <2>2. f \notin Markets
    BY GatewayAssumption
  <2>3. QED
    BY <2>1, <2>2 DEF GatewayTypeOK
<1>4. subscriptions'[s] = subscriptions[s] /\ waiting'[s] = waiting[s]
  BY DEF JoinPortfolio, Found
<1>5. QED
  BY <1>2, <1>3, <1>4, SameBooks

LEMMA GatewayInvInit == GatewayInit => GatewayInv
<1> SUFFICES ASSUME GatewayInit PROVE GatewayInv
  OBVIOUS
<1>1. CounterExpires
  BY DEF GatewayInit, CounterExpires
<1>2. \A s \in Sockets : RoomsAreExplained(s) /\ Counts(s)
  BY EmptyBooks DEF GatewayInit
<1>3. QED
  BY <1>1, <1>2, GatewayTypeInit DEF GatewayInv

LEMMA GatewayInvStep == GatewayInv /\ [GatewayNext]_gatewayVars => GatewayInv'
<1> SUFFICES ASSUME GatewayInv, [GatewayNext]_gatewayVars PROVE GatewayInv'
  OBVIOUS
<1>1. GatewayTypeOK /\ CounterExpires /\ GatewayTypeOK' /\ CounterExpires'
  BY GatewayTypeStep, CounterStep DEF GatewayInv
<1>2. SUFFICES ASSUME NEW t \in Sockets PROVE RoomsAreExplained(t)' /\ Counts(t)'
  BY <1>1 DEF GatewayInv
<1>3. /\ RoomsAreExplained(t) /\ Counts(t) /\ IsFiniteSet(lookups[t])
      /\ GatewayTypeOK
  BY <1>1 DEF GatewayInv, Counts
<1>4. ASSUME UNCHANGED <<rooms[t], subscriptions[t], waiting[t], lookups[t]>>
      PROVE  RoomsAreExplained(t)' /\ Counts(t)'
  BY <1>3, <1>4, SameBooks
<1>5. CASE Minute
  BY <1>4, <1>5 DEF Minute, NoRooms
<1>6. CASE GatewayCrash
  BY <1>6, EmptyBooksNext DEF GatewayCrash
<1>7. ASSUME NEW s \in Sockets, Knock(s) PROVE RoomsAreExplained(t)' /\ Counts(t)'
  BY <1>4, <1>7 DEF Knock, NoRooms
<1>8. ASSUME NEW s \in Sockets, Admit(s) \/ FailOpen(s) \/ DropSocket(s)
      PROVE  RoomsAreExplained(t)' /\ Counts(t)'
  <2>1. PICK l : Fresh(s, l)
    BY <1>8 DEF Admit, FailOpen, DropSocket
  <2>2. CASE s = t
    <3>1. rooms'[t] = {} /\ subscriptions'[t] = {} /\ waiting'[t] = <<>> /\ lookups'[t] = {}
      BY <1>3, <2>1, <2>2 DEF Fresh, GatewayTypeOK
    <3>2. QED
      BY <3>1, EmptyBooksNext
  <2>3. CASE s # t
    BY <1>3, <1>4, <2>1, <2>3 DEF Fresh, GatewayTypeOK
  <2>4. QED
    BY <2>2, <2>3
<1>9. ASSUME NEW s \in Sockets, NEW k \in Markets, JoinMarket(s, k) \/ LeaveMarket(s, k)
      PROVE  RoomsAreExplained(t)' /\ Counts(t)'
  <2>1. PICK op \in {"join", "leave"} :
          /\ Wait(s, op, k) /\ (op = "join" => Cardinality(subscriptions[s]) < MaxSubscriptions)
          /\ rooms' = [rooms EXCEPT ![s] = IF op = "join" THEN @ \cup {k} ELSE @ \ {k}]
          /\ CanStart(s) /\ UNCHANGED <<subscriptions, lookups>>
    BY <1>9 DEF JoinMarket, LeaveMarket
  <2>2. CASE s = t
    <3>1. /\ rooms'[t] = IF op = "join" THEN rooms[t] \cup {k} ELSE rooms[t] \ {k}
          /\ subscriptions'[t] = subscriptions[t] /\ lookups'[t] = lookups[t]
          /\ Wait(t, op, k) /\ CanStart(t)
          /\ (op = "join" => Cardinality(subscriptions[t]) < MaxSubscriptions)
      BY <1>3, <2>1, <2>2 DEF GatewayTypeOK
    <3>2. QED
      BY <1>3, <3>1, WaitBooks
  <2>3. CASE s # t
    BY <1>3, <1>4, <2>1, <2>3 DEF Wait, GatewayTypeOK
  <2>4. QED
    BY <2>2, <2>3
<1>10. ASSUME NEW s \in Sockets, GoOn(s) PROVE RoomsAreExplained(t)' /\ Counts(t)'
  <2>1. CASE s = t
    BY <1>3, <1>10, <2>1, GoOnBooks
  <2>2. CASE s # t
    BY <1>3, <1>4, <1>10, <2>2 DEF GoOn, GatewayTypeOK
  <2>3. QED
    BY <2>1, <2>2
<1>11. ASSUME NEW s \in Sockets, NEW f \in Folios, JoinPortfolio(s, f) \/ Found(s, f)
       PROVE  RoomsAreExplained(t)' /\ Counts(t)'
  <2>1. CASE s = t
    BY <1>3, <1>11, <2>1, LookUpBooks
  <2>2. CASE s # t
    <3>1. lookups'[t] = lookups[t] /\ rooms'[t] = rooms[t]
      BY <1>3, <1>11, <2>2 DEF JoinPortfolio, Found, GatewayTypeOK
    <3>2. QED
      BY <1>4, <1>11, <3>1 DEF JoinPortfolio, Found
  <2>3. QED
    BY <2>1, <2>2
<1>12. CASE UNCHANGED gatewayVars
  BY <1>4, <1>12 DEF gatewayVars
<1>13. QED
  BY <1>5, <1>6, <1>7, <1>8, <1>9, <1>10, <1>11, <1>12 DEF GatewayNext

\* For any number of sockets and bursts of any length: the subscriptions of a
\* socket at rest are its rooms, a burst passes the limit by less than its
\* length, and the counter of an address does not stay for good unless a
\* command or a process failed (WebSocketServer).
THEOREM GatewayBooksKept == GatewaySpec => []GatewayKeepsItsBooks
<1>1. GatewayInv => GatewayKeepsItsBooks
  <2> SUFFICES ASSUME GatewayInv, NEW s \in Sockets
               PROVE  /\ waiting[s] = <<>> => rooms[s] \cap Markets = subscriptions[s]
                      /\ Cardinality(subscriptions[s] \cup Joining(s)) < MaxSubscriptions + MaxBurst[s]
    BY DEF GatewayInv, GatewayKeepsItsBooks, SubscriptionsMatchRooms
  <2>1. ASSUME waiting[s] = <<>> PROVE rooms[s] \cap Markets = subscriptions[s]
    <3>1. Waits(s) = {}
      BY <2>1 DEF Waits
    <3>2. \A k \in Markets : k \in rooms[s] <=> k \in subscriptions[s]
      BY <3>1 DEF GatewayInv, RoomsAreExplained
    <3>3. QED
      BY <3>2 DEF GatewayInv, GatewayTypeOK
  <2>2. QED
    BY <2>1 DEF GatewayInv, Counts
<1>2. QED
  BY <1>1, GatewayInvInit, GatewayInvStep, PTL DEF GatewaySpec

-----------------------------------------------------------------------------
(***************************************************************************)
(* Theorems about registration: types, and that every user has exactly one *)
(* portfolio unless the registration was aborted between its two inserts.  *)
(***************************************************************************)

LEMMA AccountsTypeInit == AccountsInit => AccountsTypeOK
  BY AccountsAssumption
     DEF AccountsInit, AccountsTypeOK, NoRequest, Nothing, NoPage, Owned

\* A key or an order that has ended is one still.
LEMMA EndedIsOwned == ASSUME NEW x \in Owned PROVE [x EXCEPT !.ended = TRUE] \in Owned
  BY DEF Owned

LEMMA AccountsTypeStep == AccountsTypeOK /\ [AccountsNext]_accountsVars => AccountsTypeOK'
<1> SUFFICES ASSUME AccountsTypeOK, [AccountsNext]_accountsVars
             PROVE  AccountsTypeOK'
  OBVIOUS
<1> USE AccountsAssumption DEF AccountsTypeOK, Owned
<1>1. ASSUME NEW c \in Clients, InsertUser(c) PROVE AccountsTypeOK'
  <2>1. request[c] \in [step : {"hashing", "inserted"}, email : Emails]
    BY <1>1 DEF InsertUser, NoRequest
  <2>2. QED
    BY <1>1, <2>1 DEF InsertUser, Taken, Ended, At
<1>2. ASSUME NEW c \in Clients, InsertPortfolio(c) PROVE AccountsTypeOK'
  <2>1. request[c] \in [step : {"hashing", "inserted"}, email : Emails]
    BY <1>2 DEF InsertPortfolio, NoRequest
  <2>2. QED
    BY <1>2, <2>1 DEF InsertPortfolio, Signed, Ended
<1>3. ASSUME NEW c \in Clients, Aborted(c) PROVE AccountsTypeOK'
  BY <1>3 DEF Aborted, Ended
<1>4. ASSUME NEW c \in Clients, Logout(c) PROVE AccountsTypeOK'
  BY <1>4 DEF Logout, Handled, Signed
<1>5. ASSUME NEW c \in Clients, GetSession(c) PROVE AccountsTypeOK'
  BY <1>5 DEF GetSession, Handled, Told
<1>6. ASSUME NEW c \in Clients, NEW e \in Emails, Register(c, e) PROVE AccountsTypeOK'
  BY <1>6 DEF Register, At
<1>7. ASSUME NEW c \in Clients, NEW e \in Emails, Login(c, e) PROVE AccountsTypeOK'
  BY <1>7 DEF Login, Handled, Signed
<1>8. ASSUME NEW c \in Clients, NEW t \in Tickets, PlaceTicket(c, t) PROVE AccountsTypeOK'
  BY <1>8 DEF PlaceTicket, SignedIn, Handled
<1>9. ASSUME NEW c \in Clients, NEW t \in Tickets, CancelTicket(c, t) PROVE AccountsTypeOK'
  <2>1. tickets[t] \in Owned
    OBVIOUS
  <2>2. [tickets[t] EXCEPT !.ended = TRUE] \in Owned
    BY <2>1, EndedIsOwned
  <2>3. QED
    BY <1>9, <2>2 DEF CancelTicket, SignedIn, Handled
<1>10. ASSUME NEW c \in Clients, NEW k \in Keys, CreateKey(c, k) PROVE AccountsTypeOK'
  BY <1>10 DEF CreateKey, SignedIn, Handled, Issued
<1>11. ASSUME NEW c \in Clients, NEW k \in Keys, RevokeKey(c, k) PROVE AccountsTypeOK'
  BY <1>11 DEF RevokeKey, SignedIn, Handled, Revoked
<1>12. CASE UNCHANGED accountsVars
  BY <1>12 DEF accountsVars
<1>13. QED
  BY <1>1, <1>2, <1>3, <1>4, <1>5, <1>6, <1>7, <1>8, <1>9, <1>10, <1>11, <1>12 DEF AccountsNext

\* Users, portfolios, keys, orders and sessions keep their types, for any
\* number of e-mails, browsers, keys and orders (the tables User, Portfolio
\* and ApiKey, and the cookies of AuthController).
THEOREM AccountsTypeCorrect == AccountsSpec => []AccountsTypeOK
  BY AccountsTypeInit, AccountsTypeStep, PTL DEF AccountsSpec

-----------------------------------------------------------------------------
(***************************************************************************)
(* A portfolio is inserted by the handler that inserted the user.  So the  *)
(* property is inductive together with what it does not say: at most one   *)
(* handler is between the two inserts of a user, and the user has no       *)
(* portfolio yet.                                                          *)
(***************************************************************************)

BetweenInserts ==
  \A c \in Clients, e \in Emails : Inserted(c, e) =>
    /\ e \in users /\ portfolios[e] = 0
    /\ \A d \in Clients : Inserted(d, e) => d = c

AccountsInv == AccountsTypeOK /\ BetweenInserts /\ PortfolioUnlessInterrupted

LEMMA AccountsInvInit == AccountsInit => AccountsInv
<1> SUFFICES ASSUME AccountsInit PROVE AccountsInv
  OBVIOUS
<1>1. BetweenInserts
  BY DEF AccountsInit, BetweenInserts, Inserted, NoRequest
<1>2. PortfolioUnlessInterrupted
  BY DEF AccountsInit, PortfolioUnlessInterrupted
<1>3. QED
  BY <1>1, <1>2, AccountsTypeInit DEF AccountsInv

\* A step that leaves the two tables and the set of aborted registrations
\* alone, and lets no handler come between the inserts or leave from there.
LEMMA AccountsQuiet ==
  ASSUME BetweenInserts, PortfolioUnlessInterrupted,
         UNCHANGED <<users, portfolios, interrupted>>,
         \A c \in Clients, e \in Emails : Inserted(c, e)' <=> Inserted(c, e)
  PROVE  BetweenInserts' /\ PortfolioUnlessInterrupted'
  BY DEF BetweenInserts, PortfolioUnlessInterrupted

LEMMA AccountsInvStep == AccountsInv /\ [AccountsNext]_accountsVars => AccountsInv'
<1> SUFFICES ASSUME AccountsInv, [AccountsNext]_accountsVars
             PROVE  BetweenInserts' /\ PortfolioUnlessInterrupted'
  BY AccountsTypeStep DEF AccountsInv
<1>0. /\ request \in [Clients -> {NoRequest} \cup [step : {"hashing", "inserted"}, email : Emails]]
      /\ users \subseteq Emails /\ portfolios \in [Emails -> Nat]
      /\ BetweenInserts /\ PortfolioUnlessInterrupted
  BY DEF AccountsInv, AccountsTypeOK
<1>1. ASSUME NEW c \in Clients, InsertUser(c)
      PROVE  BetweenInserts' /\ PortfolioUnlessInterrupted'
  <2> DEFINE u == request[c].email
  <2>1. CASE Taken(u)
    <3>1. request' = [request EXCEPT ![c] = NoRequest] /\ ~\E e \in Emails : Inserted(c, e)
      <4>1. request[c].step = "hashing" /\ request' = [request EXCEPT ![c] = NoRequest]
        BY <1>1, <2>1 DEF InsertUser, Ended
      <4>2. \A e \in Emails : [step |-> "inserted", email |-> e].step # "hashing"
        OBVIOUS
      <4>3. QED
        BY <4>1, <4>2 DEF Inserted
    <3>2. \A d \in Clients, e \in Emails : Inserted(d, e)' <=> Inserted(d, e)
      BY <1>0, <3>1 DEF Inserted, NoRequest
    <3>3. UNCHANGED <<users, portfolios, interrupted>>
      BY <1>1, <2>1 DEF InsertUser
    <3>4. QED
      BY <1>0, <3>2, <3>3, AccountsQuiet
  <2>2. CASE ~Taken(u)
    <3>1. /\ u \notin users /\ users' = users \cup {u}
          /\ request' = [request EXCEPT ![c] = [step |-> "inserted", email |-> u]]
          /\ request[c].step = "hashing" /\ UNCHANGED <<portfolios, interrupted>>
      BY <1>1, <2>2 DEF InsertUser, At, Taken
    <3>2. \A d \in Clients, e \in Emails :
             Inserted(d, e)' <=> Inserted(d, e) \/ (d = c /\ e = u)
      BY <1>0, <3>1 DEF Inserted
    <3>3. u \in Emails => portfolios[u] = 0 /\ \A d \in Clients : ~Inserted(d, u)
      BY <1>0, <3>1 DEF BetweenInserts, PortfolioUnlessInterrupted
    <3>4. BetweenInserts'
      BY <1>0, <3>1, <3>2, <3>3 DEF BetweenInserts
    <3>5. PortfolioUnlessInterrupted'
      BY <1>0, <3>1, <3>2, <3>3 DEF PortfolioUnlessInterrupted
    <3>6. QED
      BY <3>4, <3>5
  <2>3. QED
    BY <2>1, <2>2
<1>2. ASSUME NEW c \in Clients, InsertPortfolio(c)
      PROVE  BetweenInserts' /\ PortfolioUnlessInterrupted'
  <2> DEFINE u == request[c].email
  <2>1. /\ request[c].step = "inserted" /\ request' = [request EXCEPT ![c] = NoRequest]
        /\ portfolios' = [portfolios EXCEPT ![u] = @ + 1] /\ UNCHANGED <<users, interrupted>>
    BY <1>2 DEF InsertPortfolio, Ended
  <2>2. \A d \in Clients, e \in Emails : Inserted(d, e)' <=> Inserted(d, e) /\ d # c
    BY <1>0, <2>1 DEF Inserted, NoRequest
  <2>3. \A e \in Emails : Inserted(c, e) <=> e = u
    <3>1. request[c] \in [step : {"hashing", "inserted"}, email : Emails]
      BY <1>0, <2>1 DEF NoRequest
    <3>2. request[c] = [step |-> "inserted", email |-> u]
      BY <2>1, <3>1
    <3>3. QED
      BY <3>2 DEF Inserted
  <2>4. BetweenInserts'
    BY <1>0, <2>1, <2>2, <2>3 DEF BetweenInserts
  <2>5. PortfolioUnlessInterrupted'
    BY <1>0, <2>1, <2>2, <2>3 DEF BetweenInserts, PortfolioUnlessInterrupted
  <2>6. QED
    BY <2>4, <2>5
<1>3. ASSUME NEW c \in Clients, Aborted(c)
      PROVE  BetweenInserts' /\ PortfolioUnlessInterrupted'
  <2>1. /\ request' = [request EXCEPT ![c] = NoRequest]
        /\ interrupted' = interrupted \cup {e \in Emails : Inserted(c, e)}
        /\ UNCHANGED <<users, portfolios>>
    BY <1>3 DEF Aborted, Ended
  <2>2. \A d \in Clients, e \in Emails : Inserted(d, e)' <=> Inserted(d, e) /\ d # c
    BY <1>0, <2>1 DEF Inserted, NoRequest
  <2>3. BetweenInserts' /\ PortfolioUnlessInterrupted'
    BY <1>0, <2>1, <2>2 DEF BetweenInserts, PortfolioUnlessInterrupted
  <2>4. QED
    BY <2>3
<1>4. ASSUME NEW c \in Clients, NEW e \in Emails, Register(c, e)
      PROVE  BetweenInserts' /\ PortfolioUnlessInterrupted'
  <2>1. /\ request[c] = NoRequest
        /\ request' = [request EXCEPT ![c] = [step |-> "hashing", email |-> e]]
        /\ UNCHANGED <<users, portfolios, interrupted>>
    BY <1>4 DEF Register, At
  <2>2. \A d \in Clients, u \in Emails : Inserted(d, u)' <=> Inserted(d, u)
    BY <1>0, <2>1 DEF Inserted, NoRequest
  <2>3. QED
    BY <1>0, <2>1, <2>2, AccountsQuiet
<1>5. CASE UNCHANGED <<users, portfolios, interrupted, request>>
  <2>1. \A d \in Clients, u \in Emails : Inserted(d, u)' <=> Inserted(d, u)
    BY <1>5 DEF Inserted
  <2>2. QED
    BY <1>0, <1>5, <2>1, AccountsQuiet
<1>6. ASSUME NEW c \in Clients,
             \/ Logout(c) \/ GetSession(c)
             \/ \E e \in Emails : Login(c, e)
             \/ \E t \in Tickets : PlaceTicket(c, t) \/ CancelTicket(c, t)
             \/ \E k \in Keys : CreateKey(c, k) \/ RevokeKey(c, k)
      PROVE  UNCHANGED <<users, portfolios, interrupted, request>>
  BY <1>6 DEF Logout, GetSession, Login, PlaceTicket, CancelTicket, CreateKey, RevokeKey,
              SignedIn, Handled
<1>7. CASE UNCHANGED accountsVars
  BY <1>5, <1>7 DEF accountsVars
<1>8. QED
  BY <1>1, <1>2, <1>3, <1>4, <1>5, <1>6, <1>7 DEF AccountsNext

\* Overlapping registrations of any number of clients give a user exactly one
\* portfolio, and none only while one is being created or after the handler
\* was aborted between its two inserts (AuthController.register).
THEOREM EveryUserHasOnePortfolio == AccountsSpec => []PortfolioUnlessInterrupted
<1>1. AccountsInv => PortfolioUnlessInterrupted
  BY DEF AccountsInv
<1>2. QED
  BY <1>1, AccountsInvInit, AccountsInvStep, PTL DEF AccountsSpec

-----------------------------------------------------------------------------
(***************************************************************************)
(* Webhooks.  A post belongs to a run of its job: one that has ended in an *)
(* error or a stall, both of which are counted, or the last.               *)
(***************************************************************************)

PostsOf(j) == j.errors + j.stalls + IF j.state \in {"posted", "done"} THEN 1 ELSE 0

\* A job that has not failed has attempts and stalls left.
HasLeft(j) == j.errors < HookAttempts /\ j.stalls <= MaxStalls

Within(j) == j.errors + j.stalls <= HookAttempts + MaxStalls

BoundedJob(n, j) ==
  n <= PostsOf(j) /\ (j.state # "failed" => HasLeft(j)) /\ Within(j)

JobsAreBounded == \A p \in Pairs : BoundedJob(posts[p], hookJobs[p])

WebhooksInv == WebhooksTypeOK /\ JobsAreBounded

LEMMA JobType ==
  /\ NoJob \in Jobs
  /\ \A j \in Jobs, s \in JobStates : InState(j, s) \in Jobs
  /\ \A j \in Jobs : AfterStall(j) \in Jobs /\ \A n \in Nat : AfterError(j, n) \in Jobs
<1>1. NoJob \in Jobs
  BY DEF NoJob, Jobs, JobStates
<1>2. \A j \in Jobs, s \in JobStates : InState(j, s) \in Jobs
  BY DEF InState, Jobs
<1>3. ASSUME NEW j \in Jobs PROVE AfterStall(j) \in Jobs
  <2>0. [j EXCEPT !.stalls = @ + 1] \in Jobs
    BY DEF Jobs
  <2>1. PICK k \in Jobs : k = [j EXCEPT !.stalls = @ + 1]
    BY <2>0
  <2>2. \A t \in {"queued", "failed"} : [k EXCEPT !.state = t] \in Jobs
    BY DEF Jobs, JobStates
  <2>3. PICK t \in {"queued", "failed"} : t = IF j.stalls < MaxStalls THEN "queued" ELSE "failed"
    OBVIOUS
  <2>4. AfterStall(j) = [k EXCEPT !.state = t]
    BY <2>1, <2>3 DEF AfterStall
  <2>5. QED
    BY <2>2, <2>4
<1>4. ASSUME NEW j \in Jobs, NEW n \in Nat PROVE AfterError(j, n) \in Jobs
  <2>0. [j EXCEPT !.errors = @ + 1] \in Jobs
    BY DEF Jobs
  <2>1. PICK k \in Jobs : k = [j EXCEPT !.errors = @ + 1]
    BY <2>0
  <2>2. \A t \in {"queued", "failed"} : [k EXCEPT !.state = t] \in Jobs
    BY DEF Jobs, JobStates
  <2>3. PICK t \in {"queued", "failed"} : t = IF j.errors + 1 < n THEN "queued" ELSE "failed"
    OBVIOUS
  <2>4. AfterError(j, n) = [k EXCEPT !.state = t]
    BY <2>1, <2>3 DEF AfterError
  <2>5. QED
    BY <2>2, <2>4
<1>5. QED
  BY <1>1, <1>2, <1>3, <1>4

LEMMA WebhooksInit0 == WebhooksInit => WebhooksInv
<1> SUFFICES ASSUME WebhooksInit PROVE WebhooksInv
  OBVIOUS
<1>1. WebhooksTypeOK
  BY JobType, WebhooksAssumption DEF WebhooksInit, WebhooksTypeOK
<1>2. NoJob.errors = 0 /\ NoJob.stalls = 0 /\ NoJob.state = "none"
  BY DEF NoJob
<1>3. JobsAreBounded
  BY <1>2, WebhooksAssumption DEF WebhooksInit, JobsAreBounded, BoundedJob, PostsOf, HasLeft, Within
<1>4. QED
  BY <1>1, <1>3 DEF WebhooksInv

LEMMA WebhooksTypeStep == WebhooksTypeOK /\ [WebhooksNext]_webhooksVars => WebhooksTypeOK'
<1> SUFFICES ASSUME WebhooksTypeOK, [WebhooksNext]_webhooksVars PROVE WebhooksTypeOK'
  OBVIOUS
<1> USE WebhooksAssumption, JobType DEF WebhooksTypeOK
<1>0. \A e \in Events : eventJobs[e].job \in Jobs /\ eventJobs[e].rest \subseteq Hooks
  OBVIOUS
<1>1. ASSUME NEW h \in Hooks, CreateWebhook(h) \/ DeleteWebhook(h) PROVE WebhooksTypeOK'
  <2>1. UNCHANGED <<eventJobs, hookJobs, posts, arrived, hookBreaks>> /\ owed' \subseteq Pairs
    BY <1>1 DEF CreateWebhook, DeleteWebhook
  <2>2. {} \in SUBSET ValidEvents /\ \A asked : Granted(asked) \in SUBSET ValidEvents
    BY DEF Granted
  <2>3. PICK t \in SUBSET ValidEvents : hookRows' = [hookRows EXCEPT ![h] = t]
    BY <1>1, <2>2 DEF CreateWebhook, DeleteWebhook
  <2>4. hookRows' \in [Hooks -> SUBSET ValidEvents]
    BY <2>3
  <2>5. QED
    BY <2>1, <2>4
<1>2. ASSUME NEW e \in Events, NEW j \in Jobs, NEW rest \in SUBSET Hooks,
             eventJobs' = [eventJobs EXCEPT ![e] = [job |-> j, rest |-> rest]],
             hookRows' = hookRows, posts' = posts, arrived' = arrived, owed' = owed,
             hookJobs' \in [Pairs -> Jobs], hookBreaks' \in 0 .. MaxHookBreaks
      PROVE  WebhooksTypeOK'
  BY <1>2
<1>3. ASSUME NEW e \in Events, NEW s \in JobStates,
             eventJobs' = [eventJobs EXCEPT ![e].job = InState(@, s)],
             UNCHANGED <<hookRows, hookJobs, posts, arrived, hookBreaks>>, owed' \subseteq Pairs
      PROVE  WebhooksTypeOK'
  <2>1. InState(eventJobs[e].job, s) \in Jobs
    BY <1>0
  <2>2. eventJobs' \in [Events -> [job : Jobs, rest : SUBSET Hooks]]
    BY <1>3, <2>1
  <2>3. QED
    BY <1>3, <2>2
<1>4. ASSUME NEW e \in Events, Publish(e) \/ Dispatch(e) \/ Dispatched(e) PROVE WebhooksTypeOK'
  <2>1. {"queued", "routing", "done"} \subseteq JobStates
    BY DEF JobStates
  <2>2. owed' \subseteq Pairs
    BY <1>4 DEF Publish, Dispatch, Dispatched, Listed, Pairs
  <2>3. QED
    BY <1>3, <1>4, <2>1, <2>2 DEF Publish, Dispatch, Dispatched
<1>5. ASSUME NEW e \in Events, ListHooks(e) PROVE WebhooksTypeOK'
  <2>1. InState(eventJobs[e].job, "adding") \in Jobs /\ Listed(e) \in SUBSET Hooks
    BY <1>0 DEF JobStates, Listed
  <2>2. QED
    BY <1>2, <1>5, <2>1 DEF ListHooks
<1>6. ASSUME NEW e \in Events, NEW h \in Hooks, AddJob(e, h) PROVE WebhooksTypeOK'
  <2>1. <<h, e>> \in Pairs /\ Added(hookJobs[<<h, e>>]) \in Jobs
    BY DEF Added, JobStates, Pairs
  <2>2. hookJobs' \in [Pairs -> Jobs]
    BY <1>6, <2>1 DEF AddJob
  <2>3. eventJobs' \in [Events -> [job : Jobs, rest : SUBSET Hooks]]
    BY <1>6 DEF AddJob
  <2>4. QED
    BY <1>6, <2>2, <2>3 DEF AddJob
<1>7. ASSUME NEW e \in Events, DispatchBreaks(e) PROVE WebhooksTypeOK'
  <2>1. DispatchError(eventJobs[e].job) \in Jobs /\ AfterStall(eventJobs[e].job) \in Jobs
    BY <1>0 DEF DispatchError
  <2>2. hookBreaks' \in 0 .. MaxHookBreaks
    BY <1>7 DEF DispatchBreaks, Broken
  <2>3. PICK j \in Jobs : eventJobs' = [eventJobs EXCEPT ![e] = [job |-> j, rest |-> {}]]
    BY <1>7, <2>1 DEF DispatchBreaks
  <2>4. QED
    BY <1>2, <1>7, <2>2, <2>3 DEF DispatchBreaks
<1>8. ASSUME NEW h \in Hooks, NEW e \in Events, NEW j \in Jobs,
             hookJobs' = [hookJobs EXCEPT ![<<h, e>>] = j], UNCHANGED <<hookRows, eventJobs, owed>>,
             posts' \in [Pairs -> Nat], arrived' \subseteq Pairs, hookBreaks' \in 0 .. MaxHookBreaks
      PROVE  WebhooksTypeOK'
  BY <1>8
<1>9. ASSUME NEW h \in Hooks, NEW e \in Events, ReadHook(h, e) PROVE WebhooksTypeOK'
  <2>1. InState(hookJobs[<<h, e>>], IF hookRows[h] = {} THEN "done" ELSE "read") \in Jobs
    BY DEF JobStates, Pairs
  <2>2. QED
    BY <1>8, <1>9, <2>1 DEF ReadHook
<1>10. ASSUME NEW h \in Hooks, NEW e \in Events, Post(h, e) PROVE WebhooksTypeOK'
  <2>1. InState(hookJobs[<<h, e>>], "posted") \in Jobs
    BY DEF JobStates, Pairs
  <2>0. PICK p \in Pairs : p = <<h, e>>
    BY DEF Pairs
  <2>2. posts' \in [Pairs -> Nat]
    BY <1>10, <2>0 DEF Post
  <2>3. QED
    BY <1>8, <1>10, <2>1, <2>2 DEF Post
<1>11. ASSUME NEW h \in Hooks, NEW e \in Events, Delivered(h, e) PROVE WebhooksTypeOK'
  <2>1. InState(hookJobs[<<h, e>>], "done") \in Jobs
    BY DEF JobStates, Pairs
  <2>2. arrived' \subseteq Pairs
    BY <1>11 DEF Delivered, Pairs
  <2>3. QED
    BY <1>8, <1>11, <2>1, <2>2 DEF Delivered
<1>12. ASSUME NEW h \in Hooks, NEW e \in Events, PostBreaks(h, e) PROVE WebhooksTypeOK'
  <2>1. /\ <<h, e>> \in Pairs /\ AfterStall(hookJobs[<<h, e>>]) \in Jobs
        /\ AfterError(hookJobs[<<h, e>>], HookAttempts) \in Jobs
    BY DEF Pairs
  <2>2. PICK j \in Jobs : hookJobs' = [hookJobs EXCEPT ![<<h, e>>] = j]
    BY <1>12, <2>1 DEF PostBreaks
  <2>3. arrived' \subseteq Pairs
    BY <1>12, <2>1 DEF PostBreaks
  <2>4. hookBreaks' \in 0 .. MaxHookBreaks
    BY <1>12 DEF PostBreaks, Broken
  <2>5. QED
    BY <1>8, <1>12, <2>2, <2>3, <2>4 DEF PostBreaks
<1>13. CASE UNCHANGED webhooksVars
  BY <1>13 DEF webhooksVars
<1>14. QED
  BY <1>1, <1>4, <1>5, <1>6, <1>7, <1>9, <1>10, <1>11, <1>12, <1>13 DEF WebhooksNext

\* One job moves, and its posts with it.
LEMMA OneJobMoves ==
  ASSUME WebhooksTypeOK, JobsAreBounded, NEW p \in Pairs, NEW j,
         hookJobs' = [hookJobs EXCEPT ![p] = j],
         \A q \in Pairs \ {p} : posts'[q] = posts[q],
         BoundedJob(posts'[p], j)
  PROVE  JobsAreBounded'
<1>1. hookJobs'[p] = j /\ \A q \in Pairs \ {p} : hookJobs'[q] = hookJobs[q]
  BY DEF WebhooksTypeOK
<1>2. ASSUME NEW q \in Pairs PROVE BoundedJob(posts'[q], hookJobs'[q])
  <2>1. CASE q = p
    BY <1>1, <2>1
  <2>2. CASE q # p
    BY <1>1, <2>2 DEF JobsAreBounded
  <2>3. QED
    BY <2>1, <2>2
<1>3. QED
  BY <1>2 DEF JobsAreBounded

LEMMA JobsStep ==
  WebhooksTypeOK /\ JobsAreBounded /\ [WebhooksNext]_webhooksVars => JobsAreBounded'
<1> SUFFICES ASSUME WebhooksTypeOK, JobsAreBounded, [WebhooksNext]_webhooksVars
             PROVE  JobsAreBounded'
  OBVIOUS
<1>0. HookAttempts \in Nat \ {0} /\ MaxStalls \in Nat
  BY WebhooksAssumption
<1>1. ASSUME UNCHANGED <<hookJobs, posts>> PROVE JobsAreBounded'
  BY <1>1 DEF JobsAreBounded
<1>2. ASSUME NEW h \in Hooks, CreateWebhook(h) \/ DeleteWebhook(h) PROVE JobsAreBounded'
  BY <1>1, <1>2 DEF CreateWebhook, DeleteWebhook
<1>3. ASSUME NEW e \in Events,
             Publish(e) \/ Dispatch(e) \/ ListHooks(e) \/ Dispatched(e) \/ DispatchBreaks(e)
      PROVE  JobsAreBounded'
  BY <1>1, <1>3 DEF Publish, Dispatch, ListHooks, Dispatched, DispatchBreaks
<1>4. ASSUME NEW h \in Hooks, NEW e \in Events,
             AddJob(e, h) \/ ReadHook(h, e) \/ Post(h, e) \/ Delivered(h, e) \/ PostBreaks(h, e)
      PROVE  JobsAreBounded'
  <2>0. PICK p \in Pairs : p = <<h, e>>
    BY DEF Pairs
  <2>1. PICK j \in Jobs : j = hookJobs[p]
    BY DEF WebhooksTypeOK
  <2>2. posts[p] \in Nat /\ j.errors \in Nat /\ j.stalls \in Nat
    BY DEF WebhooksTypeOK, Jobs
  <2>3. posts[p] <= PostsOf(j) /\ (j.state # "failed" => HasLeft(j)) /\ Within(j)
    BY <2>1 DEF JobsAreBounded, BoundedJob
  <2>4. ASSUME NEW s \in JobStates
        PROVE  /\ InState(j, s).errors = j.errors /\ InState(j, s).stalls = j.stalls
               /\ InState(j, s).state = s
    BY DEF InState, Jobs
  <2>5. ASSUME NEW s \in {"queued", "read", "done"}, j.state \in {"none", "queued", "posted"},
               s = "done" \/ j.state # "posted",
               hookJobs' = [hookJobs EXCEPT ![p] = InState(j, s)], posts' = posts
        PROVE  JobsAreBounded'
    <3>1. PICK i : i = InState(j, s)
      OBVIOUS
    <3>2. i.errors = j.errors /\ i.stalls = j.stalls /\ i.state = s
      BY <2>4, <3>1 DEF JobStates
    <3>3. BoundedJob(posts[p], i)
      BY <2>2, <2>3, <2>5, <3>2 DEF BoundedJob, PostsOf, HasLeft, Within
    <3>4. QED
      BY <2>5, <3>1, <3>3, OneJobMoves
  <2>6. CASE AddJob(e, h)
    <3>1. hookJobs' = [hookJobs EXCEPT ![p] = Added(j)] /\ posts' = posts
      BY <2>0, <2>1, <2>6 DEF AddJob
    <3>2. CASE j = NoJob
      BY <2>5, <3>1, <3>2 DEF Added, NoJob
    <3>3. CASE j # NoJob
      <4>1. Added(j) = hookJobs[p]
        BY <2>1, <3>3 DEF Added
      <4>2. hookJobs' = hookJobs
        BY <3>1, <4>1 DEF WebhooksTypeOK
      <4>3. QED
        BY <1>1, <3>1, <4>2
    <3>4. QED
      BY <3>2, <3>3
  <2>7. CASE ReadHook(h, e)
    BY <2>0, <2>1, <2>5, <2>7 DEF ReadHook
  <2>8. CASE Delivered(h, e)
    BY <2>0, <2>1, <2>5, <2>8 DEF Delivered
  <2>9. CASE Post(h, e)
    <3>1. PICK i : i = InState(j, "posted")
      OBVIOUS
    <3>2. /\ j.state = "read" /\ hookJobs' = [hookJobs EXCEPT ![p] = i]
          /\ posts' = [posts EXCEPT ![p] = @ + 1]
      BY <2>0, <2>1, <2>9, <3>1 DEF Post
    <3>3. i.errors = j.errors /\ i.stalls = j.stalls /\ i.state = "posted"
      BY <2>4, <3>1 DEF JobStates
    <3>4. posts'[p] = posts[p] + 1 /\ \A q \in Pairs \ {p} : posts'[q] = posts[q]
      BY <3>2 DEF WebhooksTypeOK
    <3>5. BoundedJob(posts'[p], i)
      BY <2>2, <2>3, <3>2, <3>3, <3>4 DEF BoundedJob, PostsOf, HasLeft, Within
    <3>6. QED
      BY <3>2, <3>4, <3>5, OneJobMoves
  <2>10. CASE PostBreaks(h, e)
    <3>1. PICK i \in {AfterError(j, HookAttempts), AfterStall(j)} :
            hookJobs' = [hookJobs EXCEPT ![p] = i]
      BY <2>0, <2>1, <2>10 DEF PostBreaks
    <3>2. j.state \in {"read", "posted"} /\ posts' = posts
      BY <2>0, <2>1, <2>10 DEF PostBreaks
    <3>3. HasLeft(j)
      BY <2>3, <3>2
    <3>4. CASE i = AfterError(j, HookAttempts)
      <4>1. /\ i.errors = j.errors + 1 /\ i.stalls = j.stalls
            /\ i.state = IF j.errors + 1 < HookAttempts THEN "queued" ELSE "failed"
        BY <3>4 DEF AfterError, Jobs
      <4>2. BoundedJob(posts[p], i)
        BY <1>0, <2>2, <2>3, <3>2, <3>3, <4>1 DEF BoundedJob, PostsOf, HasLeft, Within
      <4>3. QED
        BY <3>1, <3>2, <4>2, OneJobMoves
    <3>5. CASE i = AfterStall(j)
      <4>1. /\ i.errors = j.errors /\ i.stalls = j.stalls + 1
            /\ i.state = IF j.stalls < MaxStalls THEN "queued" ELSE "failed"
        BY <3>5 DEF AfterStall, Jobs
      <4>2. BoundedJob(posts[p], i)
        BY <1>0, <2>2, <2>3, <3>2, <3>3, <4>1 DEF BoundedJob, PostsOf, HasLeft, Within
      <4>3. QED
        BY <3>1, <3>2, <4>2, OneJobMoves
    <3>6. QED
      BY <3>1, <3>4, <3>5
  <2>11. QED
    BY <1>4, <2>6, <2>7, <2>8, <2>9, <2>10
<1>5. CASE UNCHANGED webhooksVars
  BY <1>1, <1>5 DEF webhooksVars
<1>6. QED
  BY <1>2, <1>3, <1>4, <1>5 DEF WebhooksNext

\* Hooks, jobs and the counts of their errors, stalls and posts keep their types,
\* the counts of a job within the attempts of the webhook queue and the stalls of
\* its worker.
THEOREM WebhooksTypeCorrect == WebhooksSpec => []WebhooksTypeOK
<1>1. WebhooksInit => WebhooksTypeOK
  BY WebhooksInit0 DEF WebhooksInv
<1>2. QED
  BY <1>1, WebhooksTypeStep, PTL DEF WebhooksSpec

\* However often a dispatcher repeats an event, crashes in its loop or stalls,
\* no hook is posted it more often than its job may run, for any numbers of
\* hooks, events, attempts and stalls (the job ids of the dispatcher and the
\* attempts of the webhook queue).
THEOREM PostsStayBounded == WebhooksSpec => []PostsAreBounded
<1>1. WebhooksInv /\ [WebhooksNext]_webhooksVars => WebhooksInv'
  BY WebhooksTypeStep, JobsStep DEF WebhooksInv
<1>2. WebhooksInv => PostsAreBounded
  <2> SUFFICES ASSUME WebhooksInv, NEW p \in Pairs
               PROVE  posts[p] <= HookAttempts + MaxStalls
    BY DEF PostsAreBounded
  <2>1. PICK j \in Jobs : j = hookJobs[p]
    BY DEF WebhooksInv, WebhooksTypeOK
  <2>2. /\ posts[p] \in Nat /\ j.errors \in Nat /\ j.stalls \in Nat
        /\ HookAttempts \in Nat /\ MaxStalls \in Nat
    BY WebhooksAssumption DEF WebhooksInv, WebhooksTypeOK, Jobs
  <2>3. posts[p] <= PostsOf(j) /\ (j.state # "failed" => HasLeft(j)) /\ Within(j)
    BY <2>1 DEF WebhooksInv, JobsAreBounded, BoundedJob
  <2>4. QED
    BY <2>2, <2>3 DEF PostsOf, HasLeft, Within
<1>3. QED
  BY <1>1, <1>2, WebhooksInit0, PTL DEF WebhooksSpec

-----------------------------------------------------------------------------
(***************************************************************************)
(* Screens.  A panel that has not heard of a change it is told of has a    *)
(* request under way that will, or an event still to come.                 *)
(***************************************************************************)

\* An event of change c is to come, or a request that ended, was answered or is
\* still to be answered knows it.
KnowsOf(c) ==
  \/ \E e \in unsent : e.change = c
  \/ best >= c
  \/ \E i \in PanelSlots : asking[i] = Sent \/ asking[i] >= c

Informed == Mounted /\ ~deaf => \A c \in (1 .. changes) \ silent : KnowsOf(c)

ScreensInv == ScreensTypeOK /\ Informed

LEMMA ScreensInit0 == ScreensInit => ScreensInv
<1> SUFFICES ASSUME ScreensInit PROVE ScreensInv
  OBVIOUS
<1>1. MaxChanges \in Nat /\ MaxTurns \in Nat
  BY ScreensAssumption
<1>2. ScreensTypeOK
  <2>1. linked \in BOOLEAN /\ deaf \in BOOLEAN /\ place = "away" /\ room = "out" /\ unsent = {}
        /\ silent = {} /\ panel \in Panels
    BY DEF ScreensInit
  <2>2. /\ changes \in 0 .. MaxChanges /\ turns \in 0 .. MaxTurns /\ best \in 0 .. MaxChanges
        /\ display \in -1 .. MaxChanges
    BY <1>1 DEF ScreensInit
  <2>3. asking \in [PanelSlots -> Vacant .. MaxChanges]
    BY <1>1 DEF ScreensInit, Vacant
  <2>4. QED
    BY <2>1, <2>2, <2>3 DEF ScreensTypeOK
<1>3. Informed
  BY DEF ScreensInit, Informed
<1>4. QED
  BY <1>2, <1>3 DEF ScreensInv

LEMMA FetchOrdersSends ==
  ASSUME ScreensTypeOK, FetchOrders
  PROVE  /\ asking' \in [PanelSlots -> Vacant .. MaxChanges] /\ deaf' = FALSE
         /\ \E i \in PanelSlots : asking'[i] = Sent
<1>1. MaxChanges \in Nat
  BY ScreensAssumption
<1>2. PICK i \in PanelSlots : asking' = [asking EXCEPT ![i] = Sent]
  BY DEF FetchOrders
<1>3. QED
  BY <1>1, <1>2 DEF FetchOrders, ScreensTypeOK, Sent, Vacant

\* What is sent now will know every change.
LEMMA SentInforms ==
  ASSUME \E i \in PanelSlots : asking'[i] = Sent PROVE Informed'
<1>1. PICK i \in PanelSlots : asking'[i] = Sent
  OBVIOUS
<1>2. \A c : KnowsOf(c)'
  BY <1>1 DEF KnowsOf
<1>3. QED
  BY <1>2 DEF Informed

\* A change of which the panel hears nothing is one of those it is known not to.
LEMMA OnlyUntoldIsUnheard ==
  ASSUME panel \in Panels, NEW events \in Transactions[panel], Heard(events) = {}
  PROVE  events \in Untold[panel]
<1>1. events["order"] \notin Listens[panel] /\ events["position"] \notin Listens[panel]
  BY DEF Heard
<1>2. CASE panel = "orders"
  BY <1>1, <1>2 DEF Listens, Transactions, Transaction, Fills, Ends, Untold
<1>3. CASE panel = "metrics"
  BY <1>1, <1>3 DEF Listens, Transactions, Transaction, Fills, Ends, Untold, ClosingPart
<1>4. CASE panel = "positions"
  BY <1>1, <1>4 DEF Listens, Transactions, Transaction, Fills, Ends, Untold, ClosingPart
<1>5. QED
  BY <1>2, <1>3, <1>4 DEF Panels

\* A change leaves the events the panel listens to, or is silent.
LEMMA CommitStep ==
  ASSUME ScreensTypeOK, NEW events \in Transactions[panel], Commit(events)
  PROVE  /\ changes' = changes + 1 /\ changes' \in 0 .. MaxChanges
         /\ unsent' \subseteq [change : 1 .. MaxChanges, of : {"order", "position"}]
         /\ silent' \subseteq 1 .. MaxChanges /\ silent \subseteq silent' /\ unsent \subseteq unsent'
         /\ changes' \in silent' \/ \E e \in unsent' : e.change = changes'
<1>1. MaxChanges \in Nat /\ changes \in 0 .. MaxChanges
  BY ScreensAssumption DEF ScreensTypeOK
<1>2. PICK n \in 1 .. MaxChanges : n = changes + 1 /\ n = changes'
  BY <1>1 DEF Commit
<1>3. PICK H \in SUBSET {"order", "position"} : H = Heard(events)
  BY DEF Heard
<1>4. unsent' = unsent \cup {[change |-> n, of |-> of] : of \in H}
  BY <1>2, <1>3 DEF Commit
<1>5. silent' = IF events \in Untold[panel] THEN silent \cup {n} ELSE silent
  BY <1>2 DEF Commit
<1>6. unsent' \subseteq [change : 1 .. MaxChanges, of : {"order", "position"}]
  BY <1>2, <1>4 DEF ScreensTypeOK
<1>7. n \in silent' \/ \E e \in unsent' : e.change = n
  <2>1. CASE H = {}
    <3>1. events \in Untold[panel]
      BY <1>3, <2>1, OnlyUntoldIsUnheard DEF ScreensTypeOK
    <3>2. QED
      BY <1>5, <3>1
  <2>2. CASE H # {}
    <3>1. PICK of \in H : TRUE
      BY <2>2
    <3>2. [change |-> n, of |-> of] \in unsent'
      BY <1>4, <3>1
    <3>3. [change |-> n, of |-> of].change = n
      OBVIOUS
    <3>4. QED
      BY <3>2, <3>3
  <2>3. QED
    BY <2>1, <2>2
<1>8. silent' \subseteq 1 .. MaxChanges /\ silent \subseteq silent'
  BY <1>2, <1>5 DEF ScreensTypeOK
<1>9. QED
  BY <1>1, <1>2, <1>4, <1>6, <1>7, <1>8

LEMMA ScreensStep == ScreensInv /\ [ScreensNext]_screensVars => ScreensInv'
<1> SUFFICES ASSUME ScreensInv, [ScreensNext]_screensVars PROVE ScreensInv'
  OBVIOUS
<1> USE DEF ScreensInv
<1>0. MaxChanges \in Nat /\ MaxTurns \in Nat /\ changes \in Nat /\ turns \in Nat
  BY ScreensAssumption DEF ScreensTypeOK
<1>1. ASSUME NEW events \in Transactions[panel], Change(events) PROVE ScreensInv'
  <2>0. /\ Commit(events)
        /\ UNCHANGED <<panel, place, linked, room, asking, display, best, deaf, turns>>
    BY <1>1 DEF Change
  <2>1. ScreensTypeOK'
    BY <2>0, CommitStep DEF ScreensTypeOK
  <2>2. ASSUME Mounted', ~deaf', NEW c \in (1 .. changes') \ silent' PROVE KnowsOf(c)'
    <3>1. CASE c = changes'
      BY <2>0, <2>2, <3>1, CommitStep DEF KnowsOf
    <3>2. CASE c # changes'
      <4>1. c \in (1 .. changes) \ silent
        BY <1>0, <2>0, <2>2, <3>2, CommitStep
      <4>2. Mounted /\ ~deaf
        BY <2>0, <2>2 DEF Mounted
      <4>3. KnowsOf(c)
        BY <4>1, <4>2 DEF Informed
      <4>4. QED
        BY <2>0, <4>3, CommitStep DEF KnowsOf
    <3>3. QED
      BY <3>1, <3>2
  <2>3. Informed'
    BY <2>2 DEF Informed
  <2>4. QED
    BY <2>1, <2>3
\* What leaves the database, the events and the requests alone.
<1>a. ASSUME UNCHANGED <<panel, place, changes, unsent, silent, asking, best, deaf>> PROVE Informed'
  BY <1>a DEF Informed, KnowsOf, Mounted
<1>2. CASE SocketConnects
  <2>0. UNCHANGED <<panel, place, changes, unsent, silent, display, best, turns>>
    BY <1>2 DEF SocketConnects
  <2>1. linked' = TRUE /\ room' \in {"joining", "out"}
    BY <1>2 DEF SocketConnects
  <2>2. ASSUME Mounted PROVE ScreensInv'
    <3>1. FetchOrders
      BY <1>2, <2>2 DEF SocketConnects
    <3>2. ScreensTypeOK'
      BY <2>0, <2>1, <3>1, FetchOrdersSends DEF ScreensTypeOK
    <3>3. QED
      BY <3>1, <3>2, FetchOrdersSends, SentInforms
  <2>3. ASSUME ~Mounted PROVE ScreensInv'
    <3>1. UNCHANGED <<asking, deaf>>
      BY <1>2, <2>3 DEF SocketConnects
    <3>2. ScreensTypeOK'
      BY <2>0, <2>1, <3>1 DEF ScreensTypeOK
    <3>3. QED
      BY <1>a, <2>0, <3>1, <3>2
  <2>4. QED
    BY <2>2, <2>3
<1>3. CASE Joined
  <2>1. ScreensTypeOK'
    BY <1>3 DEF Joined, ScreensTypeOK
  <2>2. QED
    BY <1>3, <1>a, <2>1 DEF Joined
<1>4. CASE SocketBreaks
  <2>1. turns' \in 0 .. MaxTurns
    BY <1>0, <1>4 DEF SocketBreaks, Turned
  <2>2. ScreensTypeOK'
    BY <1>4, <2>1 DEF SocketBreaks, ScreensTypeOK
  <2>3. QED
    BY <1>4, <1>a, <2>2 DEF SocketBreaks
<1>5. CASE CancelHere
  <2>1. /\ FetchOrders /\ Commit(Transaction("ORDER_CANCELLED"))
        /\ UNCHANGED <<panel, place, linked, room, display, best, turns>>
    BY <1>5 DEF CancelHere
  <2>2. Transaction("ORDER_CANCELLED") \in Transactions[panel]
    BY <1>5 DEF CancelHere, Transactions, Ends
  <2>3. ScreensTypeOK'
    BY <2>1, <2>2, FetchOrdersSends, CommitStep DEF ScreensTypeOK
  <2>4. QED
    BY <2>1, <2>3, FetchOrdersSends, SentInforms
<1>6. ASSUME NEW v \in unsent, Broadcast(v) PROVE ScreensInv'
  <2>0. /\ unsent' = unsent \ {v}
        /\ UNCHANGED <<panel, changes, place, linked, room, display, best, silent, turns>>
    BY <1>6 DEF Broadcast
  <2>1. CASE Hears
    <3>1. FetchOrders
      BY <1>6, <2>1 DEF Broadcast
    <3>2. ScreensTypeOK'
      BY <2>0, <3>1, FetchOrdersSends DEF ScreensTypeOK
    <3>3. QED
      BY <3>1, <3>2, FetchOrdersSends, SentInforms
  <2>2. CASE ~Hears
    <3>1. asking' = asking /\ deaf' = (deaf \/ (Mounted /\ room # "in"))
      BY <1>6, <2>2 DEF Broadcast
    <3>2. ScreensTypeOK'
      BY <2>0, <3>1 DEF ScreensTypeOK
    <3>3. Mounted' => deaf'
      BY <2>0, <2>2, <3>1 DEF Hears, Mounted
    <3>4. QED
      BY <3>2, <3>3 DEF Informed
  <2>3. QED
    BY <2>1, <2>2
<1>7. ASSUME NEW p \in {"away", "terminal", "dashboard"}, Visit(p) PROVE ScreensInv'
  <2>1. PICK i \in PanelSlots :
          asking' = [j \in PanelSlots |-> IF j = i /\ Mounted' THEN Sent ELSE Vacant]
    BY <1>7 DEF Visit
  <2>2. asking' \in [PanelSlots -> Vacant .. MaxChanges]
    BY <1>0, <2>1 DEF Sent, Vacant
  <2>3. /\ changes' = changes /\ unsent' = unsent /\ silent' = silent /\ linked' = linked
        /\ panel' = panel /\ place' = p
        /\ display' = -1 /\ best' = 0 /\ deaf' = FALSE /\ turns < MaxTurns /\ turns' = turns + 1
        /\ room' \in {room, "joining"}
    BY <1>7 DEF Visit, Turned
  <2>4. ScreensTypeOK'
    <3>1. {linked', deaf'} \subseteq BOOLEAN
      BY <2>3 DEF ScreensTypeOK
    <3>2. room' \in {"out", "joining", "in"}
      BY <2>3 DEF ScreensTypeOK
    <3>3. turns' \in 0 .. MaxTurns /\ display' \in -1 .. MaxChanges /\ best' \in 0 .. MaxChanges
      BY <1>0, <2>3 DEF ScreensTypeOK
    <3>4. QED
      BY <2>2, <2>3, <3>1, <3>2, <3>3 DEF ScreensTypeOK
  <2>5. Mounted' => asking'[i] = Sent
    BY <2>1
  <2>6. Informed'
    <3>1. CASE Mounted'
      BY <2>5, <3>1, SentInforms
    <3>2. CASE ~Mounted'
      BY <3>2 DEF Informed
    <3>3. QED
      BY <3>1, <3>2
  <2>7. QED
    BY <2>4, <2>6
\* What one request knows may pass to another or to what is shown.
<1>b. ASSUME UNCHANGED <<panel, place, changes, unsent, silent, deaf>>,
             \A c \in 1 .. changes : KnowsOf(c) => KnowsOf(c)'
      PROVE  Informed'
  BY <1>b DEF Informed, Mounted
<1>8. ASSUME NEW i \in PanelSlots, Query(i) PROVE ScreensInv'
  <2>1. asking' = [asking EXCEPT ![i] = changes] /\ asking[i] = Sent
    BY <1>8 DEF Query
  <2>2. UNCHANGED <<panel, changes, unsent, silent, place, linked, room, display, best, deaf, turns>>
    BY <1>8 DEF Query
  <2>3. /\ asking' \in [PanelSlots -> Vacant .. MaxChanges] /\ asking'[i] = changes
        /\ \A j \in PanelSlots \ {i} : asking'[j] = asking[j]
    BY <1>0, <2>1 DEF ScreensTypeOK, Vacant
  <2>4. ScreensTypeOK'
    BY <2>2, <2>3 DEF ScreensTypeOK
  <2>5. ASSUME NEW c \in 1 .. changes PROVE KnowsOf(c)'
    BY <1>0, <2>3, <2>5 DEF KnowsOf
  <2>6. QED
    BY <1>b, <2>2, <2>4, <2>5
<1>9. ASSUME NEW i \in PanelSlots, ShowAnswer(i) PROVE ScreensInv'
  <2>1. /\ asking[i] >= 0 /\ asking' = [asking EXCEPT ![i] = Vacant] /\ display' = asking[i]
        /\ best' = IF asking[i] > best THEN asking[i] ELSE best
    BY <1>9 DEF ShowAnswer
  <2>2. UNCHANGED <<panel, changes, unsent, silent, place, linked, room, deaf, turns>>
    BY <1>9 DEF ShowAnswer
  <2>3. asking[i] \in 0 .. MaxChanges /\ best \in Nat
    BY <1>0, <2>1 DEF ScreensTypeOK, Vacant
  <2>4. /\ asking' \in [PanelSlots -> Vacant .. MaxChanges]
        /\ \A j \in PanelSlots \ {i} : asking'[j] = asking[j]
    BY <1>0, <2>1 DEF ScreensTypeOK, Vacant
  <2>5. ScreensTypeOK'
    BY <1>0, <2>1, <2>2, <2>3, <2>4 DEF ScreensTypeOK
  <2>6. ASSUME NEW c \in 1 .. changes, KnowsOf(c) PROVE KnowsOf(c)'
    <3>1. asking[i] # Sent /\ c \in Int /\ best' >= best /\ best' >= asking[i] /\ best' \in Int
      BY <1>0, <2>1, <2>3 DEF Sent
    <3>2. CASE \E e \in unsent : e.change = c
      BY <2>2, <3>2 DEF KnowsOf
    <3>3. CASE best >= c
      <4>1. best' >= c
        BY <2>3, <3>1, <3>3
      <4>2. QED
        BY <4>1 DEF KnowsOf
    <3>4. ASSUME NEW j \in PanelSlots, asking[j] = Sent \/ asking[j] >= c PROVE KnowsOf(c)'
      <4>1. CASE j = i
        <5>1. best' >= c
          BY <2>3, <3>1, <3>4, <4>1
        <5>2. QED
          BY <5>1 DEF KnowsOf
      <4>2. CASE j # i
        BY <2>4, <3>4, <4>2 DEF KnowsOf
      <4>3. QED
        BY <4>1, <4>2
    <3>5. QED
      BY <2>6, <3>2, <3>3, <3>4 DEF KnowsOf
  <2>7. QED
    BY <1>b, <2>2, <2>5, <2>6
<1>10. ASSUME NEW i \in PanelSlots, RequestFails(i) PROVE ScreensInv'
  <2>1. asking' = [asking EXCEPT ![i] = Vacant] /\ display' = -1 /\ best' = changes
    BY <1>10 DEF RequestFails
  <2>2. /\ UNCHANGED <<panel, changes, unsent, silent, place, linked, room, deaf>>
        /\ turns < MaxTurns /\ turns' = turns + 1
    BY <1>10 DEF RequestFails, Turned
  <2>3. asking' \in [PanelSlots -> Vacant .. MaxChanges]
    BY <1>0, <2>1 DEF ScreensTypeOK, Vacant
  <2>4. ScreensTypeOK'
    BY <1>0, <2>1, <2>2, <2>3 DEF ScreensTypeOK
  <2>5. ASSUME NEW c \in 1 .. changes PROVE KnowsOf(c)'
    BY <1>0, <2>1, <2>5 DEF KnowsOf
  <2>6. QED
    BY <1>b, <2>2, <2>4, <2>5
<1>11. CASE UNCHANGED screensVars
  <2>1. ScreensTypeOK'
    BY <1>11 DEF screensVars, ScreensTypeOK
  <2>2. QED
    BY <1>11, <1>a, <2>1 DEF screensVars
<1>12. QED
  BY <1>1, <1>2, <1>3, <1>4, <1>5, <1>6, <1>7, <1>8, <1>9, <1>10, <1>11 DEF ScreensNext

\* A panel without a request under way and without an event to come shows its
\* data as they are, unless a request failed, an older answer came last, it was
\* outside the room, or every change since is one it is not told of: no other
\* order of changes, broadcasts, queries and answers leaves it behind, for each
\* panel and any number of requests and changes (the panels and the socket they
\* share).
THEOREM StaleScreensAreExplained == ScreensSpec => []StaleScreenHasACause
<1>1. ScreensInv => StaleScreenHasACause
  <2> SUFFICES ASSUME ScreensInv, Mounted, unsent = {}, \A i \in PanelSlots : asking[i] = Vacant,
                      ~deaf, display # -1, ~(display < best),
                      NEW c \in (display + 1) .. changes, c \notin silent
               PROVE  FALSE
    BY DEF StaleScreenHasACause
  <2>1. changes \in Nat /\ display \in Nat /\ best \in Nat
    BY ScreensAssumption DEF ScreensInv, ScreensTypeOK
  <2>2. c \in (1 .. changes) \ silent /\ c > display
    BY <2>1
  <2>3. KnowsOf(c)
    BY <2>2 DEF ScreensInv, Informed
  <2>4. best >= c
    BY <2>2, <2>3 DEF KnowsOf, Sent, Vacant
  <2>5. QED
    BY <2>1, <2>2, <2>4
<1>2. QED
  BY <1>1, ScreensInit0, ScreensStep, PTL DEF ScreensSpec

\* What the panels ask for, show and were sent keeps its types (the state of the
\* lists of orders and the queries of their component).
THEOREM ScreensTypeCorrect == ScreensSpec => []ScreensTypeOK
<1>1. ScreensInv => ScreensTypeOK
  BY DEF ScreensInv
<1>2. QED
  BY <1>1, ScreensInit0, ScreensStep, PTL DEF ScreensSpec

-----------------------------------------------------------------------------
(***************************************************************************)
(* Theorems about listings.  A row nothing ties with has a place that every *)
(* answer of the database gives it: after the rows listed before it.  Rows  *)
(* that are added can only move it back, so a walk that has shown some      *)
(* pages still has in front of it every row it has not shown, and it ends   *)
(* when the rows counted do not go beyond its page.                         *)
(***************************************************************************)

\* No other row has the time of r.
Untied(r) == \A q \in Rows \ {r} : created[q] # created[r]

\* Nothing excuses a walk that does not show r.
Owed(r) ==
  CASE table = "orders"  -> ~disturbed
    [] table = "history" -> TRUE
    [] OTHER             -> Untied(r)

Comparable(r) == \A q \in Rows \ {r} : ListedBefore(q, r) \/ ListedBefore(r, q)

Ahead(r) == {q \in Rows : ListedBefore(q, r)}
Place(r) == Cardinality(Ahead(r))

PagesShown == IF "rows" \in queriesDone THEN walkPage ELSE walkPage - 1

\* The days of a history only come at its end.
HistoryGrows ==
  /\ walkPage <= 1
  /\ \A r, q \in Rows : r # q => created[r] # created[q]
  /\ \A r \in askedRows : Ahead(r) \subseteq askedRows

\* A row that was not shown is behind the pages shown, and not behind the last.
NotPassed(r) ==
  /\ walkPage = 0 => table = "history" /\ Place(r) >= PageLimit
  /\ walkPage > 0 => Place(r) >= PagesShown * PageLimit
  /\ queriesDone = {"rows", "count"} => rowCount > walkPage * PageLimit

\* The inductive invariant.
Walks ==
  /\ ListingsTypeOK
  /\ \A r \in RowIds : created[r] <= moment
  /\ askedRows \subseteq Rows
  /\ walkPage = 0 => queriesDone = {}
  /\ table # "orders" /\ "count" \in queriesDone => "rows" \in queriesDone
  /\ queriesDone = {"count"} /\ ~disturbed => rowCount = Cardinality(Rows)
  /\ table = "history" => HistoryGrows
  /\ \A r \in askedRows \ seenRows : Owed(r) => NotPassed(r)

LEMMA RowsAreFinite ==
  /\ IsFiniteSet(Rows) /\ Cardinality(Rows) \in 0 .. Cardinality(RowIds)
  /\ \A r \in Rows : IsFiniteSet(Ahead(r)) /\ Place(r) \in Nat
<1>1. Rows \in SUBSET RowIds
  BY DEF Rows
<1>2. IsFiniteSet(Rows) /\ Cardinality(Rows) <= Cardinality(RowIds)
  BY <1>1, FS_Subset, ListingsAssumption
<1>3. Cardinality(Rows) \in Nat /\ Cardinality(RowIds) \in Nat
  BY <1>2, FS_CardinalityType, ListingsAssumption
<1>4. ASSUME NEW r \in Rows PROVE IsFiniteSet(Ahead(r)) /\ Place(r) \in Nat
  <2>1. Ahead(r) \in SUBSET Rows
    BY DEF Ahead
  <2> QED BY <2>1, <1>2, FS_Subset, FS_CardinalityType DEF Place
<1> QED BY <1>2, <1>3, <1>4

LEMMA NoRowBeforeItself ==
  ASSUME ListingsTypeOK, NEW r \in Rows
  PROVE  ~ListedBefore(r, r)
<1>1. r \in Nat /\ created[r] \in Nat
  BY ListingsAssumption DEF Rows, ListingsTypeOK
<1> QED BY <1>1 DEF ListedBefore

\* A row has a place among the rows.
LEMMA PlaceBelowCount ==
  ASSUME ListingsTypeOK, NEW r \in Rows
  PROVE  Place(r) < Cardinality(Rows)
<1>1. ~ListedBefore(r, r)
  BY NoRowBeforeItself
<1>2. Ahead(r) \in SUBSET (Rows \ {r})
  BY <1>1 DEF Ahead
<1>3. IsFiniteSet(Rows \ {r}) /\ Cardinality(Rows \ {r}) = Cardinality(Rows) - 1
  BY RowsAreFinite, FS_RemoveElement
<1>4. Place(r) <= Cardinality(Rows \ {r})
  BY <1>2, <1>3, FS_Subset DEF Place
<1> QED BY <1>3, <1>4, RowsAreFinite

LEMMA OwedIsComparable ==
  ASSUME ListingsTypeOK, table = "history" => HistoryGrows, NEW r \in Rows, Owed(r)
  PROVE  Comparable(r)
<1> SUFFICES ASSUME NEW q \in Rows \ {r} PROVE ListedBefore(q, r) \/ ListedBefore(r, q)
  BY DEF Comparable
<1>1. created[q] \in Int /\ created[r] \in Int /\ q \in Int /\ r \in Int /\ q # r
  BY ListingsAssumption DEF Rows, ListingsTypeOK
<1>2. CASE table = "orders"
  BY <1>1, <1>2 DEF ListedBefore
<1>3. CASE table # "orders"
  <2>1. created[q] # created[r]
    BY <1>3 DEF Owed, HistoryGrows, Untied
  <2> QED BY <2>1, <1>1, <1>3 DEF ListedBefore
<1> QED BY <1>2, <1>3

\* The database returns a row that is comparable to all others at its place.
LEMMA RowAtItsPlace ==
  ASSUME ListingsTypeOK, NEW s \in Orderings, NEW r \in Rows, Comparable(r)
  PROVE  Place(r) + 1 \in 1 .. Len(s) /\ s[Place(r) + 1] = r
<1> DEFINE n == Cardinality(Rows)
<1>1. n \in Nat /\ IsFiniteSet(Rows)
  BY RowsAreFinite
<1>2. /\ s \in [1 .. n -> Rows]
      /\ \A i, j \in 1 .. n : i # j => s[i] # s[j]
      /\ Len(s) = n
  <2>1. /\ s \in [1 .. n -> Rows]
        /\ \A i, j \in 1 .. n : i # j => s[i] # s[j]
    BY DEF Orderings, SetToSeqs
  <2>2. Len(s) = n
    BY <2>1, <1>1
  <2> QED BY <2>1, <2>2
<1>3. \A i, j \in 1 .. n : i < j => ~ListedBefore(s[j], s[i])
  BY <1>2 DEF Orderings
<1>4. \A q \in Rows : \E i \in 1 .. n : s[i] = q
  <2>1. s \in Injection(1 .. n, Rows)
    BY <1>2, Zenon DEF Injection, IsInjective
  <2>2. Cardinality(1 .. n) = n
    BY <1>1, FS_Interval
  <2>3. s \in Surjection(1 .. n, Rows)
    BY <2>1, <2>2, <1>1, FS_Injection
  <2> QED BY <2>3 DEF Surjection
<1> PICK k \in 1 .. n : s[k] = r
  BY <1>4
<1>5. ~ListedBefore(r, r)
  BY NoRowBeforeItself
<1>6. \A i \in 1 .. n : ListedBefore(s[i], r) <=> i < k
  <2> SUFFICES ASSUME NEW i \in 1 .. n PROVE ListedBefore(s[i], r) <=> i < k
    OBVIOUS
  <2>1. CASE i < k
    <3>1. s[i] \in Rows \ {r}
      BY <2>1, <1>2, <1>1
    <3>2. ~ListedBefore(r, s[i])
      BY <2>1, <1>3
    <3> QED BY <3>1, <3>2, <2>1 DEF Comparable
  <2>2. CASE i = k
    BY <2>2, <1>5, <1>1
  <2>3. CASE k < i
    BY <2>3, <1>3, <1>1
  <2> QED BY <2>1, <2>2, <2>3, <1>1
<1> DEFINE g == [i \in 1 .. k - 1 |-> s[i]]
<1>7. g \in Bijection(1 .. k - 1, Ahead(r))
  <2>1. \A i \in 1 .. k - 1 : i \in 1 .. n /\ i < k
    BY <1>1
  <2>2. g \in [1 .. k - 1 -> Ahead(r)]
    BY <2>1, <1>2, <1>6 DEF Ahead
  <2>3. g \in Injection(1 .. k - 1, Ahead(r))
    <3>1. \A i, j \in 1 .. k - 1 : g[i] = g[j] => i = j
      BY <2>1, <1>2
    <3> QED BY <3>1, <2>2, Zenon DEF Injection, IsInjective
  <2>4. ASSUME NEW q \in Ahead(r) PROVE \E i \in 1 .. k - 1 : g[i] = q
    <3>1. q \in Rows /\ ListedBefore(q, r)
      BY DEF Ahead
    <3>2. PICK i \in 1 .. n : s[i] = q
      BY <3>1, <1>4
    <3>3. i < k
      BY <3>1, <3>2, <1>6
    <3>4. i \in 1 .. k - 1
      BY <3>3, <1>1
    <3> QED BY <3>2, <3>4
  <2> QED BY <2>2, <2>3, <2>4 DEF Bijection, Surjection
<1>8. Place(r) = k - 1
  <2>1. IsFiniteSet(1 .. k - 1) /\ Cardinality(1 .. k - 1) = k - 1
    <3>1. k - 1 \in Nat
      BY <1>1
    <3>2. /\ IsFiniteSet(1 .. k - 1)
          /\ Cardinality(1 .. k - 1) = IF 1 > k - 1 THEN 0 ELSE k - 1 - 1 + 1
      BY <3>1, FS_Interval
    <3> QED BY <3>1, <3>2
  <2>2. ExistsBijection(1 .. k - 1, Ahead(r))
    BY <1>7 DEF ExistsBijection
  <2> QED BY <2>1, <2>2, FS_Bijection DEF Place
<1> QED BY <1>8, <1>2, <1>1

\* A page shows the rows in its range: those it skips are further on.
LEMMA PageShowsItsRange ==
  ASSUME ListingsTypeOK, NEW s \in Orderings, NEW p \in Nat \ {0},
         NEW r \in Rows, Comparable(r), Place(r) >= (p - 1) * PageLimit,
         r \notin Fetched(p, s)
  PROVE  Place(r) >= p * PageLimit
<1> DEFINE k == Place(r) + 1
<1>1. k \in 1 .. Len(s) /\ s[k] = r
  BY RowAtItsPlace
<1>2. ~(Skip(p) < k /\ k <= Skip(p) + PageLimit)
  BY <1>1 DEF Fetched
<1>3. Skip(p) + PageLimit = p * PageLimit /\ Skip(p) \in Int
  BY ListingsAssumption DEF Skip
<1>4. Place(r) \in Nat
  BY RowsAreFinite
<1> QED BY <1>2, <1>3, <1>4, ListingsAssumption DEF Skip

\* What a step leaves alone.
LEMMA SameRows ==
  ASSUME UNCHANGED <<table, created>>
  PROVE  /\ Rows' = Rows
         /\ \A r : Ahead(r)' = Ahead(r) /\ Place(r)' = Place(r)
         /\ \A r : Untied(r)' = Untied(r)
         /\ disturbed' = disturbed => \A r : Owed(r)' = Owed(r)
<1>1. Rows' = Rows
  BY DEF Rows
<1>2. \A r : Ahead(r)' = Ahead(r)
  BY <1>1 DEF Ahead, ListedBefore
<1>3. \A r : Place(r)' = Place(r)
  BY <1>2 DEF Place
<1>4. \A r : Untied(r)' = Untied(r)
  BY <1>1 DEF Untied
<1>5. ASSUME disturbed' = disturbed, NEW r PROVE Owed(r)' = Owed(r)
  BY <1>4, <1>5 DEF Owed
<1> QED BY <1>1, <1>2, <1>3, <1>4, <1>5

-----------------------------------------------------------------------------
LEMMA WalksInit == ListingsInit => Walks
<1> SUFFICES ASSUME ListingsInit PROVE Walks
  OBVIOUS
<1>1. Rows = {} /\ askedRows = {}
  BY DEF ListingsInit, Rows
<1>2. ListingsTypeOK
  <2>1. Cardinality(RowIds) \in Nat
    BY FS_CardinalityType, ListingsAssumption
  <2>2. 0 \in 0 .. Cardinality(RowIds) /\ 0 \in 0 .. LastMoment /\ 1 \in 1 .. LastMoment
    BY <2>1, ListingsAssumption
  <2>3. created \in [RowIds -> 0 .. LastMoment]
    BY <2>2 DEF ListingsInit
  <2> QED BY <2>2, <2>3 DEF ListingsInit, ListingsTypeOK, Tables
<1> QED BY <1>1, <1>2 DEF ListingsInit, Walks

LEMMA ChooseTableStep ==
  ASSUME Walks, NEW t \in Tables, Choose(t)
  PROVE  Walks'
<1>1. Rows = {} /\ askedRows = {} /\ Rows' = {} /\ askedRows' = {}
  BY DEF Choose, walkVars, Walks, Rows
<1>2. ListingsTypeOK'
  BY DEF Choose, walkVars, Walks, ListingsTypeOK
<1>3. walkPage' = 0 /\ queriesDone' = {}
  BY DEF Choose, walkVars, Walks
<1>4. HistoryGrows'
  BY <1>1, <1>3 DEF HistoryGrows
<1> QED BY <1>1, <1>2, <1>3, <1>4 DEF Choose, walkVars, Walks

LEMMA LaterStep ==
  ASSUME Walks, Later
  PROVE  Walks'
<1>1. ListingsTypeOK'
  <2>1. moment' \in 1 .. LastMoment
    BY ListingsAssumption DEF Later, Walks, ListingsTypeOK
  <2> QED BY <2>1 DEF Later, walkVars, Walks, ListingsTypeOK
<1>2. \A r \in RowIds : created'[r] <= moment'
  BY DEF Later, Walks, ListingsTypeOK
<1>3. HistoryGrows => HistoryGrows'
  BY SameRows DEF Later, walkVars, HistoryGrows
<1>4. \A r : Owed(r)' = Owed(r) /\ NotPassed(r)' = NotPassed(r)
  BY SameRows DEF Later, walkVars, NotPassed, PagesShown
<1> QED BY <1>1, <1>2, <1>3, <1>4, SameRows DEF Later, walkVars, Walks

\* Rows that are added leave the others in their order.
LEMMA AddedRows ==
  ASSUME Walks, NEW R \in SUBSET RowIds, NEW time \in 1 .. moment, Add(R, time)
  PROVE  /\ Rows' = Rows \cup R
         /\ \A r \in Rows : created'[r] = created[r]
         /\ \A r \in R : created'[r] = time
         /\ \A q, r \in Rows : ListedBefore(q, r)' <=> ListedBefore(q, r)
         /\ \A r \in Rows : Place(r)' >= Place(r) /\ Place(r)' \in Nat
<1>1. created' = [r \in RowIds |-> IF r \in R THEN time ELSE created[r]]
      /\ R \cap Rows = {} /\ table' = table
  BY DEF Add
<1>2. time > 0 /\ moment \in Nat /\ \A r \in RowIds : created[r] \in Nat
  BY DEF Walks, ListingsTypeOK
<1>3. Rows' = Rows \cup R
  BY <1>1, <1>2 DEF Rows
<1>4. \A r \in Rows : created'[r] = created[r]
  BY <1>1 DEF Rows
<1>5. \A q, r \in Rows : ListedBefore(q, r)' <=> ListedBefore(q, r)
  BY <1>1, <1>4 DEF ListedBefore
<1>6. ASSUME NEW r \in Rows PROVE Place(r)' >= Place(r) /\ Place(r)' \in Nat
  <2>1. r \in Rows'
    BY <1>3
  <2>2. IsFiniteSet(Ahead(r)') /\ Place(r)' \in Nat
    <3>1. Rows' \in SUBSET RowIds /\ Ahead(r)' \in SUBSET RowIds
      BY DEF Rows, Ahead
    <3> QED BY <3>1, FS_Subset, FS_CardinalityType, ListingsAssumption DEF Place
  <2>3. Ahead(r) \in SUBSET (Ahead(r)')
    BY <1>3, <1>5 DEF Ahead
  <2>4. Cardinality(Ahead(r)) <= Cardinality(Ahead(r)')
    BY <2>2, <2>3, FS_Subset
  <2>5. Place(r) \in Nat
    BY RowsAreFinite
  <2> QED BY <2>2, <2>4, <2>5 DEF Place
<1>7. \A r \in R : created'[r] = time
  BY <1>1
<1> QED BY <1>3, <1>4, <1>5, <1>6, <1>7

LEMMA AddStep ==
  ASSUME Walks, NEW R \in SUBSET RowIds, NEW time \in 1 .. moment, Add(R, time)
  PROVE  Walks'
<1>1. UNCHANGED <<table, moment, walkPage, queriesDone, rowCount, askedRows, seenRows>>
      /\ disturbed' = (disturbed \/ queriesDone = {"count"})
  BY DEF Add
<1>2. ListingsTypeOK'
  <2>1. created' \in [RowIds -> 0 .. LastMoment]
    <3>1. time \in 0 .. LastMoment
      BY ListingsAssumption DEF Walks, ListingsTypeOK
    <3> QED BY <3>1 DEF Add, Walks, ListingsTypeOK
  <2> QED BY <2>1, <1>1 DEF Walks, ListingsTypeOK
<1>3. \A r \in RowIds : created'[r] <= moment'
  <2>1. time <= moment
    BY DEF Walks, ListingsTypeOK
  <2> QED BY <2>1, <1>1 DEF Add, Walks
<1>4. askedRows' \subseteq Rows'
  BY <1>1, AddedRows DEF Walks
<1>5. ~(queriesDone' = {"count"} /\ ~disturbed')
  BY <1>1
<1>6. ASSUME table' = "history" PROVE HistoryGrows'
  <2>1. HistoryGrows /\ table = "history"
    BY <1>6, <1>1 DEF Walks
  <2>2. time = moment /\ (\A r \in Rows : created[r] # time) /\ Cardinality(R) = 1
    BY <2>1 DEF Add
  <2>3. \A q \in R, r \in R : q = r
    <3>1. IsFiniteSet(R)
      BY FS_Subset, ListingsAssumption
    <3>2. PICK x : R = {x}
      BY <3>1, <2>2, FS_Singleton
    <3> QED BY <3>2
  <2>4. \A r, q \in Rows' : r # q => created'[r] # created'[q]
    <3> SUFFICES ASSUME NEW r \in Rows', NEW q \in Rows', r # q
                 PROVE  created'[r] # created'[q]
      OBVIOUS
    <3>1. r \in Rows \cup R /\ q \in Rows \cup R
      BY AddedRows
    <3>2. CASE r \in Rows /\ q \in Rows
      BY <3>2, <2>1, AddedRows DEF HistoryGrows
    <3>3. CASE r \in R /\ q \in Rows
      BY <3>3, <2>2, AddedRows
    <3>4. CASE r \in Rows /\ q \in R
      BY <3>4, <2>2, AddedRows
    <3>5. CASE r \in R /\ q \in R
      BY <3>5, <2>3
    <3> QED BY <3>1, <3>2, <3>3, <3>4, <3>5
  <2>5. ASSUME NEW r \in askedRows', NEW q \in Ahead(r)' PROVE q \in askedRows'
    <3>1. r \in askedRows /\ r \in Rows /\ r \in RowIds
      BY <1>1 DEF Walks, Rows
    <3>2. q \in Rows \cup R /\ ListedBefore(q, r)'
      BY AddedRows DEF Ahead
    <3>3. CASE q \in Rows
      <4>1. q \in Ahead(r)
        BY <3>1, <3>2, <3>3, AddedRows DEF Ahead
      <4> QED BY <4>1, <3>1, <2>1, <1>1 DEF HistoryGrows
    <3>4. CASE q \in R
      <4>1. created'[q] < created'[r]
        BY <3>2, <1>6 DEF ListedBefore
      <4>2. moment < created[r]
        BY <4>1, <3>1, <3>4, <2>2, AddedRows
      <4>3. created[r] <= moment /\ created[r] \in Int /\ moment \in Int
        BY <3>1 DEF Walks, ListingsTypeOK
      <4> QED BY <4>2, <4>3
    <3> QED BY <3>2, <3>3, <3>4
  <2> QED BY <2>1, <2>4, <2>5, <1>1 DEF HistoryGrows
<1>7. ASSUME NEW r \in (askedRows \ seenRows)', Owed(r)' PROVE NotPassed(r)'
  <2>1. r \in askedRows \ seenRows /\ r \in Rows
    BY <1>1 DEF Walks
  <2>2. Owed(r)
    <3>1. Untied(r)' => Untied(r)
      <4> SUFFICES ASSUME Untied(r)', NEW q \in Rows \ {r} PROVE created[q] # created[r]
        BY DEF Untied
      <4> QED BY <2>1, AddedRows DEF Untied
    <3> QED BY <3>1, <1>1, <1>7 DEF Owed
  <2>3. NotPassed(r)
    BY <2>1, <2>2 DEF Walks
  <2>4. Place(r)' >= Place(r) /\ Place(r)' \in Nat /\ Place(r) \in Nat
    BY <2>1, AddedRows, RowsAreFinite
  <2>5. PagesShown' = PagesShown /\ PagesShown * PageLimit \in Int
    BY <1>1, ListingsAssumption DEF PagesShown, Walks, ListingsTypeOK
  <2> QED BY <2>3, <2>4, <2>5, <1>1, ListingsAssumption DEF NotPassed
<1> QED BY <1>1, <1>2, <1>3, <1>4, <1>5, <1>6, <1>7 DEF Walks

\* An order that leaves excuses the walk that is under way.
LEMMA LeaveStep ==
  ASSUME Walks, NEW r \in RowIds, Leave(r)
  PROVE  Walks'
<1>1. /\ table = "orders" /\ table' = "orders" /\ r \in Rows
      /\ UNCHANGED <<moment, walkPage, queriesDone, rowCount>>
      /\ askedRows' = askedRows \ {r} /\ seenRows' = seenRows \ {r}
      /\ disturbed' = (disturbed \/ walkPage > 0)
  BY DEF Leave
<1>2. created' = [created EXCEPT ![r] = 0]
  BY DEF Leave
<1>3. ListingsTypeOK'
  <2>1. created' \in [RowIds -> 0 .. LastMoment]
    BY <1>2, ListingsAssumption DEF Walks, ListingsTypeOK
  <2> QED BY <2>1, <1>1 DEF Walks, ListingsTypeOK
<1>4. \A q \in RowIds : created'[q] <= moment'
  BY <1>1, <1>2 DEF Walks, ListingsTypeOK
<1>5. askedRows' \subseteq Rows'
  BY <1>1, <1>2 DEF Walks, ListingsTypeOK, Rows
<1>6. ~(queriesDone' = {"count"} /\ ~disturbed')
  <2>1. walkPage = 0 \/ walkPage > 0
    BY DEF Walks, ListingsTypeOK
  <2>2. walkPage = 0 => queriesDone = {}
    BY DEF Walks
  <2> QED BY <2>1, <2>2, <1>1
<1>7. ASSUME NEW q \in (askedRows \ seenRows)' PROVE ~Owed(q)'
  <2>1. q \in askedRows \ seenRows
    BY <1>1
  <2>2. walkPage = 0 => ~Owed(q)
    BY <2>1, <1>1 DEF Walks, NotPassed
  <2>3. walkPage = 0 \/ walkPage > 0
    BY DEF Walks, ListingsTypeOK
  <2>4. disturbed'
    BY <2>2, <2>3, <1>1 DEF Owed
  <2> QED BY <2>4, <1>1 DEF Owed
<1> QED BY <1>1, <1>3, <1>4, <1>5, <1>6, <1>7 DEF Walks

LEMMA OpenStep ==
  ASSUME Walks, Open
  PROVE  Walks'
<1>1. /\ walkPage = 0 /\ walkPage' = 1 /\ queriesDone = {} /\ queriesDone' = {}
      /\ askedRows' = Rows /\ Rows' = Rows
      /\ UNCHANGED <<table, created, moment, rowCount>>
  BY SameRows DEF Open, Walks
<1>2. ListingsTypeOK'
  <2>1. seenRows' = {} /\ disturbed' = FALSE /\ Rows \subseteq RowIds
    BY DEF Open, Rows
  <2> QED BY <2>1, <1>1 DEF Walks, ListingsTypeOK
<1>3. HistoryGrows => HistoryGrows'
  BY <1>1 DEF HistoryGrows, Ahead
<1>4. ASSUME NEW r \in (askedRows \ seenRows)' PROVE NotPassed(r)'
  <2>1. Place(r)' = Place(r) /\ Place(r) \in Nat
    BY <1>1, SameRows, RowsAreFinite
  <2>2. PagesShown' * PageLimit = 0
    BY <1>1, ListingsAssumption DEF PagesShown
  <2> QED BY <2>1, <2>2, <1>1 DEF NotPassed
<1> QED BY <1>1, <1>2, <1>3, <1>4 DEF Walks

LEMMA QueryRowsStep ==
  ASSUME Walks, QueryRows
  PROVE  Walks'
<1>1. /\ walkPage > 0 /\ "rows" \notin queriesDone /\ queriesDone' = queriesDone \cup {"rows"}
      /\ UNCHANGED <<table, created, moment, walkPage, rowCount, askedRows, disturbed>>
  BY DEF QueryRows
<1>2. PICK s \in Orderings : seenRows' = seenRows \cup Fetched(walkPage, s)
  BY DEF QueryRows
<1>3. ListingsTypeOK'
  <2>1. Fetched(walkPage, s) \subseteq RowIds
    <3>1. s \in [1 .. Cardinality(Rows) -> Rows]
      BY DEF Orderings, SetToSeqs
    <3>2. Len(s) = Cardinality(Rows)
      BY <3>1, RowsAreFinite
    <3> QED BY <3>1, <3>2 DEF Fetched, Rows
  <2> QED BY <2>1, <1>1, <1>2 DEF Walks, ListingsTypeOK
<1>4. HistoryGrows => HistoryGrows'
  BY <1>1, SameRows DEF HistoryGrows
<1>5. ASSUME NEW r \in (askedRows \ seenRows)', Owed(r)' PROVE NotPassed(r)'
  <2>1. r \in askedRows \ seenRows /\ r \in Rows /\ r \notin Fetched(walkPage, s)
    BY <1>1, <1>2 DEF Walks
  <2>2. Owed(r)
    BY <1>1, <1>5, SameRows
  <2>3. Place(r) >= (walkPage - 1) * PageLimit
    BY <2>1, <2>2, <1>1 DEF Walks, NotPassed, PagesShown
  <2>4. walkPage \in Nat \ {0}
    BY <1>1 DEF Walks, ListingsTypeOK
  <2>5. Comparable(r)
    BY <2>1, <2>2, OwedIsComparable DEF Walks
  <2>6. Place(r) >= walkPage * PageLimit
    BY <2>1, <2>3, <2>4, <2>5, PageShowsItsRange DEF Walks
  <2>7. Place(r)' = Place(r) /\ PagesShown' = walkPage
    BY <1>1, SameRows DEF PagesShown
  <2>8. ASSUME queriesDone' = {"rows", "count"} PROVE rowCount' > walkPage' * PageLimit
    <3>1. queriesDone = {"count"}
      BY <2>8, <1>1
    <3>2. table = "orders"
      BY <3>1 DEF Walks
    <3>3. rowCount = Cardinality(Rows)
      BY <3>1, <3>2, <2>2 DEF Owed, Walks
    <3>4. Place(r) < Cardinality(Rows) /\ Place(r) \in Nat /\ Cardinality(Rows) \in Nat
      BY <2>1, PlaceBelowCount, RowsAreFinite DEF Walks
    <3>5. walkPage * PageLimit \in Nat
      BY <2>4, ListingsAssumption
    <3> QED BY <3>3, <3>4, <3>5, <2>6, <1>1
  <2> QED BY <2>6, <2>7, <2>8, <1>1 DEF NotPassed, Walks, ListingsTypeOK
<1> QED BY <1>1, <1>3, <1>4, <1>5, SameRows DEF Walks, ListingsTypeOK

LEMMA QueryCountStep ==
  ASSUME Walks, QueryCount
  PROVE  Walks'
<1>1. /\ walkPage > 0 /\ "count" \notin queriesDone /\ queriesDone' = queriesDone \cup {"count"}
      /\ table = "orders" \/ "rows" \in queriesDone
      /\ rowCount' = Cardinality(Rows)
      /\ UNCHANGED <<table, created, moment, walkPage, askedRows, seenRows, disturbed>>
  BY DEF QueryCount
<1>2. ListingsTypeOK'
  BY <1>1, RowsAreFinite DEF Walks, ListingsTypeOK
<1>3. HistoryGrows => HistoryGrows'
  BY <1>1, SameRows DEF HistoryGrows
<1>4. ASSUME NEW r \in (askedRows \ seenRows)', Owed(r)' PROVE NotPassed(r)'
  <2>1. r \in askedRows \ seenRows /\ r \in Rows
    BY <1>1 DEF Walks
  <2>2. NotPassed(r)
    BY <2>1, <1>4, <1>1, SameRows DEF Walks
  <2>3. Place(r)' = Place(r) /\ PagesShown' = PagesShown
    BY <1>1, SameRows DEF PagesShown
  <2>4. ASSUME queriesDone' = {"rows", "count"} PROVE rowCount' > walkPage' * PageLimit
    <3>1. PagesShown = walkPage
      BY <2>4, <1>1 DEF PagesShown
    <3>2. Place(r) >= walkPage * PageLimit
      BY <3>1, <2>2, <1>1 DEF NotPassed
    <3>3. Place(r) < Cardinality(Rows) /\ Place(r) \in Nat /\ Cardinality(Rows) \in Nat
      BY <2>1, PlaceBelowCount, RowsAreFinite DEF Walks
    <3>4. walkPage * PageLimit \in Int
      BY ListingsAssumption DEF Walks, ListingsTypeOK
    <3> QED BY <3>2, <3>3, <3>4, <1>1
  <2> QED BY <2>2, <2>3, <2>4, <1>1 DEF NotPassed
<1> QED BY <1>1, <1>2, <1>3, <1>4, SameRows DEF Walks, ListingsTypeOK

\* A walk that ends has shown every row it owes, or it was of a history.
LEMMA TurnStep ==
  ASSUME Walks, Turn
  PROVE  Walks'
<1>1. /\ queriesDone = {"rows", "count"} /\ queriesDone' = {} /\ rowCount' = 0
      /\ walkPage' = IF table = "history" \/ walkPage * PageLimit >= rowCount
                     THEN 0 ELSE walkPage + 1
      /\ UNCHANGED <<table, created, moment, askedRows, seenRows, disturbed>>
  BY DEF Turn
<1>2. walkPage \in Nat \ {0} /\ rowCount \in Nat
  BY <1>1 DEF Walks, ListingsTypeOK
<1>3. ListingsTypeOK'
  <2>1. 0 \in 0 .. Cardinality(RowIds)
    BY FS_CardinalityType, ListingsAssumption
  <2> QED BY <2>1, <1>1, <1>2 DEF Walks, ListingsTypeOK
<1>4. table = "history" => HistoryGrows'
  BY <1>1, SameRows DEF HistoryGrows, Walks
<1>5. ASSUME NEW r \in (askedRows \ seenRows)', Owed(r)' PROVE NotPassed(r)'
  <2>1. r \in askedRows \ seenRows /\ r \in Rows
    BY <1>1 DEF Walks
  <2>2. NotPassed(r)
    BY <2>1, <1>5, <1>1, SameRows DEF Walks
  <2>3. Place(r)' = Place(r) /\ Place(r) \in Nat
    BY <1>1, <2>1, SameRows, RowsAreFinite
  <2>4. Place(r) >= walkPage * PageLimit /\ rowCount > walkPage * PageLimit
    BY <2>2, <1>1, <1>2 DEF NotPassed, PagesShown
  <2>5. walkPage * PageLimit \in Nat
    BY <1>2, ListingsAssumption
  <2>6. ~(walkPage * PageLimit >= rowCount)
    BY <2>4, <2>5, <1>2
  <2>7. CASE table = "history"
    <3>1. walkPage = 1
      BY <2>7, <1>2 DEF Walks, HistoryGrows
    <3>2. Place(r) >= PageLimit
      BY <3>1, <2>4, ListingsAssumption
    <3> QED BY <3>2, <2>3, <2>7, <1>1 DEF NotPassed
  <2>8. CASE table # "history"
    <3>1. walkPage' = walkPage + 1
      BY <2>6, <2>8, <1>1
    <3>2. PagesShown' = walkPage
      BY <3>1, <1>1, <1>2 DEF PagesShown
    <3> QED BY <3>1, <3>2, <2>3, <2>4, <1>1, <1>2 DEF NotPassed
  <2> QED BY <2>7, <2>8
<1>6. walkPage' = 0 => queriesDone' = {}
  BY <1>1
<1> QED BY <1>1, <1>3, <1>4, <1>5, <1>6, SameRows DEF Walks

LEMMA WalksStep == Walks /\ [ListingsNext]_listingsVars => Walks'
<1> SUFFICES ASSUME Walks, [ListingsNext]_listingsVars PROVE Walks'
  OBVIOUS
<1>1. CASE Later
  BY <1>1, LaterStep
<1>2. CASE Open
  BY <1>2, OpenStep
<1>3. CASE QueryRows
  BY <1>3, QueryRowsStep
<1>4. CASE QueryCount
  BY <1>4, QueryCountStep
<1>5. CASE Turn
  BY <1>5, TurnStep
<1>6. ASSUME NEW t \in Tables, Choose(t) PROVE Walks'
  BY <1>6, ChooseTableStep
<1>7. ASSUME NEW R \in SUBSET RowIds, NEW time \in 1 .. moment, Add(R, time) PROVE Walks'
  BY <1>7, AddStep
<1>8. ASSUME NEW r \in RowIds, Leave(r) PROVE Walks'
  BY <1>8, LeaveStep
<1>9. CASE UNCHANGED listingsVars
  <2>1. UNCHANGED <<table, created>> /\ disturbed' = disturbed
    BY <1>9 DEF listingsVars
  <2>2. \A r : Owed(r)' = Owed(r) /\ NotPassed(r)' = NotPassed(r)
    BY <2>1, <1>9, SameRows DEF listingsVars, NotPassed, PagesShown
  <2>3. HistoryGrows => HistoryGrows'
    BY <2>1, <1>9, SameRows DEF listingsVars, HistoryGrows
  <2>4. ListingsTypeOK'
    BY <1>9 DEF listingsVars, Walks, ListingsTypeOK
  <2> QED BY <2>1, <2>2, <2>3, <2>4, <1>9, SameRows DEF listingsVars, Walks
<1> QED BY <1>1, <1>2, <1>3, <1>4, <1>5, <1>6, <1>7, <1>8, <1>9 DEF ListingsNext

LEMMA WalksMeansCause == Walks => MissesHaveACause
<1> SUFFICES ASSUME Walks, walkPage = 0, NEW r \in askedRows \ seenRows
             PROVE  CASE table = "orders"  -> disturbed
                      [] table = "history" ->
                           Cardinality({q \in askedRows : ListedBefore(q, r)}) >= PageLimit
                      [] OTHER             -> \E q \in Rows \ {r} : created[q] = created[r]
  BY DEF MissesHaveACause
<1>1. Owed(r) => table = "history" /\ Place(r) >= PageLimit
  BY DEF Walks, NotPassed
<1>2. CASE table = "orders"
  BY <1>1, <1>2 DEF Owed
<1>3. CASE table = "history"
  <2>1. Place(r) >= PageLimit
    BY <1>1, <1>3 DEF Owed
  <2>2. Ahead(r) \subseteq askedRows /\ askedRows \subseteq Rows
    BY <1>3 DEF Walks, HistoryGrows
  <2>3. {q \in askedRows : ListedBefore(q, r)} = Ahead(r)
    BY <2>2 DEF Ahead
  <2> QED BY <2>1, <2>3, <1>3 DEF Place
<1>4. CASE table # "orders" /\ table # "history"
  BY <1>1, <1>4 DEF Owed, Untied
<1> QED BY <1>2, <1>3, <1>4

\* The variables of the listings keep their types.
THEOREM ListingsTypeCorrect == ListingsSpec => []ListingsTypeOK
<1>1. Walks => ListingsTypeOK
  BY DEF Walks
<1> QED BY <1>1, WalksInit, WalksStep, PTL DEF ListingsSpec

\* A client that reads page after page misses a row only for the causes named
\* there: an order that left or came between the two queries of a page
\* (getOrders), entries of the same time (fills, ledger), the limit of the history.
THEOREM MissesAreExplained == ListingsSpec => []MissesHaveACause
BY WalksInit, WalksStep, WalksMeansCause, PTL DEF ListingsSpec
=============================================================================
