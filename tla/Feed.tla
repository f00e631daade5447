-------------------------------- MODULE Feed --------------------------------
(***************************************************************************)
(* The market feed: of several feed processes the one that holds the lease *)
(* feed:global simulates the market while the session is open.             *)
(*                                                                         *)
(* A process and Redis talk over one connection: commands are executed and *)
(* answered in the order they were sent, but anything may happen between   *)
(* the execution of a command and its answer, and a heartbeat does not     *)
(* wait for the one before.  A connection that breaks sends the commands   *)
(* without an answer again.  The lease expires when it is not renewed; it  *)
(* expires under a holder that is alive only when something is late.       *)
(*                                                                         *)
(* All symbols are started and stopped together and are taken as one.      *)
(***************************************************************************)
EXTENDS Integers, Sequences

CONSTANTS
  Feeds,       \* the feed processes
  Nobody,      \* no process
  Departed,    \* a process that is gone: its token is never used again
  MaxFlight,   \* bound, for each process: its commands without an answer
  MaxLapses    \* bound: late renewals, broken connections, errors, crashes

ASSUME FeedAssumption ==
  /\ {Nobody, Departed} \cap Feeds = {} /\ Nobody # Departed
  /\ MaxFlight \in [Feeds -> Nat \ {0}] /\ MaxLapses \in Nat

VARIABLES
  marketOpen,   \* the session
  feed,         \* the state of each process
  flight,       \* its commands without an answer, oldest first
  feedLease,    \* Redis: the process feed:global names
  lapsed,       \* history: processes whose lease expired, or whose connection
                \* broke, since they started
  cache,        \* Redis: prices:latest as a reader finds it: none is "stale"
  lapses

feedVars == <<marketOpen, feed, flight, feedLease, lapsed, cache, lapses>>

\* isOwned, whether simulations run, and whether the heartbeat has begun.
Down == [up |-> "down", owned |-> FALSE, simulating |-> FALSE, beating |-> FALSE]

FeedInit ==
  /\ marketOpen = FALSE /\ feed = [p \in Feeds |-> Down]
  /\ flight = [p \in Feeds |-> <<>>] /\ feedLease = Nobody /\ lapsed = {}
  /\ cache = "stale" /\ lapses = 0

Trouble == lapses < MaxLapses /\ lapses' = lapses + 1

Send(p, op) == flight' = [flight EXCEPT ![p] = Append(@, [op |-> op, result |-> "sent"])]

Session ==
  /\ marketOpen' = ~marketOpen
  /\ UNCHANGED <<feed, flight, feedLease, lapsed, cache, lapses>>

-----------------------------------------------------------------------------
\* FeedLeaseService.

\* start asks for the lease, whatever the session.
Boot(p) ==
  /\ feed[p].up = "down"
  /\ feed' = [feed EXCEPT ![p].up = "up"]
  /\ Send(p, "acquire")
  /\ UNCHANGED <<marketOpen, feedLease, lapsed, cache, lapses>>

\* heartbeat: without the lease ask for it in an open session; with it renew
\* it, or stop and release it once the session has closed.
Heartbeat(p) ==
  /\ feed[p].beating /\ Len(flight[p]) < MaxFlight[p]
  /\ IF ~feed[p].owned
     THEN marketOpen /\ Send(p, "acquire") /\ UNCHANGED feed
     ELSE IF marketOpen THEN Send(p, "renew") /\ UNCHANGED feed
     ELSE /\ feed' = [feed EXCEPT ![p].owned = FALSE, ![p].simulating = FALSE]
          /\ Send(p, "release")
  /\ UNCHANGED <<marketOpen, feedLease, lapsed, cache, lapses>>

\* Mutant: the lease is released whoever holds it.
FreedByAnyone(p) == Nobody

\* Both scripts compare the token of the process with the value of the key.
Freed(p) == IF feedLease = p THEN Nobody ELSE feedLease

\* Redis executes the oldest command it has not yet executed.
Execute(p) ==
  \E i \in 1 .. Len(flight[p]) :
    LET op == flight[p][i].op
        ok == IF op = "acquire" THEN feedLease = Nobody ELSE feedLease = p IN
    /\ flight[p][i].result = "sent" /\ \A j \in 1 .. i - 1 : flight[p][j].result # "sent"
    /\ flight' = [flight EXCEPT ![p][i].result = IF ok THEN "ok" ELSE "refused"]
    /\ feedLease' = CASE op = "acquire" /\ ok -> p
                      [] op = "release"       -> Freed(p)
                      [] OTHER                -> feedLease
    /\ UNCHANGED <<marketOpen, feed, lapsed, cache, lapses>>

\* What an answer does: a lease that was granted starts the simulations if the
\* session is open, one that is lost stops them.  The first answer starts the
\* heartbeat.
Answered(f, op, result) ==
  IF op = "acquire" THEN
    [f EXCEPT !.owned = @ \/ result = "ok",
              !.simulating = @ \/ (result = "ok" /\ ~f.owned /\ marketOpen),
              !.beating = f.up = "up"]
  ELSE IF op = "renew" /\ result # "ok" THEN [f EXCEPT !.owned = FALSE, !.simulating = FALSE]
  ELSE f

Answer(p) ==
  /\ flight[p] # <<>> /\ Head(flight[p]).result # "sent"
  /\ feed' = [feed EXCEPT ![p] = Answered(@, Head(flight[p]).op, Head(flight[p]).result)]
  /\ flight' = [flight EXCEPT ![p] = Tail(@)]
  /\ UNCHANGED <<marketOpen, feedLease, lapsed, cache, lapses>>

\* An error in place of an answer.  Nobody catches the one of a release: the
\* process ends.
Fails(p) ==
  /\ flight[p] # <<>> /\ Head(flight[p]).op # "release" /\ Trouble
  /\ feed' = [feed EXCEPT ![p] = Answered(@, Head(flight[p]).op, "error")]
  /\ flight' = [flight EXCEPT ![p] = Tail(@)]
  /\ UNCHANGED <<marketOpen, feedLease, lapsed, cache>>

Resend(p) ==
  /\ \E i \in 1 .. Len(flight[p]) : flight[p][i].result # "sent"
  /\ Trouble
  /\ flight' = [flight EXCEPT ![p] = [i \in 1 .. Len(@) |-> [@[i] EXCEPT !.result = "sent"]]]
  /\ lapsed' = lapsed \cup {p}
  /\ UNCHANGED <<marketOpen, feed, feedLease, cache>>

\* stop: the simulations end before the lease is given up; the process exits
\* when the release is answered.
Stop(p) ==
  /\ feed[p].up = "up" /\ feed[p].beating
  /\ feed' = [feed EXCEPT ![p].up = "stopping", ![p].beating = FALSE, ![p].simulating = FALSE]
  /\ IF feed[p].owned THEN Send(p, "release") ELSE UNCHANGED flight
  /\ UNCHANGED <<marketOpen, feedLease, lapsed, cache, lapses>>

\* Commands on their way may still be executed.
Gone(p) ==
  /\ feed' = [feed EXCEPT ![p] = Down] /\ flight' = [flight EXCEPT ![p] = <<>>]
  /\ lapsed' = lapsed \ {p}
  /\ feedLease' \in
       {IF feedLease = p THEN Departed ELSE feedLease} \cup
       {Departed : i \in {j \in 1 .. Len(flight[p]) :
                            flight[p][j].op = "acquire" /\ feedLease = Nobody}}
  /\ UNCHANGED <<marketOpen, cache>>

Exit(p) ==
  /\ feed[p].up = "stopping" /\ \A i \in 1 .. Len(flight[p]) : flight[p][i].op # "release"
  /\ Gone(p) /\ UNCHANGED lapses

FeedCrash(p) == feed[p].up # "down" /\ Trouble /\ Gone(p)

\* The lease runs out: of itself when its holder is dead or does not know of
\* it, late when the holder is about to renew it.
Knows(p) ==
  /\ p \in Feeds
  /\ \/ feed[p].owned
     \/ \E i \in 1 .. Len(flight[p]) : flight[p][i] = [op |-> "acquire", result |-> "ok"]

\* Mutant: the lease is set without an expiry.
KeptForGood == FALSE

\* acquire and renew set the expiry together with the key.
RunsOut == feedLease # Nobody

Expire ==
  /\ RunsOut
  /\ IF Knows(feedLease) THEN Trouble ELSE UNCHANGED lapses
  /\ lapsed' = lapsed \cup ({feedLease} \ {Departed})
  /\ feedLease' = Nobody
  /\ UNCHANGED <<marketOpen, feed, flight, cache>>

-----------------------------------------------------------------------------
\* MarketSimulatorService: from startSimulation to stopSimulation a timer emits
\* ticks.
Emits(p) == feed[p].simulating

\* A tick of the simulator is stored for the readers of prices and published
\* to the rooms and the channel; either may fail without the other.
Tick(p) ==
  /\ Emits(p)
  /\ \/ cache' = "fresh" /\ UNCHANGED lapses
     \/ Trouble /\ UNCHANGED cache
  /\ UNCHANGED <<marketOpen, feed, flight, feedLease, lapsed>>

\* STALE_PRICE_THRESHOLD_MS has passed since the last tick.
Ages ==
  /\ cache = "fresh" /\ cache' = "stale"
  /\ UNCHANGED <<marketOpen, feed, flight, feedLease, lapsed, lapses>>

FeedNext ==
  \/ Session \/ Expire \/ Ages
  \/ \E p \in Feeds :
       \/ Boot(p) \/ Heartbeat(p) \/ Execute(p) \/ Answer(p) \/ Fails(p) \/ Resend(p)
       \/ Stop(p) \/ Exit(p) \/ FeedCrash(p) \/ Tick(p)

FeedSpec == FeedInit /\ [][FeedNext]_feedVars

-----------------------------------------------------------------------------
Process == [up : {"down", "up", "stopping"}, owned : BOOLEAN,
            simulating : BOOLEAN, beating : BOOLEAN]
Command == [op : {"acquire", "renew", "release"}, result : {"sent", "ok", "refused"}]

FeedTypeOK ==
  /\ marketOpen \in BOOLEAN /\ lapses \in 0 .. MaxLapses
  /\ feed \in [Feeds -> Process] /\ flight \in [Feeds -> Seq(Command)]
  /\ feedLease \in Feeds \cup {Nobody, Departed} /\ lapsed \subseteq Feeds
  /\ cache \in {"stale", "fresh"}

\* A process that simulates the market holds the lease, or its lease expired
\* or its connection broke since it started: late answers, heartbeats that
\* overtake each other, releases of what is no longer one's own and restarts
\* alone never make two feeds (FeedLeaseService and its two scripts).
TwoFeedsMeanALapse == \A p \in Feeds : feed[p].simulating => feedLease = p \/ p \in lapsed

\* A process that got the lease from start() before the session opened keeps
\* it without simulating anything.
IdleOnLease(p) == feed[p].owned /\ ~feed[p].simulating

\* Once processes stop coming and going, one is left and none sits idly on
\* the lease, readers of an open market find recent prices again and again:
\* the lease of a process that died or lost it goes to another one.
OpenMarketHasPrices ==
  \A S \in SUBSET Feeds \ {{}} :
    <>[](marketOpen /\ \A p \in Feeds :
           ~IdleOnLease(p) /\ IF p \in S THEN feed[p].beating ELSE feed[p].up = "down")
      => []<>(cache = "fresh")
=============================================================================
