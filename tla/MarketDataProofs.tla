-------------------------- MODULE MarketDataProofs --------------------------
(***************************************************************************)
(* Theorems about market data: who feeds it, the candles made of it, the   *)
(* query for candles and the chart that shows them.  Each component is     *)
(* closed; its theorems are those of its own specification.                *)
(***************************************************************************)
EXTENDS Feed, Candles, MarketCandles, Chart, SumsProofs, SequenceTheorems,
  FunctionTheorems

-----------------------------------------------------------------------------
(***************************************************************************)
(* Theorems about the feed lease: types, and that a process simulates the  *)
(* market only while it holds the lease or after a lapse.                  *)
(***************************************************************************)

LEMMA FeedTypeInit == FeedInit => FeedTypeOK
<1> SUFFICES ASSUME FeedInit PROVE FeedTypeOK
  OBVIOUS
<1>1. Down \in Process
  BY DEF Down, Process
<1>2. <<>> \in Seq(Command)
  BY EmptySeq
<1>3. feed \in [Feeds -> Process] /\ flight \in [Feeds -> Seq(Command)]
  BY <1>1, <1>2 DEF FeedInit
<1>4. 0 \in 0 .. MaxLapses
  BY FeedAssumption
<1>5. QED
  BY <1>3, <1>4 DEF FeedInit, FeedTypeOK

LEMMA AnsweredType ==
  ASSUME NEW f \in Process, NEW op, NEW result, marketOpen \in BOOLEAN
  PROVE  Answered(f, op, result) \in Process
  BY DEF Answered, Process

\* Commands are sent, executed and answered: their list stays one.
LEMMA SendType ==
  ASSUME NEW l \in Seq(Command), NEW op \in {"acquire", "renew", "release"}
  PROVE  Append(l, [op |-> op, result |-> "sent"]) \in Seq(Command)
  BY DEF Command

LEMMA ExecuteType ==
  ASSUME NEW l \in Seq(Command), NEW i \in 1 .. Len(l), NEW r \in {"sent", "ok", "refused"}
  PROVE  [l EXCEPT ![i].result = r] \in Seq(Command)
<1>1. l[i] \in Command
  OBVIOUS
<1>2. [l[i] EXCEPT !.result = r] \in Command
  BY <1>1 DEF Command
<1>3. QED
  BY <1>2

LEMMA ResendType ==
  ASSUME NEW l \in Seq(Command)
  PROVE  [i \in 1 .. Len(l) |-> [l[i] EXCEPT !.result = "sent"]] \in Seq(Command)
<1> DEFINE k == [i \in 1 .. Len(l) |-> [l[i] EXCEPT !.result = "sent"]]
<1>0. Len(l) \in Nat /\ \A i \in 1 .. Len(l) : l[i] \in Command
  BY LenProperties, ElementOfSeq
<1>1. \A i \in 1 .. Len(l) : [l[i] EXCEPT !.result = "sent"] \in Command
  BY <1>0 DEF Command
<1>2. k \in [1 .. Len(l) -> Command]
  BY <1>1
<1>3. QED
  BY <1>0, <1>2, SeqDef

LEMMA FeedTypeStep == FeedTypeOK /\ [FeedNext]_feedVars => FeedTypeOK'
<1> SUFFICES ASSUME FeedTypeOK, [FeedNext]_feedVars
             PROVE  FeedTypeOK'
  OBVIOUS
<1> USE FeedAssumption DEF FeedTypeOK
<1>1. CASE Session
  BY <1>1 DEF Session
<1>2. CASE Expire
  BY <1>2 DEF Expire, RunsOut, Trouble
<1>3. CASE Ages
  BY <1>3 DEF Ages
<1>4. ASSUME NEW p \in Feeds, Boot(p) PROVE FeedTypeOK'
  <2>1. feed' \in [Feeds -> Process]
    BY <1>4, ZenonT(40) DEF Boot, Process
  <2>2. flight' \in [Feeds -> Seq(Command)]
    BY <1>4, SendType DEF Boot, Send
  <2>3. QED
    BY <1>4, <2>1, <2>2 DEF Boot
<1>5. ASSUME NEW p \in Feeds, Heartbeat(p) PROVE FeedTypeOK'
  <2>1. feed' \in [Feeds -> Process]
    <3>1. [feed[p] EXCEPT !.owned = FALSE, !.simulating = FALSE] \in Process
      BY ZenonT(40) DEF Process
    <3>2. QED
      BY <1>5, <3>1 DEF Heartbeat
  <2>2. flight' \in [Feeds -> Seq(Command)]
    <3>1. PICK op \in {"acquire", "renew", "release"} :
            flight' = [flight EXCEPT ![p] = Append(@, [op |-> op, result |-> "sent"])]
      BY <1>5 DEF Heartbeat, Send
    <3>2. QED
      BY <3>1, SendType
  <2>3. QED
    BY <1>5, <2>1, <2>2 DEF Heartbeat
<1>6. ASSUME NEW p \in Feeds, Execute(p) PROVE FeedTypeOK'
  <2>1. PICK i \in 1 .. Len(flight[p]) :
          /\ \E r \in {"sent", "ok", "refused"} : flight' = [flight EXCEPT ![p][i].result = r]
          /\ feedLease' \in {p, Freed(p), feedLease}
          /\ UNCHANGED <<marketOpen, feed, lapsed, cache, lapses>>
    BY <1>6 DEF Execute
  <2>2. flight' \in [Feeds -> Seq(Command)]
    <3>1. PICK r \in {"sent", "ok", "refused"} : flight' = [flight EXCEPT ![p][i].result = r]
      BY <2>1
    <3>2. [flight[p] EXCEPT ![i].result = r] \in Seq(Command)
      BY ExecuteType
    <3>3. QED
      BY <3>1, <3>2
  <2>3. QED
    BY <2>1, <2>2 DEF Freed
<1>7. ASSUME NEW p \in Feeds, Answer(p) \/ Fails(p) PROVE FeedTypeOK'
  <2>1. feed' \in [Feeds -> Process]
    <3>1. feed[p] \in Process /\ marketOpen \in BOOLEAN
      OBVIOUS
    <3>2. PICK op, result : feed' = [feed EXCEPT ![p] = Answered(@, op, result)]
      BY <1>7 DEF Answer, Fails
    <3>3. Answered(feed[p], op, result) \in Process
      BY <3>1, AnsweredType
    <3>4. QED
      BY <3>2, <3>3
  <2>2. flight' = [flight EXCEPT ![p] = Tail(@)] /\ flight[p] # <<>>
    BY <1>7 DEF Answer, Fails
  <2>3. flight' \in [Feeds -> Seq(Command)]
    BY <2>2
  <2>4. QED
    BY <1>7, <2>1, <2>3 DEF Answer, Fails, Trouble
<1>8. ASSUME NEW p \in Feeds, Resend(p) PROVE FeedTypeOK'
  <2>1. flight' \in [Feeds -> Seq(Command)]
    BY <1>8, ResendType DEF Resend
  <2>2. QED
    BY <1>8, <2>1 DEF Resend, Trouble
<1>9. ASSUME NEW p \in Feeds, Stop(p) PROVE FeedTypeOK'
  <2>1. feed' \in [Feeds -> Process]
    BY <1>9 DEF Stop, Process
  <2>2. flight' \in [Feeds -> Seq(Command)]
    <3>1. \/ UNCHANGED flight
          \/ flight' = [flight EXCEPT ![p] = Append(@, [op |-> "release", result |-> "sent"])]
      BY <1>9 DEF Stop, Send
    <3>2. Append(flight[p], [op |-> "release", result |-> "sent"]) \in Seq(Command)
      BY SendType
    <3>3. QED
      BY <3>1, <3>2
  <2>3. QED
    BY <1>9, <2>1, <2>2 DEF Stop
<1>10. ASSUME NEW p \in Feeds, Exit(p) \/ FeedCrash(p) PROVE FeedTypeOK'
  <2>1. Gone(p) /\ lapses' \in 0 .. MaxLapses
    BY <1>10 DEF Exit, FeedCrash, Trouble
  <2>2. Down \in Process /\ <<>> \in Seq(Command)
    BY EmptySeq DEF Down, Process
  <2>3. feed' \in [Feeds -> Process] /\ flight' \in [Feeds -> Seq(Command)]
    BY <2>1, <2>2 DEF Gone
  <2>4. feedLease' \in Feeds \cup {Nobody, Departed}
    BY <2>1 DEF Gone
  <2>5. QED
    BY <2>1, <2>3, <2>4 DEF Gone
<1>11. ASSUME NEW p \in Feeds, Tick(p) PROVE FeedTypeOK'
  BY <1>11 DEF Tick, Trouble
<1>12. CASE UNCHANGED feedVars
  BY <1>12 DEF feedVars
<1>13. QED
  BY <1>1, <1>2, <1>3, <1>4, <1>5, <1>6, <1>7, <1>8, <1>9, <1>10, <1>11, <1>12 DEF FeedNext

\* The processes, their commands and the lease keep their types, for any
\* number of feed processes and any bound on commands under way (main.feed.ts).
THEOREM FeedTypeCorrect == FeedSpec => []FeedTypeOK
  BY FeedTypeInit, FeedTypeStep, PTL DEF FeedSpec

-----------------------------------------------------------------------------
(***************************************************************************)
(* The commands of a process are executed in the order in which they were  *)
(* sent.  As long as its lease has not lapsed, a process that owns it is   *)
(* the one the key names, no granted acquisition is left in flight behind  *)
(* its back, and there is at most one release, which is sent after the     *)
(* simulations have ended.                                                 *)
(***************************************************************************)

Flying(p) == 1 .. Len(flight[p])
Unserved(p, i) == flight[p][i].result = "sent"
Acquires(p, i) == flight[p][i].op = "acquire"
Won(p, i) == Acquires(p, i) /\ flight[p][i].result = "ok"
Releases(p, i) == flight[p][i].op = "release"

InOrder(p) == \A i, j \in Flying(p) : i < j /\ Unserved(p, i) => Unserved(p, j)

Lifecycle(p) ==
  /\ feed[p].up = "down" => feed[p] = Down /\ flight[p] = <<>>
  /\ feed[p].beating => feed[p].up = "up"

\* What a lease that has not lapsed guarantees.
HoldsWhatItUses(p) ==
  /\ feed[p].simulating => feedLease = p
  /\ feed[p].owned /\ feed[p].up = "up" => feedLease = p
  /\ feed[p].owned => feedLease = p \/ \A i \in Flying(p) : Acquires(p, i) => ~Unserved(p, i)

GrantsAreNews(p) ==
  \A i \in Flying(p) : Won(p, i) =>
    /\ feedLease = p /\ ~feed[p].owned
    /\ \A j \in Flying(p) : /\ Won(p, j) => j = i
                            /\ Releases(p, j) => j < i

ReleasesAreLast(p) ==
  \A i \in Flying(p) : Releases(p, i) =>
    /\ ~feed[p].simulating
    /\ feed[p].owned => feed[p].up = "stopping" /\ i = Len(flight[p])
    /\ Unserved(p, i) => feedLease = p
    /\ \A j \in Flying(p) : Releases(p, j) => j = i

Safe(p) ==
  /\ InOrder(p) /\ Lifecycle(p)
  /\ p \notin lapsed => HoldsWhatItUses(p) /\ GrantsAreNews(p) /\ ReleasesAreLast(p)

FeedInv == FeedTypeOK /\ \A p \in Feeds : Safe(p)

LEMMA FeedInvInit == FeedInit => FeedInv
<1> SUFFICES ASSUME FeedInit, NEW p \in Feeds PROVE Safe(p)
  BY FeedTypeInit DEF FeedInv
<1>1. flight[p] = <<>> /\ feed[p] = Down /\ Len(flight[p]) = 0
  BY DEF FeedInit
<1>2. Flying(p) = {}
  BY <1>1 DEF Flying
<1>3. QED
  BY <1>1, <1>2 DEF Safe, InOrder, Lifecycle, HoldsWhatItUses, GrantsAreNews,
                   ReleasesAreLast, Down

\* A step of which a process notices nothing: its lease can go only by lapsing.
LEMMA Unnoticed ==
  ASSUME NEW p, Safe(p), feed'[p] = feed[p], flight'[p] = flight[p],
         p \in lapsed => p \in lapsed',
         feedLease = p => feedLease' = p \/ p \in lapsed'
  PROVE  Safe(p)'
<1>1. Flying(p)' = Flying(p)
  BY DEF Flying
<1>2. \A i : /\ (Unserved(p, i)' <=> Unserved(p, i)) /\ (Acquires(p, i)' <=> Acquires(p, i))
             /\ (Won(p, i)' <=> Won(p, i)) /\ (Releases(p, i)' <=> Releases(p, i))
  BY DEF Unserved, Acquires, Won, Releases
<1>3. InOrder(p)' /\ Lifecycle(p)'
  BY <1>1, <1>2 DEF Safe, InOrder, Lifecycle
<1>4. ASSUME p \notin lapsed'
      PROVE  HoldsWhatItUses(p)' /\ GrantsAreNews(p)' /\ ReleasesAreLast(p)'
  BY <1>1, <1>2, <1>4 DEF Safe, HoldsWhatItUses, GrantsAreNews, ReleasesAreLast
<1>5. QED
  BY <1>3, <1>4 DEF Safe

\* A command is sent: only the new last position of the list changes.
LEMMA SendStep ==
  ASSUME FeedTypeOK, NEW p \in Feeds, NEW op \in {"acquire", "renew", "release"},
         Send(p, op), Safe(p),
         feedLease' = feedLease, lapsed' = lapsed, Lifecycle(p)',
         feed'[p].simulating => feed[p].simulating,
         \/ op # "release" /\ feed'[p].owned = feed[p].owned
              /\ feed[p].up = feed'[p].up /\ feed[p].up # "stopping"
              /\ (op = "acquire" => ~feed[p].owned)
         \/ /\ op = "release" /\ feed[p].owned /\ feed[p].up = "up" /\ ~feed'[p].simulating
            /\ feed'[p].owned => feed'[p].up = "stopping"
  PROVE  Safe(p)'
<1>0. PICK n \in Nat : n = Len(flight[p])
  BY LenProperties DEF FeedTypeOK
<1>1. /\ Len(flight'[p]) = n + 1 /\ Flying(p)' = 1 .. n + 1
      /\ flight'[p][n + 1] = [op |-> op, result |-> "sent"]
      /\ \A i \in 1 .. n : flight'[p][i] = flight[p][i]
  <2>1. [op |-> op, result |-> "sent"] \in Command /\ flight[p] \in Seq(Command)
    BY DEF FeedTypeOK, Command
  <2>2. flight'[p] = Append(flight[p], [op |-> op, result |-> "sent"])
    BY DEF Send, FeedTypeOK
  <2>3. QED
    BY <1>0, <2>1, <2>2, AppendProperties DEF Flying
<1>2. /\ Unserved(p, n + 1)' /\ ~Won(p, n + 1)'
      /\ Acquires(p, n + 1)' <=> op = "acquire"
      /\ Releases(p, n + 1)' <=> op = "release"
  BY <1>1 DEF Unserved, Acquires, Won, Releases
<1>3. ASSUME NEW i \in 1 .. n
      PROVE  /\ (Unserved(p, i)' <=> Unserved(p, i)) /\ (Acquires(p, i)' <=> Acquires(p, i))
             /\ (Won(p, i)' <=> Won(p, i)) /\ (Releases(p, i)' <=> Releases(p, i))
  BY <1>1 DEF Unserved, Acquires, Won, Releases
<1>4. Flying(p) = 1 .. n
  BY <1>0 DEF Flying
<1>5. InOrder(p)'
  BY <1>0, <1>1, <1>2, <1>3, <1>4 DEF Safe, InOrder
<1>6. ASSUME p \notin lapsed
      PROVE  HoldsWhatItUses(p)' /\ GrantsAreNews(p)' /\ ReleasesAreLast(p)'
  <2>1. HoldsWhatItUses(p) /\ GrantsAreNews(p) /\ ReleasesAreLast(p)
    BY <1>6 DEF Safe
  <2>2. op = "release" => feedLease = p /\ \A i \in 1 .. n : ~Won(p, i) /\ ~Releases(p, i)
    BY <1>4, <2>1 DEF HoldsWhatItUses, GrantsAreNews, ReleasesAreLast
  <2>3. HoldsWhatItUses(p)'
    BY <1>0, <1>1, <1>2, <1>3, <1>4, <2>1, <2>2 DEF HoldsWhatItUses
  <2>4. GrantsAreNews(p)'
    BY <1>0, <1>1, <1>2, <1>3, <1>4, <2>1, <2>2 DEF GrantsAreNews
  <2>5. ReleasesAreLast(p)'
    BY <1>0, <1>1, <1>2, <1>3, <1>4, <2>1, <2>2 DEF ReleasesAreLast
  <2>6. QED
    BY <2>3, <2>4, <2>5
<1>7. QED
  BY <1>5, <1>6 DEF Safe

\* The oldest command is answered, or an error comes in place of the answer.
LEMMA AnswerStep ==
  ASSUME FeedTypeOK, NEW p \in Feeds, Safe(p), Answer(p) \/ Fails(p)
  PROVE  Safe(p)'
<1>1. PICK n \in Nat : n = Len(flight[p])
  BY LenProperties DEF FeedTypeOK
<1>2. /\ flight[p] # <<>> /\ flight[p] \in Seq(Command)
      /\ flight'[p] = Tail(flight[p]) /\ UNCHANGED <<feedLease, lapsed, marketOpen>>
  BY DEF Answer, Fails, FeedTypeOK
<1>3. /\ n >= 1 /\ Flying(p) = 1 .. n /\ Flying(p)' = 1 .. n - 1 /\ Len(flight'[p]) = n - 1
      /\ \A i \in 1 .. n - 1 : flight'[p][i] = flight[p][i + 1]
  BY <1>1, <1>2, HeadTailProperties, EmptySeq DEF Flying
<1>4. PICK op, result :
        /\ feed'[p] = Answered(feed[p], op, result) /\ op = flight[p][1].op
        /\ op = "acquire" /\ result = "ok" => Won(p, 1)
  <2>1. Head(flight[p]) = flight[p][1]
    BY <1>2
  <2>2. PICK result : /\ feed'[p] = Answered(feed[p], flight[p][1].op, result)
                      /\ result = flight[p][1].result \/ result = "error"
    BY <2>1 DEF Answer, Fails, FeedTypeOK
  <2>3. QED
    BY <2>2 DEF Won, Acquires
<1>5. ASSUME NEW i \in 1 .. n - 1
      PROVE  /\ (Unserved(p, i)' <=> Unserved(p, i + 1)) /\ (Acquires(p, i)' <=> Acquires(p, i + 1))
             /\ (Won(p, i)' <=> Won(p, i + 1)) /\ (Releases(p, i)' <=> Releases(p, i + 1))
  BY <1>3 DEF Unserved, Acquires, Won, Releases
<1>6. \/ /\ feed'[p].up = feed[p].up /\ (feed'[p].owned <=> feed[p].owned)
         /\ (feed'[p].simulating <=> feed[p].simulating)
      \/ /\ feed'[p].up = feed[p].up /\ ~feed'[p].owned /\ ~feed'[p].simulating
      \/ feed'[p].up = feed[p].up /\ Won(p, 1) /\ feed'[p].owned
  BY <1>4 DEF Answered, FeedTypeOK, Process
<1>7. InOrder(p)'
  <2>1. SUFFICES ASSUME NEW i \in 1 .. n - 1, NEW j \in 1 .. n - 1, i < j, Unserved(p, i)'
                 PROVE  Unserved(p, j)'
    BY <1>3 DEF InOrder
  <2>2. Unserved(p, i + 1) /\ i + 1 \in 1 .. n /\ j + 1 \in 1 .. n /\ i + 1 < j + 1
    BY <1>5, <2>1
  <2>3. QED
    BY <1>3, <1>5, <2>2 DEF Safe, InOrder
<1>8. Lifecycle(p)'
  <2>1. feed[p].up # "down" /\ feed'[p].up = feed[p].up
    BY <1>2, <1>6 DEF Safe, Lifecycle
  <2>2. feed'[p].beating => feed[p].up = "up"
    BY <1>4 DEF Answered, FeedTypeOK, Process, Safe, Lifecycle
  <2>3. QED
    BY <2>1, <2>2 DEF Lifecycle
<1>9. ASSUME p \notin lapsed
      PROVE  HoldsWhatItUses(p)' /\ GrantsAreNews(p)' /\ ReleasesAreLast(p)'
  <2>1. HoldsWhatItUses(p) /\ GrantsAreNews(p) /\ ReleasesAreLast(p)
    BY <1>9 DEF Safe
  <2>2. \A i \in 1 .. n - 1 : i + 1 \in 1 .. n /\ i + 1 # 1
    OBVIOUS
  <2>3. Won(p, 1) =>
          /\ feedLease = p
          /\ \A j \in 1 .. n - 1 : ~Won(p, j + 1) /\ ~Releases(p, j + 1)
    BY <1>3, <2>1, <2>2 DEF GrantsAreNews
  <2>4. HoldsWhatItUses(p)'
    BY <1>2, <1>3, <1>5, <1>6, <2>1, <2>2, <2>3 DEF HoldsWhatItUses
  <2>5. GrantsAreNews(p)'
    <3>1. ASSUME NEW i \in 1 .. n - 1, Won(p, i)'
          PROVE  /\ feedLease' = p /\ ~feed'[p].owned
                 /\ \A j \in 1 .. n - 1 : Won(p, j)' => j = i
                 /\ \A j \in 1 .. n - 1 : Releases(p, j)' => j < i
      <4>1. Won(p, i + 1) /\ i + 1 \in 1 .. n
        BY <1>5, <3>1
      <4>2. /\ feedLease = p /\ ~feed[p].owned
            /\ \A j \in 1 .. n : (Won(p, j) => j = i + 1) /\ (Releases(p, j) => j < i + 1)
        BY <1>3, <2>1, <4>1 DEF GrantsAreNews
      <4>3. feedLease' = p /\ ~feed'[p].owned
        BY <1>2, <1>6, <2>3, <4>1, <4>2
      <4>4. ASSUME NEW j \in 1 .. n - 1
            PROVE  (Won(p, j)' => j = i) /\ (Releases(p, j)' => j < i)
        <5>1. (Won(p, j + 1) => j + 1 = i + 1) /\ (Releases(p, j + 1) => j + 1 < i + 1)
          BY <2>2, <4>2
        <5>2. QED
          BY <1>5, <5>1
      <4>5. QED
        BY <4>3, <4>4
    <3>2. QED
      BY <1>3, <3>1 DEF GrantsAreNews
  <2>6. ReleasesAreLast(p)'
    <3>1. SUFFICES ASSUME NEW i \in 1 .. n - 1, Releases(p, i)'
                   PROVE  /\ ~feed'[p].simulating
                          /\ feed'[p].owned => feed'[p].up = "stopping" /\ i = n - 1
                          /\ Unserved(p, i)' => feedLease' = p
                          /\ \A j \in 1 .. n - 1 : Releases(p, j)' => j = i
      BY <1>3 DEF ReleasesAreLast
    <3>2. Releases(p, i + 1) /\ i + 1 \in 1 .. n
      BY <1>5, <3>1
    <3>3. /\ ~feed[p].simulating /\ (feed[p].owned => feed[p].up = "stopping" /\ i + 1 = n)
          /\ Unserved(p, i + 1) => feedLease = p
          /\ \A j \in 1 .. n : Releases(p, j) => j = i + 1
      BY <1>1, <1>3, <2>1, <3>2 DEF ReleasesAreLast
    <3>4. ~Won(p, 1)
      BY <2>3, <3>2
    <3>5. ASSUME NEW j \in 1 .. n - 1, Releases(p, j)' PROVE j = i
      <4>1. j + 1 = i + 1
        BY <1>5, <2>2, <3>3, <3>5
      <4>2. QED
        BY <4>1
    <3>6. QED
      BY <1>2, <1>5, <1>6, <3>3, <3>4, <3>5
  <2>7. QED
    BY <2>4, <2>5, <2>6
<1>10. QED
  BY <1>2, <1>7, <1>8, <1>9 DEF Safe

\* Redis executes the oldest command that it has not executed.
LEMMA ExecuteStep ==
  ASSUME FeedTypeOK, NEW p \in Feeds, Safe(p), Execute(p)
  PROVE  Safe(p)'
<1>1. PICK n \in Nat : n = Len(flight[p])
  BY LenProperties DEF FeedTypeOK
<1>2. PICK i \in 1 .. n, r \in {"ok", "refused"} :
        /\ Unserved(p, i) /\ flight' = [flight EXCEPT ![p][i].result = r]
        /\ Acquires(p, i) => IF r = "ok" THEN feedLease = Nobody /\ feedLease' = p
                                        ELSE feedLease # Nobody /\ feedLease' = feedLease
        /\ Releases(p, i) => feedLease' = IF feedLease = p THEN Nobody ELSE feedLease
        /\ ~Acquires(p, i) /\ ~Releases(p, i) => feedLease' = feedLease
        /\ \A j \in 1 .. i - 1 : ~Unserved(p, j)
        /\ UNCHANGED <<feed, lapsed>>
  BY <1>1 DEF Execute, Unserved, Acquires, Releases, Freed
<1>3. /\ Len(flight'[p]) = n /\ Flying(p) = 1 .. n /\ Flying(p)' = 1 .. n
      /\ \A j \in 1 .. n : flight'[p][j].op = flight[p][j].op
      /\ \A j \in 1 .. n : j # i => flight'[p][j] = flight[p][j]
      /\ flight'[p][i].result = r
  <2>1. flight[p] \in Seq(Command) /\ flight[p][i] \in Command /\ i \in 1 .. Len(flight[p])
    BY <1>1, ElementOfSeq DEF FeedTypeOK
  <2>2. PICK c \in Command : c = [flight[p][i] EXCEPT !.result = r]
    BY <2>1 DEF Command
  <2>3. flight'[p] = [flight[p] EXCEPT ![i] = c] /\ c.op = flight[p][i].op /\ c.result = r
    BY <1>2, <2>1, <2>2 DEF FeedTypeOK, Command
  <2>4. QED
    BY <1>1, <2>1, <2>3, ExceptSeq DEF Flying
<1>4. ASSUME NEW j \in 1 .. n
      PROVE  /\ (Acquires(p, j)' <=> Acquires(p, j)) /\ (Releases(p, j)' <=> Releases(p, j))
             /\ (Unserved(p, j)' <=> Unserved(p, j) /\ j # i)
             /\ (Won(p, j)' <=> Won(p, j) \/ (j = i /\ Acquires(p, i) /\ r = "ok"))
  <2>0. /\ flight'[p][j].op = flight[p][j].op
        /\ j # i => flight'[p][j] = flight[p][j]
    BY <1>3
  <2>1. (Acquires(p, j)' <=> Acquires(p, j)) /\ (Releases(p, j)' <=> Releases(p, j))
    BY <2>0 DEF Acquires, Releases
  <2>2. CASE j # i
    BY <2>0, <2>1, <2>2 DEF Unserved, Won
  <2>3. CASE j = i
    <3>1. Unserved(p, i) /\ ~Won(p, i) /\ flight'[p][i].result = r /\ r \in {"ok", "refused"}
      <4>1. flight[p][i].result = "sent"
        BY <1>2 DEF Unserved
      <4>2. QED
        BY <1>3, <4>1 DEF Unserved, Won
    <3>2. /\ ~Unserved(p, j)'
          /\ Won(p, j)' <=> Acquires(p, i) /\ r = "ok"
      BY <2>1, <2>3, <3>1 DEF Unserved, Won
    <3>3. QED
      BY <2>1, <2>3, <3>1, <3>2
  <2>4. QED
    BY <2>2, <2>3
<1>5. \A j \in i .. n : Unserved(p, j)
  BY <1>2, <1>3 DEF Safe, InOrder
<1>6. InOrder(p)' /\ Lifecycle(p)'
  <2>1. InOrder(p)'
    BY <1>2, <1>3, <1>4, <1>5 DEF Safe, InOrder
  <2>2. Lifecycle(p)'
    <3>1. feed[p].up # "down"
      BY <1>1, <1>2 DEF Safe, Lifecycle
    <3>2. QED
      BY <1>2, <3>1 DEF Safe, Lifecycle
  <2>3. QED
    BY <2>1, <2>2
<1>7. ASSUME p \notin lapsed
      PROVE  HoldsWhatItUses(p)' /\ GrantsAreNews(p)' /\ ReleasesAreLast(p)'
  <2>1. HoldsWhatItUses(p) /\ GrantsAreNews(p) /\ ReleasesAreLast(p)
    BY <1>7 DEF Safe
  <2>2. p # Nobody
    BY FeedAssumption
  <2>3. \A j \in 1 .. n : Won(p, j) => ~Unserved(p, j) /\ ~Releases(p, j)
    BY DEF Won, Unserved, Acquires, Releases
  <2>4. CASE Acquires(p, i) /\ r = "ok"
    <3>1. feedLease = Nobody /\ feedLease' = p /\ UNCHANGED <<feed, lapsed>>
      BY <1>2, <2>4
    <3>2. /\ ~feed[p].owned /\ ~feed[p].simulating
          /\ \A j \in 1 .. n : ~Won(p, j)
          /\ \A j \in i .. n : ~Releases(p, j)
      BY <1>2, <1>3, <1>5, <2>1, <2>2, <2>4, <3>1 DEF HoldsWhatItUses, GrantsAreNews, ReleasesAreLast
    <3>3. QED
      BY <1>1, <1>2, <1>3, <1>4, <2>1, <3>1, <3>2
         DEF HoldsWhatItUses, GrantsAreNews, ReleasesAreLast
  <2>5. CASE Releases(p, i)
    <3>1. /\ feedLease = p /\ ~feed[p].simulating
          /\ feed[p].owned => feed[p].up = "stopping" /\ i = n
          /\ \A j \in 1 .. n : ~Won(p, j) /\ (Releases(p, j) => j = i)
      BY <1>1, <1>2, <1>3, <1>5, <2>1, <2>3, <2>5 DEF GrantsAreNews, ReleasesAreLast
    <3>2. ~Acquires(p, i)
      BY <2>5 DEF Acquires, Releases
    <3>3. QED
      BY <1>1, <1>2, <1>3, <1>4, <2>1, <3>1, <3>2
         DEF HoldsWhatItUses, GrantsAreNews, ReleasesAreLast
  <2>6. CASE ~Releases(p, i) /\ ~(Acquires(p, i) /\ r = "ok")
    <3>1. feedLease' = feedLease /\ UNCHANGED <<feed, lapsed>>
      BY <1>2, <2>6
    <3>2. QED
      BY <1>1, <1>3, <1>4, <2>1, <2>6, <3>1 DEF HoldsWhatItUses, GrantsAreNews, ReleasesAreLast
  <2>7. QED
    BY <2>4, <2>5, <2>6
<1>8. QED
  BY <1>2, <1>6, <1>7 DEF Safe

\* A process that is gone leaves nothing behind that counts as its own.
LEMMA GoneStep ==
  ASSUME FeedTypeOK, NEW p \in Feeds, Gone(p)
  PROVE  Safe(p)'
<1>1. feed'[p] = Down /\ flight'[p] = <<>> /\ feedLease' # p
  BY FeedAssumption DEF Gone, FeedTypeOK
<1>2. Flying(p)' = {}
  BY <1>1 DEF Flying
<1>3. QED
  BY <1>1, <1>2 DEF Safe, InOrder, Lifecycle, HoldsWhatItUses, GrantsAreNews,
                   ReleasesAreLast, Down

LEMMA BootStep ==
  ASSUME FeedTypeOK, NEW p \in Feeds, Safe(p), Boot(p)
  PROVE  Safe(p)'
<1>1. /\ feed[p] = Down /\ flight[p] = <<>> /\ feed' = [feed EXCEPT ![p].up = "up"]
      /\ Send(p, "acquire") /\ UNCHANGED <<feedLease, lapsed>>
  BY DEF Boot, Safe, Lifecycle
<1>2. feed'[p] = [up |-> "up", owned |-> FALSE, simulating |-> FALSE, beating |-> FALSE]
  <2>1. feed'[p] = [Down EXCEPT !.up = "up"]
    BY <1>1 DEF FeedTypeOK
  <2>2. QED
    BY <2>1 DEF Down
<1>3. flight'[p] = <<[op |-> "acquire", result |-> "sent"]>>
  BY <1>1 DEF Send, FeedTypeOK
<1>4. /\ Flying(p)' = {1} /\ Unserved(p, 1)' /\ ~Won(p, 1)' /\ ~Releases(p, 1)'
  BY <1>3 DEF Flying, Unserved, Won, Releases
<1>5. InOrder(p)'
  BY <1>4 DEF InOrder
<1>6. Lifecycle(p)'
  BY <1>2 DEF Lifecycle
<1>7. HoldsWhatItUses(p)' /\ GrantsAreNews(p)' /\ ReleasesAreLast(p)'
  BY <1>2, <1>4 DEF HoldsWhatItUses, GrantsAreNews, ReleasesAreLast
<1>8. QED
  BY <1>5, <1>6, <1>7 DEF Safe

LEMMA HeartbeatStep ==
  ASSUME FeedTypeOK, NEW p \in Feeds, Safe(p), Heartbeat(p)
  PROVE  Safe(p)'
<1>1. feed[p] \in Process /\ feed[p].up = "up" /\ UNCHANGED <<feedLease, lapsed>>
  BY DEF Heartbeat, FeedTypeOK, Safe, Lifecycle
<1>2. CASE ~feed[p].owned \/ marketOpen
  <2>1. feed' = feed /\ \E op \in {"acquire", "renew"} : Send(p, op) /\ (op = "acquire" => ~feed[p].owned)
    BY <1>2 DEF Heartbeat
  <2>2. Lifecycle(p)'
    <3>1. feed'[p].up = "up"
      BY <1>1, <2>1
    <3>2. QED
      BY <3>1 DEF Lifecycle
  <2>3. QED
    BY <1>1, <2>1, <2>2, SendStep
<1>3. CASE feed[p].owned /\ ~marketOpen
  <2>1. /\ feed'[p] = [feed[p] EXCEPT !.owned = FALSE, !.simulating = FALSE]
        /\ Send(p, "release")
    BY <1>3 DEF Heartbeat, FeedTypeOK
  <2>2. feed'[p].up = "up" /\ ~feed'[p].owned /\ ~feed'[p].simulating
    BY <1>1, <2>1 DEF Process
  <2>3. Lifecycle(p)'
    BY <2>2 DEF Lifecycle
  <2>4. QED
    BY <1>1, <1>3, <2>1, <2>2, <2>3, SendStep
<1>4. QED
  BY <1>2, <1>3

LEMMA StopStep ==
  ASSUME FeedTypeOK, NEW p \in Feeds, Safe(p), Stop(p)
  PROVE  Safe(p)'
<1>1. /\ feed[p] \in Process /\ feed[p].up = "up" /\ UNCHANGED <<feedLease, lapsed>>
      /\ feed'[p] = [feed[p] EXCEPT !.up = "stopping", !.beating = FALSE, !.simulating = FALSE]
  BY DEF Stop, FeedTypeOK
<1>2. /\ feed'[p].up = "stopping" /\ ~feed'[p].beating /\ ~feed'[p].simulating
      /\ feed'[p].owned = feed[p].owned
  BY <1>1 DEF Process
<1>3. Lifecycle(p)'
  BY <1>2 DEF Lifecycle
<1>4. CASE feed[p].owned
  <2>1. Send(p, "release")
    BY <1>4 DEF Stop
  <2>2. QED
    BY <1>1, <1>2, <1>3, <1>4, <2>1, SendStep
<1>5. CASE ~feed[p].owned
  <2>1. flight'[p] = flight[p]
    BY <1>5 DEF Stop
  <2>2. Flying(p)' = Flying(p)
    BY <2>1 DEF Flying
  <2>3. \A i : /\ (Unserved(p, i)' <=> Unserved(p, i)) /\ (Acquires(p, i)' <=> Acquires(p, i))
               /\ (Won(p, i)' <=> Won(p, i)) /\ (Releases(p, i)' <=> Releases(p, i))
    BY <2>1 DEF Unserved, Acquires, Won, Releases
  <2>4. InOrder(p)'
    BY <2>2, <2>3 DEF Safe, InOrder
  <2>5. ASSUME p \notin lapsed
        PROVE  HoldsWhatItUses(p)' /\ GrantsAreNews(p)' /\ ReleasesAreLast(p)'
    BY <1>1, <1>2, <1>5, <2>1, <2>2, <2>3, <2>5
       DEF Safe, HoldsWhatItUses, GrantsAreNews, ReleasesAreLast
  <2>6. QED
    BY <1>1, <1>3, <2>4, <2>5 DEF Safe
<1>6. QED
  BY <1>4, <1>5

LEMMA ResendStep ==
  ASSUME FeedTypeOK, NEW p \in Feeds, Safe(p), Resend(p)
  PROVE  Safe(p)'
<1>1. /\ flight'[p] = [i \in 1 .. Len(flight[p]) |-> [flight[p][i] EXCEPT !.result = "sent"]]
      /\ flight[p] \in Seq(Command) /\ feed' = feed /\ lapsed' = lapsed \cup {p}
  BY DEF Resend, FeedTypeOK
<1>2. Len(flight[p]) \in Nat /\ \A i \in 1 .. Len(flight[p]) : flight[p][i] \in Command
  BY <1>1, LenProperties, ElementOfSeq
<1>3. /\ Len(flight'[p]) = Len(flight[p]) /\ Flying(p)' = 1 .. Len(flight[p])
      /\ \A i \in 1 .. Len(flight[p]) : flight'[p][i].result = "sent"
  BY <1>1, <1>2 DEF Flying, Command
<1>4. InOrder(p)'
  BY <1>3 DEF InOrder, Unserved
<1>5. Lifecycle(p)'
  <2>1. feed[p].up # "down"
    BY <1>1 DEF Resend, Safe, Lifecycle
  <2>2. QED
    BY <1>1, <2>1 DEF Safe, Lifecycle
<1>6. QED
  BY <1>1, <1>4, <1>5 DEF Safe

\* Only Execute and Gone of a process itself take the lease away without a lapse.
LEMMA OthersUnnoticed ==
  ASSUME FeedTypeOK, NEW p \in Feeds, NEW q \in Feeds \ {p}, Safe(q),
         \/ Boot(p) \/ Heartbeat(p) \/ Execute(p) \/ Answer(p) \/ Fails(p) \/ Resend(p)
         \/ Stop(p) \/ Exit(p) \/ FeedCrash(p) \/ Tick(p)
  PROVE  Safe(q)'
<1>1. feed'[q] = feed[q]
  BY DEF FeedTypeOK, Boot, Heartbeat, Execute, Answer, Fails, Resend, Stop, Exit, FeedCrash, Gone, Tick
<1>2. flight'[q] = flight[q]
  BY DEF FeedTypeOK, Boot, Heartbeat, Execute, Answer, Fails, Resend, Stop, Exit, FeedCrash, Gone,
         Tick, Send
<1>3. q \in lapsed => q \in lapsed'
  BY DEF Boot, Heartbeat, Execute, Answer, Fails, Resend, Stop, Exit, FeedCrash, Gone, Tick
<1>4. feedLease = q => feedLease' = q
  <2>1. CASE Execute(p)
    BY <2>1, FeedAssumption DEF Execute, Freed
  <2>2. CASE Exit(p) \/ FeedCrash(p)
    BY <2>2, FeedAssumption DEF Exit, FeedCrash, Gone
  <2>3. CASE \/ Boot(p) \/ Heartbeat(p) \/ Answer(p) \/ Fails(p) \/ Resend(p) \/ Stop(p) \/ Tick(p)
    BY <2>3 DEF Boot, Heartbeat, Answer, Fails, Resend, Stop, Tick
  <2>4. QED
    BY <2>1, <2>2, <2>3
<1>5. QED
  BY <1>1, <1>2, <1>3, <1>4, Unnoticed

LEMMA FeedInvStep == FeedInv /\ [FeedNext]_feedVars => FeedInv'
<1> SUFFICES ASSUME FeedInv, [FeedNext]_feedVars, NEW q \in Feeds
             PROVE  Safe(q)'
  BY FeedTypeStep DEF FeedInv
<1>0. FeedTypeOK /\ \A p \in Feeds : Safe(p)
  BY DEF FeedInv
<1>1. CASE Session \/ Ages \/ UNCHANGED feedVars
  <2>1. UNCHANGED <<feed, flight, lapsed, feedLease>>
    BY <1>1 DEF Session, Ages, feedVars
  <2>2. QED
    BY <1>0, <2>1, Unnoticed
<1>2. CASE Expire
  <2>1. /\ UNCHANGED <<feed, flight>>
        /\ q \in lapsed => q \in lapsed'
        /\ feedLease = q => q \in lapsed'
    BY <1>2, FeedAssumption DEF Expire
  <2>2. QED
    BY <1>0, <2>1, Unnoticed
<1>3. ASSUME NEW p \in Feeds,
             \/ Boot(p) \/ Heartbeat(p) \/ Execute(p) \/ Answer(p) \/ Fails(p) \/ Resend(p)
             \/ Stop(p) \/ Exit(p) \/ FeedCrash(p) \/ Tick(p)
      PROVE  Safe(q)'
  <2>1. CASE q # p
    BY <1>0, <1>3, <2>1, OthersUnnoticed
  <2>2. CASE q = p /\ (Exit(p) \/ FeedCrash(p))
    BY <1>0, <2>2, GoneStep DEF Exit, FeedCrash
  <2>3. CASE q = p /\ Tick(p)
    <3>1. UNCHANGED <<feed, flight, lapsed, feedLease>>
      BY <2>3 DEF Tick
    <3>2. QED
      BY <1>0, <3>1, Unnoticed
  <2>4. QED
    BY <1>0, <1>3, <2>1, <2>2, <2>3, BootStep, HeartbeatStep, ExecuteStep, AnswerStep,
       ResendStep, StopStep
<1>4. QED
  BY <1>1, <1>2, <1>3 DEF FeedNext

\* However many feeds there are and however many commands each has under way,
\* one that simulates the market holds the lease, or its lease ran out or its
\* connection broke since it started (FeedLeaseService and its two scripts).
THEOREM TwoFeedsOnlyAfterALapse == FeedSpec => []TwoFeedsMeanALapse
<1>1. FeedInv => TwoFeedsMeanALapse
  BY DEF FeedInv, Safe, HoldsWhatItUses, TwoFeedsMeanALapse
<1>2. QED
  BY <1>1, FeedInvInit, FeedInvStep, PTL DEF FeedSpec

-----------------------------------------------------------------------------
(***************************************************************************)
(* Candles.  What a row says of a set of ticks, tick by tick: the largest  *)
(* and smallest price are those of ticks, the sum is that of their         *)
(* volumes, and no tick is later than the one that closes it.              *)
(***************************************************************************)

TicksOf(m) == {t \in receipts : TickData[t].minute = m}

VolumesOf(S) == [t \in S |-> TickData[t].volume]

Tells(c, S) ==
  /\ c.volume = SumOf(VolumesOf(S))
  /\ \A t \in S : /\ c.low <= TickData[t].price /\ TickData[t].price <= c.high
                  /\ TickData[t].time <= c.last
  /\ \E t \in S : TickData[t].price = c.high
  /\ \E t \in S : TickData[t].price = c.low
  /\ \E t \in S : TickData[t].price = c.close /\ TickData[t].time = c.last

TellsOf(c, S) == IF S = {} THEN c = NoCandle ELSE c \in CandleRow /\ Tells(c, S)

CandlesInv ==
  /\ CandlesTypeOK /\ IsFiniteSet(receipts)
  /\ \A m \in Minutes : TellsOf(candles[m], TicksOf(m))

LEMMA TickDataType ==
  ASSUME NEW t \in Ticks
  PROVE  /\ TickData[t].minute \in Nat /\ TickData[t].time \in Nat
         /\ TickData[t].price \in Nat /\ TickData[t].volume \in Nat
         /\ TickData[t].minute \in Minutes
  BY CandlesAssumption DEF Minutes

LEMMA RowsAreRows == NoCandle \notin CandleRow
<1> SUFFICES ASSUME NoCandle \in CandleRow PROVE FALSE
  OBVIOUS
<1>1. "open" \in DOMAIN NoCandle
  BY DEF CandleRow
<1>2. QED
  BY <1>1 DEF NoCandle

LEMMA ClosedRow ==
  ASSUME NEW c \in CandleRow
  PROVE  /\ [c EXCEPT !.isClosed = TRUE] \in CandleRow
         /\ \A S : Tells(c, S) => Tells([c EXCEPT !.isClosed = TRUE], S)
<1>1. [c EXCEPT !.isClosed = TRUE] \in CandleRow
  BY DEF CandleRow
<1>2. PICK k : k = [c EXCEPT !.isClosed = TRUE]
  OBVIOUS
<1>3. /\ k.volume = c.volume /\ k.low = c.low /\ k.high = c.high
      /\ k.last = c.last /\ k.close = c.close
  BY <1>2 DEF CandleRow
<1>4. \A S : Tells(c, S) => Tells(k, S)
  BY <1>3 DEF Tells
<1>5. QED
  BY <1>1, <1>2, <1>4

\* One more tick.
LEMMA VolumesGrow ==
  ASSUME NEW S, S \subseteq Ticks, IsFiniteSet(S), NEW t \in Ticks, t \notin S
  PROVE  SumOf(VolumesOf(S \cup {t})) = SumOf(VolumesOf(S)) + TickData[t].volume
<1>1. PICK f : f = VolumesOf(S)
  OBVIOUS
<1>2. PICK h : h = VolumesOf(S \cup {t})
  OBVIOUS
<1>3. f \in [S -> Int]
  BY <1>1, TickDataType DEF VolumesOf
<1>4. h \in [S \cup {t} -> Int]
  BY <1>2, TickDataType DEF VolumesOf
<1>5. (\A x \in S : h[x] = f[x]) /\ h[t] = TickData[t].volume
  BY <1>1, <1>2 DEF VolumesOf
<1>6. SumOf(h) = SumOf(f) + h[t]
  BY <1>3, <1>4, <1>5, SumExtends
<1>7. QED
  BY <1>1, <1>2, <1>5, <1>6

LEMMA FirstTickTold ==
  ASSUME NEW t \in Ticks
  PROVE  FirstCandle(TickData[t]) \in CandleRow /\ Tells(FirstCandle(TickData[t]), {t})
<1>1. FirstCandle(TickData[t]) \in CandleRow
  BY TickDataType DEF FirstCandle, CandleRow
<1>2. SumOf(VolumesOf({t})) = TickData[t].volume
  <2>1. IsFiniteSet({}) /\ VolumesOf({}) \in [{} -> Int]
    BY FS_EmptySet DEF VolumesOf
  <2>2. SumOf(VolumesOf({})) = 0
    BY <2>1, SumIsZero
  <2>3. {} \cup {t} = {t}
    OBVIOUS
  <2>4. SumOf(VolumesOf({} \cup {t})) = SumOf(VolumesOf({})) + TickData[t].volume
    BY <2>1, VolumesGrow
  <2>5. QED
    BY <2>2, <2>3, <2>4, TickDataType
<1>3. PICK c : c = FirstCandle(TickData[t])
  OBVIOUS
<1>4. /\ c.volume = TickData[t].volume /\ c.high = TickData[t].price /\ c.low = TickData[t].price
      /\ c.close = TickData[t].price /\ c.last = TickData[t].time
  BY <1>3 DEF FirstCandle
<1>5. Tells(c, {t})
  BY <1>2, <1>4, TickDataType DEF Tells
<1>6. QED
  BY <1>1, <1>3, <1>5

LEMMA NextTickTold ==
  ASSUME NEW S, S \subseteq Ticks, IsFiniteSet(S), NEW t \in Ticks, t \notin S,
         NEW c \in CandleRow, Tells(c, S)
  PROVE  /\ WithTick(c, TickData[t]) \in CandleRow
         /\ Tells(WithTick(c, TickData[t]), S \cup {t})
<1>0. /\ c.open \in Nat /\ c.high \in Nat /\ c.low \in Nat /\ c.close \in Nat
      /\ c.volume \in Nat /\ c.isClosed \in BOOLEAN /\ c.last \in Nat
  BY DEF CandleRow
<1>1. PICK price \in Nat, time \in Nat, volume \in Nat :
        price = TickData[t].price /\ time = TickData[t].time /\ volume = TickData[t].volume
  BY TickDataType
<1>2. PICK high \in Nat : high = Larger(c.high, price)
  BY <1>0 DEF Larger
<1>3. PICK low \in Nat : low = Smaller(c.low, price)
  BY <1>0 DEF Smaller
<1>4. PICK close \in Nat : close = IF time >= c.last THEN price ELSE c.close
  BY <1>0
<1>5. PICK last \in Nat : last = Larger(c.last, time)
  BY <1>0 DEF Larger
<1>6. PICK sum \in Nat : sum = c.volume + volume
  BY <1>0
<1>7. PICK k : k = [c EXCEPT !.high = high, !.low = low, !.close = close, !.volume = sum,
                             !.last = last]
  OBVIOUS
<1>8. k \in CandleRow
  BY <1>7 DEF CandleRow
<1>9. k.high = high /\ k.low = low /\ k.close = close /\ k.volume = sum /\ k.last = last
  BY <1>7 DEF CandleRow
<1>10. WithTick(c, TickData[t]) = k
  BY <1>1, <1>2, <1>3, <1>4, <1>5, <1>6, <1>7 DEF WithTick
<1>11. sum = SumOf(VolumesOf(S \cup {t}))
  BY <1>1, <1>6, VolumesGrow DEF Tells
<1>12. /\ high >= c.high /\ high >= price /\ (high = c.high \/ high = price)
       /\ low <= c.low /\ low <= price /\ (low = c.low \/ low = price)
       /\ last >= c.last /\ last >= time
       /\ (last = c.last /\ close = c.close) \/ (last = time /\ close = price)
  BY <1>0, <1>2, <1>3, <1>4, <1>5 DEF Larger, Smaller
<1>13. ASSUME NEW u \in S \cup {t}
       PROVE  low <= TickData[u].price /\ TickData[u].price <= high /\ TickData[u].time <= last
  <2>1. CASE u = t
    BY <1>1, <1>12, <2>1
  <2>2. CASE u \in S
    <3>1. TickData[u].price \in Nat /\ TickData[u].time \in Nat
      BY <2>2, TickDataType
    <3>2. /\ c.low <= TickData[u].price /\ TickData[u].price <= c.high
          /\ TickData[u].time <= c.last
      BY <2>2 DEF Tells
    <3>3. QED
      BY <1>0, <1>12, <3>1, <3>2
  <2>3. QED
    BY <2>1, <2>2
<1>14. \E u \in S \cup {t} : TickData[u].price = high
  BY <1>1, <1>12 DEF Tells
<1>15. \E u \in S \cup {t} : TickData[u].price = low
  BY <1>1, <1>12 DEF Tells
<1>16. \E u \in S \cup {t} : TickData[u].price = close /\ TickData[u].time = last
  BY <1>1, <1>12 DEF Tells
<1>17. Tells(k, S \cup {t})
  BY <1>9, <1>11, <1>13, <1>14, <1>15, <1>16 DEF Tells
<1>18. QED
  BY <1>8, <1>10, <1>17

LEMMA CandlesInit0 == CandlesInit => CandlesInv
<1> SUFFICES ASSUME CandlesInit PROVE CandlesInv
  OBVIOUS
<1>1. CandlesTypeOK
  BY CandlesAssumption DEF CandlesInit, CandlesTypeOK
<1>2. IsFiniteSet(receipts)
  BY FS_EmptySet DEF CandlesInit
<1>3. \A m \in Minutes : TellsOf(candles[m], TicksOf(m))
  BY DEF CandlesInit, TellsOf, TicksOf
<1>4. QED
  BY <1>1, <1>2, <1>3 DEF CandlesInv

LEMMA CandlesStep == CandlesInv /\ [CandlesNext]_candlesVars => CandlesInv'
<1> SUFFICES ASSUME CandlesInv, [CandlesNext]_candlesVars PROVE CandlesInv'
  OBVIOUS
<1> USE DEF CandlesInv
<1>0. MaxDrops \in Nat
  BY CandlesAssumption
<1>1. ASSUME UNCHANGED <<candles, receipts>>, CandlesTypeOK' PROVE CandlesInv'
  BY <1>1 DEF TicksOf
<1>2. ASSUME NEW a \in Aggregators, NEW t \in Ticks, Hear(a, t) PROVE CandlesInv'
  <2>1. heard' \in [Aggregators -> SUBSET Ticks]
    BY <1>2 DEF Hear, CandlesTypeOK
  <2>2. handlers' \subseteq [by : Aggregators, tick : Ticks, next : {"close", "add"}]
    BY <1>2 DEF Hear, CandlesTypeOK
  <2>3. drops' \in 0 .. MaxDrops
    BY <1>0, <1>2 DEF Hear, CandlesTypeOK
  <2>4. CandlesTypeOK'
    BY <1>2, <2>1, <2>2, <2>3 DEF Hear, CandlesTypeOK
  <2>5. QED
    BY <1>1, <1>2, <2>4 DEF Hear
<1>3. ASSUME NEW h \in handlers, HandlerFails(h) PROVE CandlesInv'
  <2>1. drops' \in 0 .. MaxDrops
    BY <1>0, <1>3 DEF HandlerFails, CandlesTypeOK
  <2>2. CandlesTypeOK'
    BY <1>3, <2>1 DEF HandlerFails, CandlesTypeOK
  <2>3. QED
    BY <1>1, <1>3, <2>2 DEF HandlerFails
<1>4. ASSUME NEW h \in handlers, CloseOlder(h) PROVE CandlesInv'
  <2>1. ASSUME NEW m \in Minutes
        PROVE  /\ candles'[m] \in {NoCandle} \cup CandleRow
               /\ TellsOf(candles'[m], TicksOf(m))
    <3>1. candles[m] \in {NoCandle} \cup CandleRow /\ TellsOf(candles[m], TicksOf(m))
      BY DEF CandlesTypeOK
    <3>2. CASE candles'[m] = candles[m]
      BY <3>1, <3>2
    <3>3. CASE Exists(m) /\ candles'[m] = [candles[m] EXCEPT !.isClosed = TRUE]
      <4>1. candles[m] \in CandleRow /\ candles[m] # NoCandle
        BY <3>1, <3>3 DEF Exists
      <4>2. TicksOf(m) # {} /\ Tells(candles[m], TicksOf(m))
        BY <3>1, <4>1 DEF TellsOf
      <4>3. QED
        BY <3>3, <4>1, <4>2, ClosedRow DEF TellsOf
    <3>4. QED
      BY <1>4, <3>2, <3>3 DEF CloseOlder
  <2>2. candles' \in [Minutes -> {NoCandle} \cup CandleRow]
    BY <1>4, <2>1 DEF CloseOlder
  <2>3. handlers' \subseteq [by : Aggregators, tick : Ticks, next : {"close", "add"}]
    <3>1. [h EXCEPT !.next = "add"] \in [by : Aggregators, tick : Ticks, next : {"close", "add"}]
      BY DEF CandlesTypeOK
    <3>2. QED
      BY <1>4, <3>1 DEF CloseOlder, CandlesTypeOK
  <2>4. CandlesTypeOK'
    BY <1>4, <2>2, <2>3 DEF CloseOlder, CandlesTypeOK
  <2>5. \A m \in Minutes : TellsOf(candles[m], TicksOf(m))'
    BY <1>4, <2>1 DEF CloseOlder, TicksOf, TellsOf, Tells, Exists
  <2>6. QED
    BY <1>4, <2>4, <2>5 DEF CloseOlder
<1>5. ASSUME NEW h \in handlers, AddTick(h) PROVE CandlesInv'
  <2>0. PICK t \in Ticks : t = h.tick
    BY DEF CandlesTypeOK
  <2>1. PICK d \in Minutes : d = TickData[t].minute
    BY TickDataType
  <2>2. receipts' = receipts \cup {t} /\ IsFiniteSet(receipts')
    BY <1>5, <2>0, FS_AddElement DEF AddTick
  <2>3. UNCHANGED <<heard, drops>> /\ handlers' = handlers \ {h}
    BY <1>5 DEF AddTick
  <2>4. CASE t \in receipts
    <3>1. candles' = candles /\ receipts' = receipts
      BY <1>5, <2>0, <2>2, <2>4 DEF AddTick
    <3>2. CandlesTypeOK'
      BY <2>3, <3>1 DEF CandlesTypeOK
    <3>3. QED
      BY <1>1, <3>1, <3>2
  <2>5. CASE t \notin receipts
    <3> DEFINE c == IF Exists(d) THEN WithTick(candles[d], TickData[t]) ELSE FirstCandle(TickData[t])
    <3>1. candles' = [candles EXCEPT ![d] = c]
      BY <1>5, <2>0, <2>1, <2>5 DEF AddTick
    <3>2. /\ TicksOf(d) \subseteq Ticks /\ IsFiniteSet(TicksOf(d)) /\ t \notin TicksOf(d)
          /\ TellsOf(candles[d], TicksOf(d))
      BY <2>5, FS_Subset DEF TicksOf, CandlesTypeOK
    <3>3. c \in CandleRow /\ Tells(c, TicksOf(d) \cup {t})
      <4>1. CASE TicksOf(d) = {}
        <5>1. c = FirstCandle(TickData[t]) /\ TicksOf(d) \cup {t} = {t}
          BY <3>2, <4>1 DEF TellsOf, Exists
        <5>2. QED
          BY <5>1, FirstTickTold
      <4>2. CASE TicksOf(d) # {}
        <5>1. candles[d] \in CandleRow /\ Tells(candles[d], TicksOf(d))
          BY <3>2, <4>2 DEF TellsOf
        <5>2. c = WithTick(candles[d], TickData[t])
          BY <5>1, RowsAreRows DEF Exists
        <5>3. QED
          BY <3>2, <5>1, <5>2, NextTickTold
      <4>3. QED
        BY <4>1, <4>2
    <3> HIDE DEF c
    <3>4. candles' \in [Minutes -> {NoCandle} \cup CandleRow]
      BY <3>1, <3>3 DEF CandlesTypeOK
    <3>5. CandlesTypeOK'
      BY <2>2, <2>3, <3>4 DEF CandlesTypeOK
    <3>6. ASSUME NEW m \in Minutes PROVE TellsOf(candles[m], TicksOf(m))'
      <4>1. CASE m = d
        <5>1. TicksOf(m)' = TicksOf(d) \cup {t} /\ candles'[m] = c
          BY <2>1, <2>2, <3>1, <4>1 DEF TicksOf, CandlesTypeOK
        <5>2. TellsOf(c, TicksOf(d) \cup {t})
          BY <3>3 DEF TellsOf
        <5>3. QED
          BY <5>1, <5>2 DEF TellsOf, Tells
      <4>2. CASE m # d
        <5>1. TicksOf(m)' = TicksOf(m) /\ candles'[m] = candles[m]
          BY <2>1, <2>2, <3>1, <4>2 DEF TicksOf, CandlesTypeOK
        <5>2. QED
          BY <5>1 DEF TellsOf, Tells
      <4>3. QED
        BY <4>1, <4>2
    <3>7. QED
      BY <2>2, <3>5, <3>6
  <2>6. QED
    BY <2>4, <2>5
<1>6. CASE UNCHANGED candlesVars
  <2>1. CandlesTypeOK'
    BY <1>6 DEF candlesVars, CandlesTypeOK
  <2>2. QED
    BY <1>1, <1>6, <2>1 DEF candlesVars
<1>7. QED
  BY <1>2, <1>3, <1>4, <1>5, <1>6 DEF CandlesNext

LEMMA MaxIs ==
  ASSUME NEW S, NEW x \in S, S \subseteq Int, \A y \in S : y <= x PROVE Max(S) = x
<1>1. \A y \in S : x >= y
  OBVIOUS
<1>2. PICK y : y = Max(S)
  OBVIOUS
<1>3. y \in S /\ \A z \in S : y >= z
  BY <1>1, <1>2 DEF Max
<1>4. QED
  BY <1>2, <1>3

LEMMA MinIs ==
  ASSUME NEW S, NEW x \in S, S \subseteq Int, \A y \in S : x <= y PROVE Min(S) = x
<1>1. PICK y : y = Min(S)
  OBVIOUS
<1>2. y \in S /\ \A z \in S : y <= z
  BY <1>1 DEF Min
<1>3. QED
  BY <1>1, <1>2

\* The types of the candles, their receipts and handlers.
THEOREM CandlesTypeCorrect == CandlesSpec => []CandlesTypeOK
<1>1. CandlesInv => CandlesTypeOK
  BY DEF CandlesInv
<1>2. QED
  BY <1>1, CandlesInit0, CandlesStep, PTL DEF CandlesSpec

\* Whatever ticks there are, in whatever order any number of aggregators handles
\* them, lose them or repeat them, every candle tells the ticks that have a
\* receipt, each of them once (handleMessage).
THEOREM CandlesTellTheirTicks == CandlesSpec => []CandleTellsItsTicks
<1>1. CandlesInv => CandleTellsItsTicks
  <2> SUFFICES ASSUME CandlesInv, NEW m \in Minutes,
                      NEW ids, ids = TicksOf(m), NEW told, told = {TickData[t] : t \in ids}
               PROVE  IF told = {} THEN ~Exists(m)
                      ELSE /\ Exists(m) /\ candles[m].volume = SumOf(VolumesOf(ids))
                           /\ candles[m].high = Max({t.price : t \in told})
                           /\ candles[m].low = Min({t.price : t \in told})
                           /\ \E t \in told : /\ t.price = candles[m].close
                                              /\ t.time = Max({u.time : u \in told})
    BY DEF CandleTellsItsTicks, TicksOf, VolumesOf
  <2>1. TellsOf(candles[m], ids) /\ ids \subseteq Ticks
    BY DEF CandlesInv, TicksOf, CandlesTypeOK
  <2>2. CASE ids = {}
    BY <2>1, <2>2 DEF TellsOf, Exists
  <2>3. CASE ids # {}
    <3>1. told # {}
      BY <2>3
    <3>2. PICK c \in CandleRow : c = candles[m]
      BY <2>1, <2>3 DEF TellsOf
    <3>3. Exists(m) /\ Tells(c, ids)
      BY <2>1, <2>3, <3>2, RowsAreRows DEF TellsOf, Exists
    <3>4. c.high = Max({t.price : t \in told})
      <4>1. {t.price : t \in told} \subseteq Int
        BY <2>1, TickDataType
      <4>2. c.high \in {t.price : t \in told} /\ \A y \in {t.price : t \in told} : y <= c.high
        BY <3>3 DEF Tells
      <4>3. QED
        BY <4>1, <4>2, MaxIs
    <3>5. c.low = Min({t.price : t \in told})
      <4>1. {t.price : t \in told} \subseteq Int
        BY <2>1, TickDataType
      <4>2. c.low \in {t.price : t \in told} /\ \A y \in {t.price : t \in told} : c.low <= y
        BY <3>3 DEF Tells
      <4>3. QED
        BY <4>1, <4>2, MinIs
    <3>6. c.last = Max({u.time : u \in told})
      <4>1. {u.time : u \in told} \subseteq Int
        BY <2>1, TickDataType
      <4>2. c.last \in {u.time : u \in told} /\ \A y \in {u.time : u \in told} : y <= c.last
        BY <3>3 DEF Tells
      <4>3. QED
        BY <4>1, <4>2, MaxIs
    <3>7. \E t \in told : t.price = c.close /\ t.time = c.last
      BY <3>3 DEF Tells
    <3>8. c.volume = SumOf(VolumesOf(ids))
      BY <3>3 DEF Tells
    <3>9. QED
      BY <3>1, <3>2, <3>3, <3>4, <3>5, <3>6, <3>7, <3>8
  <2>4. QED
    BY <2>2, <2>3
<1>2. QED
  BY <1>1, CandlesInit0, CandlesStep, PTL DEF CandlesSpec

-----------------------------------------------------------------------------
(***************************************************************************)
(* Buckets.  A bucket is at most BucketSize minutes long, whatever the     *)
(* length of the day, so that the rows after a row of one of the last n    *)
(* buckets, with their bucket and their place in it, are fewer than        *)
(* n * BucketSize.                                                         *)
(***************************************************************************)

LEMMA TimesMonotone ==
  ASSUME NEW a \in Int, NEW b \in Int, NEW c \in Nat, a <= b
  PROVE  a * c <= b * c
<1>1. PICK d \in Nat : b = a + d
  <2>1. b - a \in Nat /\ b = a + (b - a)
    OBVIOUS
  <2>2. QED
    BY <2>1
<1>2. b * c = a * c + d * c /\ d * c \in Nat /\ a * c \in Int
  BY <1>1
<1>3. QED
  BY <1>2

LEMMA Divides ==
  ASSUME NEW n \in Nat, NEW b \in Nat \ {0}
  PROVE  /\ n \div b \in Nat /\ n % b \in 0 .. b - 1
         /\ n = (n \div b) * b + (n % b)
<1>1. n \div b \in Nat /\ n % b \in 0 .. b - 1
  BY SMT
<1>2. n = b * (n \div b) + (n % b)
  BY SMT
<1>3. QED
  BY <1>1, <1>2

LEMMA DivMonotone ==
  ASSUME NEW k \in Nat, NEW m \in Nat, NEW b \in Nat \ {0}, k <= m
  PROVE  k \div b <= m \div b
<1>1. PICK q \in Nat, r \in 0 .. b - 1 : q = k \div b /\ k = q * b + r
  BY Divides
<1>2. PICK p \in Nat, s \in 0 .. b - 1 : p = m \div b /\ m = p * b + s
  BY Divides
<1>3. SUFFICES ASSUME p + 1 <= q PROVE FALSE
  BY <1>1, <1>2
<1>4. (p + 1) * b <= q * b
  BY <1>3, TimesMonotone
<1>5. (p + 1) * b = p * b + b /\ p * b \in Nat /\ q * b \in Nat
  OBVIOUS
<1>6. QED
  BY <1>1, <1>2, <1>4, <1>5

\* A minute is less than the size of its bucket after the start of it.
LEMMA BucketOffset ==
  ASSUME NEW f \in DOMAIN BucketSize, NEW m \in Nat
  PROVE  Bucket(m, f) \in Nat /\ m - Bucket(m, f) \in 0 .. BucketSize[f] - 1
<1>0. DayMinutes \in Nat \ {0} /\ BucketSize[f] \in Nat \ {0}
  BY MarketCandlesAssumption
<1>1. PICK q \in Nat, r \in 0 .. DayMinutes - 1 :
        q = m \div DayMinutes /\ r = m % DayMinutes /\ m = q * DayMinutes + r
  BY <1>0, Divides
<1>2. PICK p \in Nat, s \in 0 .. BucketSize[f] - 1 :
        p = r \div BucketSize[f] /\ r = p * BucketSize[f] + s
  <2>1. r \in Nat
    BY <1>0
  <2>2. QED
    BY <1>0, <2>1, Divides
<1>3. Bucket(m, f) = q * DayMinutes + p * BucketSize[f]
  BY <1>1, <1>2 DEF Bucket
<1>4. q * DayMinutes \in Nat /\ p * BucketSize[f] \in Nat
  BY <1>0
<1>5. QED
  BY <1>0, <1>1, <1>2, <1>3, <1>4

LEMMA BucketsInOrder ==
  ASSUME NEW f \in DOMAIN BucketSize, NEW k \in Nat, NEW m \in Nat, k <= m
  PROVE  Bucket(k, f) <= Bucket(m, f)
<1>0. DayMinutes \in Nat \ {0} /\ BucketSize[f] \in Nat \ {0}
  BY MarketCandlesAssumption
<1>1. PICK q \in Nat, r \in 0 .. DayMinutes - 1 :
        q = k \div DayMinutes /\ r = k % DayMinutes /\ k = q * DayMinutes + r
  BY <1>0, Divides
<1>2. PICK p \in Nat, s \in 0 .. DayMinutes - 1 :
        p = m \div DayMinutes /\ s = m % DayMinutes /\ m = p * DayMinutes + s
  BY <1>0, Divides
<1>3. q <= p
  BY <1>0, <1>1, <1>2, DivMonotone
<1>4. PICK i \in Nat : i = r \div BucketSize[f] /\ i * BucketSize[f] <= r
  <2>1. r \in Nat
    BY <1>0
  <2>2. PICK i \in Nat, t \in 0 .. BucketSize[f] - 1 :
          i = r \div BucketSize[f] /\ r = i * BucketSize[f] + t
    BY <1>0, <2>1, Divides
  <2>3. i * BucketSize[f] \in Nat
    BY <1>0
  <2>4. QED
    BY <2>2, <2>3
<1>5. PICK j \in Nat : j = s \div BucketSize[f]
  BY <1>0, Divides
<1>6. PICK u \in Nat, v \in Nat : u = i * BucketSize[f] /\ v = j * BucketSize[f]
  BY <1>0
<1>7. PICK w \in Nat, x \in Nat : w = q * DayMinutes /\ x = p * DayMinutes
  BY <1>0
<1>8. Bucket(k, f) = w + u /\ Bucket(m, f) = x + v
  BY <1>1, <1>2, <1>4, <1>5, <1>6, <1>7 DEF Bucket
<1>9. CASE q = p
  <2>1. r <= s
    BY <1>1, <1>2, <1>7, <1>9
  <2>2. i <= j
    BY <1>0, <1>4, <1>5, <2>1, DivMonotone
  <2>3. u <= v
    BY <1>0, <1>6, <2>2, TimesMonotone
  <2>4. QED
    BY <1>7, <1>8, <1>9, <2>3
<1>10. CASE q # p
  <2>1. q + 1 <= p
    BY <1>3, <1>10
  <2>2. (q + 1) * DayMinutes <= p * DayMinutes
    BY <1>0, <2>1, TimesMonotone
  <2>3. (q + 1) * DayMinutes = q * DayMinutes + DayMinutes
    BY <1>0
  <2>4. w + DayMinutes <= x
    BY <1>7, <2>2, <2>3
  <2>5. QED
    BY <1>0, <1>4, <1>6, <1>8, <2>4
<1>11. QED
  BY <1>9, <1>10

\* The members of a set after one of them.
After(S, m) == {k \in S : k > m}

StartsOf(S, f) == {Bucket(m, f) : m \in S}

LEMMA StartsAreFinite ==
  ASSUME NEW S, IsFiniteSet(S), NEW f
  PROVE  IsFiniteSet(StartsOf(S, f))
<1>1. PICK g : g = [m \in S |-> Bucket(m, f)]
  OBVIOUS
<1>2. DOMAIN g = S /\ g = [m \in S |-> g[m]] /\ {g[m] : m \in S} = StartsOf(S, f)
  BY <1>1 DEF StartsOf
<1>3. QED
  BY <1>2, FiniteImage

\* The rows of the last n buckets are among the last n * BucketSize rows.
LEMMA FewRowsAfter ==
  ASSUME NEW S \in SUBSET Nat, IsFiniteSet(S), NEW f \in DOMAIN BucketSize,
         NEW n \in Nat \ {0}, NEW m \in S,
         Cardinality(After(StartsOf(S, f), Bucket(m, f))) < n
  PROVE  Cardinality(After(S, m)) < n * BucketSize[f]
<1>0. PICK size \in Nat \ {0} : size = BucketSize[f]
  BY MarketCandlesAssumption
<1>1. PICK s \in Nat : s = Bucket(m, f)
  BY BucketOffset
<1> DEFINE later == After(StartsOf(S, f), s)
           starts == later \cup {s}
           places == starts \X (0 .. size - 1)
           free == places \ {<<s, m - s>>}
           K == After(S, m)
           place == [k \in K |-> <<Bucket(k, f), k - Bucket(k, f)>>]
<1>2. IsFiniteSet(later)
  <2>1. IsFiniteSet(StartsOf(S, f)) /\ later \in SUBSET StartsOf(S, f)
    BY StartsAreFinite DEF After
  <2>2. QED
    BY <2>1, FS_Subset
<1>3. s \notin later
  BY DEF After
<1>4. IsFiniteSet(starts) /\ Cardinality(starts) = Cardinality(later) + 1
      /\ Cardinality(later) \in Nat
  BY <1>2, <1>3, FS_AddElement, FS_CardinalityType
<1>5. IsFiniteSet(0 .. size - 1) /\ Cardinality(0 .. size - 1) = size
  BY FS_Interval
<1>6. IsFiniteSet(places) /\ Cardinality(places) = Cardinality(starts) * size
  BY <1>4, <1>5, FS_Product
<1>7. <<s, m - s>> \in places
  BY <1>0, <1>1, BucketOffset
<1>8. IsFiniteSet(free) /\ Cardinality(free) = Cardinality(places) - 1
  <2>1. PICK x : x = <<s, m - s>>
    OBVIOUS
  <2>2. x \in places
    BY <1>7, <2>1
  <2> HIDE DEF places
  <2>3. IsFiniteSet(places \ {x}) /\ Cardinality(places \ {x}) = Cardinality(places) - 1
    BY <1>6, <2>2, FS_RemoveElement
  <2>4. QED
    BY <2>1, <2>3
<1>9. ASSUME NEW k \in K
      PROVE  /\ Bucket(k, f) \in starts /\ k - Bucket(k, f) \in 0 .. size - 1
             /\ Bucket(k, f) \in Nat /\ k \in Nat /\ k > m
  <2>1. k \in S /\ k \in Nat /\ k > m /\ m \in Nat
    BY DEF After
  <2>2. Bucket(k, f) \in Nat /\ k - Bucket(k, f) \in 0 .. size - 1
    BY <1>0, <2>1, BucketOffset
  <2>3. s <= Bucket(k, f)
    BY <1>1, <2>1, BucketsInOrder
  <2>4. Bucket(k, f) \in starts
    BY <2>1, <2>2, <2>3 DEF After, StartsOf
  <2>5. QED
    BY <2>1, <2>2, <2>4
<1>10. place \in [K -> free]
  <2>1. ASSUME NEW k \in K PROVE <<Bucket(k, f), k - Bucket(k, f)>> \in free
    <3>1. <<Bucket(k, f), k - Bucket(k, f)>> \in places
      BY <1>9
    <3>2. <<Bucket(k, f), k - Bucket(k, f)>> # <<s, m - s>>
      BY <1>9
    <3>3. QED
      BY <3>1, <3>2
  <2>2. QED
    BY <2>1
<1>11. \A k, l \in K : place[k] = place[l] => k = l
  <2>1. SUFFICES ASSUME NEW k \in K, NEW l \in K, place[k] = place[l] PROVE k = l
    OBVIOUS
  <2>2. Bucket(k, f) = Bucket(l, f) /\ k - Bucket(k, f) = l - Bucket(l, f)
    BY <2>1
  <2>3. QED
    BY <1>9, <2>2
<1> HIDE DEF place, free, places, starts, later, K
<1>12. place \in Injection(K, free)
  BY <1>10, <1>11, Fun_IsInj
<1>13. IsFiniteSet(K) /\ Cardinality(K) <= Cardinality(free)
  BY <1>8, <1>12, FS_Injection
<1>14. Cardinality(later) < n
  BY <1>1 DEF later
<1>15. PICK c \in Nat : c = Cardinality(starts) /\ c <= n
  BY <1>4, <1>14
<1>16. c * size <= n * size /\ c * size \in Nat /\ n * size \in Nat
  BY <1>15, TimesMonotone
<1>17. Cardinality(free) < n * size
  BY <1>6, <1>8, <1>15, <1>16
<1>18. Cardinality(K) \in Nat /\ Cardinality(free) \in Int
  BY <1>6, <1>8, <1>13, <1>15, <1>16, FS_CardinalityType
<1>19. Cardinality(K) < n * size
  BY <1>13, <1>16, <1>17, <1>18
<1>20. QED
  BY <1>0, <1>19 DEF K

\* Where a set is cut, nothing after a member that stays is cut.
LEMMA LatestIsUpward ==
  ASSUME NEW S \in SUBSET Nat, IsFiniteSet(S), NEW n \in Nat, NEW m \in Latest(S, n),
         NEW k \in S, k > m
  PROVE  k \in Latest(S, n)
<1>1. m \in S /\ Cardinality(After(S, m)) < n
  BY DEF Latest, After
<1>2. After(S, k) \in SUBSET After(S, m) /\ After(S, m) \in SUBSET S
  <2>1. \A l \in S : l > k => l > m
    BY <1>1
  <2>2. QED
    BY <2>1 DEF After
<1>3. IsFiniteSet(After(S, m))
  BY <1>2, FS_Subset
<1>4. IsFiniteSet(After(S, k)) /\ Cardinality(After(S, k)) <= Cardinality(After(S, m))
  BY <1>2, <1>3, FS_Subset
<1>5. Cardinality(After(S, k)) < n
  BY <1>1, <1>3, <1>4, FS_CardinalityType
<1>6. QED
  BY <1>5 DEF Latest, After

\* The bucket at a start.
BucketAt(s, R, f) ==
  [start |-> s, rows |-> {k \in R : Bucket(k, f) = s},
   isClosed |-> Max({k \in R : Bucket(k, f) = s}) \notin open]

LaterBuckets(buckets, s) == {c \in buckets : c.start > s}

LEMMA BucketsByStart ==
  ASSUME NEW R, NEW f
  PROVE  /\ \A b \in Aggregated(R, f) : b.start \in StartsOf(R, f) /\ b = BucketAt(b.start, R, f)
         /\ \A s \in StartsOf(R, f) : BucketAt(s, R, f) \in Aggregated(R, f)
         /\ \A s : BucketAt(s, R, f).start = s /\ BucketAt(s, R, f).rows = {k \in R : Bucket(k, f) = s}
<1>1. Aggregated(R, f) = {BucketAt(Bucket(m, f), R, f) : m \in R}
  BY DEF Aggregated, BucketAt
<1>2. \A s : BucketAt(s, R, f).start = s /\ BucketAt(s, R, f).rows = {k \in R : Bucket(k, f) = s}
  BY DEF BucketAt
<1>3. QED
  BY <1>1, <1>2 DEF StartsOf

\* As many buckets as starts.
LEMMA BucketsCounted ==
  ASSUME NEW R, IsFiniteSet(R), NEW f, NEW s
  PROVE  Cardinality(LaterBuckets(Aggregated(R, f), s)) = Cardinality(After(StartsOf(R, f), s))
<1> DEFINE T == After(StartsOf(R, f), s)
           L == LaterBuckets(Aggregated(R, f), s)
           g == [t \in T |-> BucketAt(t, R, f)]
<1>1. IsFiniteSet(T)
  <2>1. IsFiniteSet(StartsOf(R, f)) /\ T \in SUBSET StartsOf(R, f)
    BY StartsAreFinite DEF After
  <2>2. QED
    BY <2>1, FS_Subset
<1>2. g \in [T -> L]
  BY BucketsByStart DEF After, LaterBuckets
<1>3. \A t, u \in T : g[t] = g[u] => t = u
  <2>1. \A t \in T : g[t].start = t
    BY BucketsByStart
  <2>2. QED
    BY <2>1
<1>4. \A b \in L : \E t \in T : g[t] = b
  <2>1. SUFFICES ASSUME NEW b \in L PROVE b.start \in T /\ g[b.start] = b
    OBVIOUS
  <2>2. b.start \in T
    BY BucketsByStart DEF After, LaterBuckets
  <2>3. QED
    BY <2>2, BucketsByStart DEF LaterBuckets
<1> HIDE DEF T, L, g
<1>5. g \in Bijection(T, L)
  BY <1>2, <1>3, <1>4, Fun_IsBij
<1>6. Cardinality(L) = Cardinality(T)
  BY <1>1, <1>5, FS_Bijection DEF ExistsBijection
<1>7. QED
  BY <1>6 DEF T, L

\* The most recent buckets with all their rows.
WholeAndLatest(buckets, S, f, n) ==
  /\ {b.start : b \in buckets} = Latest(StartsOf(S, f), n)
  /\ \A b \in buckets : b.rows = {m \in S : Bucket(m, f) = b.start}

LEMMA WholeBuckets ==
  ASSUME NEW S \in SUBSET Nat, IsFiniteSet(S), NEW f \in DOMAIN BucketSize,
         NEW n \in Nat \ {0}, NEW R, R = Latest(S, BaseLimit(n, f)),
         NEW last, last = LastBuckets(Aggregated(R, f), n)
  PROVE  WholeAndLatest(last, S, f, n)
<1>0. PICK limit \in Nat : R = Latest(S, limit)
  <2>1. BucketSize[f] \in Nat
    BY MarketCandlesAssumption
  <2>2. BaseLimit(n, f) \in Nat
    BY <2>1 DEF BaseLimit
  <2>3. QED
    BY <2>2
<1>1. R \in SUBSET S /\ IsFiniteSet(R)
  BY FS_Subset DEF Latest
<1>2. ASSUME NEW m \in S, Bucket(m, f) \in Latest(StartsOf(S, f), n) PROVE m \in R
  <2>1. Cardinality(After(StartsOf(S, f), Bucket(m, f))) < n
    BY <1>2 DEF Latest, After
  <2>2. Cardinality(After(S, m)) < n * BucketSize[f]
    BY <2>1, FewRowsAfter
  <2>3. QED
    BY <2>2 DEF Latest, After, BaseLimit
<1>3. ASSUME NEW s \in StartsOf(R, f)
      PROVE  After(StartsOf(R, f), s) = After(StartsOf(S, f), s)
  <2>1. PICK m \in R : s = Bucket(m, f)
    BY DEF StartsOf
  <2>2. ASSUME NEW k \in S, Bucket(k, f) > s PROVE k \in R
    <3>1. k \in Nat /\ m \in Nat /\ m \in S
      BY <1>1
    <3>2. Bucket(k, f) \in Nat /\ Bucket(m, f) \in Nat
      BY <3>1, BucketOffset
    <3>3. k > m
      BY <2>1, <2>2, <3>1, <3>2, BucketsInOrder
    <3>4. QED
      BY <1>0, <2>2, <3>3, LatestIsUpward
  <2>3. After(StartsOf(R, f), s) \subseteq After(StartsOf(S, f), s)
    BY <1>1 DEF After, StartsOf
  <2>4. After(StartsOf(S, f), s) \subseteq After(StartsOf(R, f), s)
    BY <2>2 DEF After, StartsOf
  <2>5. QED
    BY <2>3, <2>4
<1>4. ASSUME NEW b \in Aggregated(R, f)
      PROVE  b \in last <=> b.start \in Latest(StartsOf(S, f), n)
  <2>0. StartsOf(R, f) \subseteq StartsOf(S, f)
    BY <1>1 DEF StartsOf
  <2>1. b.start \in StartsOf(R, f) /\ b.start \in StartsOf(S, f)
    BY <2>0, BucketsByStart
  <2>2. b \in last <=> Cardinality(LaterBuckets(Aggregated(R, f), b.start)) < n
    BY DEF LastBuckets, LaterBuckets
  <2>3. Cardinality(LaterBuckets(Aggregated(R, f), b.start))
          = Cardinality(After(StartsOf(S, f), b.start))
    BY <1>1, <1>3, <2>1, BucketsCounted
  <2>4. b.start \in Latest(StartsOf(S, f), n)
          <=> Cardinality(After(StartsOf(S, f), b.start)) < n
    BY <2>1 DEF Latest, After
  <2>5. QED
    BY <2>2, <2>3, <2>4
<1>5. last \subseteq Aggregated(R, f)
  BY DEF LastBuckets
<1>6. ASSUME NEW s \in Latest(StartsOf(S, f), n) PROVE \E b \in last : b.start = s
  <2>1. PICK m \in S : s = Bucket(m, f)
    BY DEF Latest, StartsOf
  <2>2. m \in R
    BY <1>2, <2>1
  <2>3. s \in StartsOf(R, f)
    BY <2>1, <2>2 DEF StartsOf
  <2>4. BucketAt(s, R, f) \in Aggregated(R, f) /\ BucketAt(s, R, f).start = s
    BY <2>3, BucketsByStart
  <2>5. QED
    BY <1>4, <2>4
<1>7. ASSUME NEW b \in last PROVE b.rows = {m \in S : Bucket(m, f) = b.start}
  <2>1. b.rows = {k \in R : Bucket(k, f) = b.start}
    BY <1>5, BucketsByStart
  <2>2. b.start \in Latest(StartsOf(S, f), n)
    BY <1>4, <1>5
  <2>3. QED
    BY <1>1, <1>2, <2>1, <2>2
<1>8. {b.start : b \in last} = Latest(StartsOf(S, f), n)
  <2>1. \A b \in last : b.start \in Latest(StartsOf(S, f), n)
    BY <1>4, <1>5
  <2>2. QED
    BY <1>6, <2>1
<1>9. QED
  BY <1>7, <1>8 DEF WholeAndLatest

\* A reply answers for the rows of now.
Answers ==
  \/ reply = NoReply \/ reply = [status |-> 400]
  \/ \E f \in DOMAIN BucketSize, n \in Nat \ {0} :
       reply = [status |-> 200, timeframe |-> f, limit |-> n,
                candles |-> LastBuckets(Aggregated(Latest(stored, BaseLimit(n, f)), f), n)]

RepliesInv == MarketCandlesTypeOK /\ Answers

LEMMA RepliesInit == MarketCandlesInit => RepliesInv
  BY DEF MarketCandlesInit, RepliesInv, MarketCandlesTypeOK, Answers, NoReply

LEMMA RepliesStep == RepliesInv /\ [MarketCandlesNext]_marketCandlesVars => RepliesInv'
<1> SUFFICES ASSUME RepliesInv, [MarketCandlesNext]_marketCandlesVars PROVE RepliesInv'
  OBVIOUS
<1> USE DEF RepliesInv
<1>1. ASSUME NEW m \in 0 .. Days * DayMinutes - 1, Store(m) PROVE RepliesInv'
  <2>1. MarketCandlesTypeOK'
    BY <1>1 DEF Store, MarketCandlesTypeOK, NoReply
  <2>2. Answers'
    BY <1>1 DEF Store, Answers
  <2>3. QED
    BY <2>1, <2>2
<1>2. ASSUME NEW f \in DOMAIN BucketSize, NEW limit \in Limits, Request(f, limit) PROVE RepliesInv'
  <2>1. UNCHANGED <<stored, open>>
    BY <1>2 DEF Request
  <2>2. limit \in Int /\ MaxLimit \in Nat \ {0}
    BY MarketCandlesAssumption
  <2>3. CASE limit <= 0
    <3>1. reply' = [status |-> 400]
      BY <1>2, <2>3 DEF Request, GetCandles
    <3>2. QED
      BY <2>1, <3>1 DEF Answers, MarketCandlesTypeOK
  <2>4. CASE ~(limit <= 0)
    <3>1. PICK n \in Nat \ {0} : n = Capped(limit)
      BY <2>2, <2>4 DEF Capped
    <3>2. reply' = [status |-> 200, timeframe |-> f, limit |-> n,
                    candles |-> LastBuckets(Aggregated(Latest(stored, BaseLimit(n, f)), f), n)]
      BY <1>2, <2>4, <3>1 DEF Request, GetCandles
    <3>3. reply'.status = 200
      BY <3>2
    <3>4. Aggregated(Latest(stored, BaseLimit(n, f)), f)'
            = Aggregated(Latest(stored, BaseLimit(n, f)), f)
      BY <2>1 DEF Aggregated
    <3>5. Answers'
      BY <2>1, <3>2, <3>4 DEF Answers
    <3>6. QED
      BY <2>1, <3>3, <3>5 DEF MarketCandlesTypeOK
  <2>5. QED
    BY <2>3, <2>4
<1>3. CASE UNCHANGED marketCandlesVars
  <2>1. UNCHANGED <<stored, open, reply>>
    BY <1>3 DEF marketCandlesVars
  <2>2. \A f \in DOMAIN BucketSize, n \in Nat \ {0} :
          Aggregated(Latest(stored, BaseLimit(n, f)), f)'
            = Aggregated(Latest(stored, BaseLimit(n, f)), f)
    BY <2>1 DEF Aggregated
  <2>3. Answers'
    BY <2>1, <2>2 DEF Answers
  <2>4. QED
    BY <2>1, <2>3 DEF MarketCandlesTypeOK
<1>4. QED
  BY <1>1, <1>2, <1>3 DEF MarketCandlesNext

\* For any length of the day, timeframes, limits and rows, with whatever gaps, a
\* reply has the most recent buckets and each of them is made of all its rows
\* (MarketCandleService.getCandles reads limit * bucket size rows from the end).
THEOREM RepliesHaveWholeBuckets == MarketCandlesSpec => []BucketsAreWhole
<1>1. RepliesInv => BucketsAreWhole
  <2> SUFFICES ASSUME RepliesInv, reply.status = 200
               PROVE  LET f == reply.timeframe
                          starts == {Bucket(m, f) : m \in stored} IN
                      /\ {b.start : b \in reply.candles} = Latest(starts, reply.limit)
                      /\ \A b \in reply.candles : b.rows = {m \in stored : Bucket(m, f) = b.start}
    BY DEF BucketsAreWhole
  <2>1. PICK f \in DOMAIN BucketSize, n \in Nat \ {0} :
          reply = [status |-> 200, timeframe |-> f, limit |-> n,
                   candles |-> LastBuckets(Aggregated(Latest(stored, BaseLimit(n, f)), f), n)]
    BY DEF RepliesInv, Answers, NoReply
  <2>2. PICK last : last = LastBuckets(Aggregated(Latest(stored, BaseLimit(n, f)), f), n)
    OBVIOUS
  <2>3. reply.timeframe = f /\ reply.limit = n /\ reply.candles = last
    BY <2>1, <2>2
  <2>4. stored \in SUBSET Nat /\ IsFiniteSet(stored)
    <3>1. DayMinutes \in Nat /\ Days \in Nat
      BY MarketCandlesAssumption
    <3>2. PICK d \in Int : d = Days * DayMinutes - 1
      BY <3>1
    <3>3. IsFiniteSet(0 .. d)
      BY FS_Interval
    <3>4. stored \in SUBSET (0 .. d)
      BY <3>2 DEF RepliesInv, MarketCandlesTypeOK
    <3>5. IsFiniteSet(stored)
      BY <3>3, <3>4, FS_Subset
    <3>6. QED
      BY <3>4, <3>5
  <2>5. /\ {b.start : b \in last} = Latest(StartsOf(stored, f), n)
        /\ \A b \in last : b.rows = {m \in stored : Bucket(m, f) = b.start}
    <3>1. PICK S \in SUBSET Nat : S = stored
      BY <2>4
    <3>2. PICK R : R = Latest(S, BaseLimit(n, f))
      OBVIOUS
    <3>3. IsFiniteSet(S) /\ last = LastBuckets(Aggregated(R, f), n)
      BY <2>2, <2>4, <3>1, <3>2
    <3>4. WholeAndLatest(last, S, f, n)
      BY <3>2, <3>3, WholeBuckets
    <3>5. QED
      BY <3>1, <3>4 DEF WholeAndLatest
  <2>6. QED
    BY <2>3, <2>5 DEF StartsOf
<1>2. QED
  BY <1>1, RepliesInit, RepliesStep, PTL DEF MarketCandlesSpec

\* The rows that are stored and the reply keep their types (the table of candles
\* and the answer of MarketCandleController).
THEOREM RepliesTypeCorrect == MarketCandlesSpec => []MarketCandlesTypeOK
<1>1. RepliesInv => MarketCandlesTypeOK
  BY DEF RepliesInv
<1>2. QED
  BY <1>1, RepliesInit, RepliesStep, PTL DEF MarketCandlesSpec

-----------------------------------------------------------------------------
(***************************************************************************)
(* The chart.  Of a row of one minute it may have an older version, or a   *)
(* candle of the other timeframe.                                          *)
(***************************************************************************)

\* Unless a tick came late, a closed version is the last.
OlderVersion(c, r, isLate) ==
  Present(c) /\ c.timeframe = "1m" =>
    /\ Present(r) /\ c.volume <= r.volume
    /\ c.isClosed => r.isClosed /\ (isLate \/ c.volume = r.volume)

TellsVolume(c, r) == Present(c) /\ c.timeframe = "1m" /\ c.volume = r.volume

\* Nothing that came before r can replace c.
CaughtUp(c, r) ==
  \/ TellsVolume(c, r)
  \/ Present(c) /\ c.timeframe = "wide" /\ (c.isClosed \/ c.volume >= r.volume)

Known(r) == Present(r) => r.timeframe = "1m"

\* No later row is smaller or open again, and without a late tick a closed one
\* stays as it is.
Grown(r, s, isLate) ==
  Present(r) =>
    /\ Present(s) /\ r.volume <= s.volume
    /\ r.isClosed => s.isClosed /\ (isLate \/ r.volume = s.volume)

LEMMA RowFields ==
  ASSUME NEW c \in Row, Present(c)
  PROVE  /\ c.timeframe \in Timeframes /\ c.volume \in Nat /\ c.isClosed \in BOOLEAN
         /\ c = [timeframe |-> c.timeframe, volume |-> c.volume, isClosed |-> c.isClosed]
  BY DEF Row, Present

LEMMA CandlesAreRows ==
  ASSUME NEW f \in Timeframes, NEW n \in Nat, NEW b \in BOOLEAN
  PROVE  Candle(f, n, b) \in Row /\ Present(Candle(f, n, b))
<1>1. Candle(f, n, b) \in Row
  BY DEF Candle, Row
<1>2. Present(Candle(f, n, b))
  <2>1. "timeframe" \in DOMAIN Candle(f, n, b) /\ "timeframe" \notin DOMAIN None
    BY DEF Candle, None
  <2>2. QED
    BY <2>1 DEF Present
<1>3. QED
  BY <1>1, <1>2

\* One of the two stays.
LEMMA MergedIsOne ==
  ASSUME NEW c, NEW d PROVE Merged(c, d) \in {c, d} /\ (Present(c) => Present(Merged(c, d)))
  BY DEF Merged

\* An older version does not replace what has caught up.
LEMMA MergeKeeps ==
  ASSUME NEW c \in Row, NEW d \in Row, NEW r \in Row, Present(r),
         OlderVersion(d, r, FALSE), CaughtUp(c, r)
  PROVE  CaughtUp(Merged(c, d), r)
<1>1. SUFFICES ASSUME Present(d), Accepts(c, d) PROVE CaughtUp(d, r)
  BY DEF Merged
<1>2. Present(c)
  BY DEF CaughtUp, TellsVolume
<1>3. /\ c.volume \in Nat /\ d.volume \in Nat /\ r.volume \in Nat
      /\ c.timeframe \in Timeframes /\ d.timeframe \in Timeframes
  BY <1>1, <1>2, RowFields
<1>4. c.isClosed \/ c.volume >= r.volume
  BY <1>3 DEF CaughtUp, TellsVolume
<1>5. d.isClosed \/ d.volume >= r.volume
  <2>1. SUFFICES ASSUME ~d.isClosed PROVE d.volume >= r.volume
    OBVIOUS
  <2>2. ~c.isClosed /\ ~(c.volume > d.volume)
    BY <1>1, <1>2, <2>1 DEF Accepts
  <2>3. QED
    BY <1>3, <1>4, <2>2
<1>6. CASE d.timeframe = "1m"
  <2>1. d.volume = r.volume
    BY <1>1, <1>3, <1>5, <1>6 DEF OlderVersion
  <2>2. QED
    BY <1>1, <1>6, <2>1 DEF CaughtUp, TellsVolume
<1>7. CASE d.timeframe = "wide"
  BY <1>1, <1>5, <1>7 DEF CaughtUp
<1>8. QED
  BY <1>3, <1>6, <1>7 DEF Timeframes

\* A version with the volume of the row replaces every older one.
LEMMA MergeCatchesUp ==
  ASSUME NEW c \in Row, NEW d \in Row, NEW r \in Row, Present(r), TellsVolume(d, r),
         OlderVersion(c, r, FALSE)
  PROVE  CaughtUp(Merged(c, d), r)
<1>1. Present(d) /\ d.volume = r.volume
  BY DEF TellsVolume
<1>2. CASE Accepts(c, d)
  BY <1>1, <1>2 DEF Merged, CaughtUp
<1>3. CASE ~Accepts(c, d)
  <2>1. Present(c) /\ Merged(c, d) = c /\ (c.isClosed \/ c.volume > d.volume)
    BY <1>3 DEF Accepts, Merged
  <2>2. c.volume \in Nat /\ r.volume \in Nat /\ c.timeframe \in Timeframes
    BY <2>1, RowFields
  <2>3. CASE c.timeframe = "1m"
    <3>1. c.volume = r.volume
      BY <1>1, <2>1, <2>2, <2>3 DEF OlderVersion
    <3>2. QED
      BY <2>1, <2>3, <3>1 DEF CaughtUp, TellsVolume
  <2>4. CASE c.timeframe = "wide"
    <3>1. c.isClosed \/ c.volume >= r.volume
      BY <1>1, <2>1, <2>2
    <3>2. QED
      BY <2>1, <2>4, <3>1 DEF CaughtUp
  <2>5. QED
    BY <2>2, <2>3, <2>4 DEF Timeframes
<1>4. QED
  BY <1>2, <1>3

LEMMA OlderStays ==
  ASSUME NEW c \in Row, NEW r \in Row, NEW s \in Row, NEW m, NEW was, NEW is,
         was \subseteq is, OlderVersion(c, r, m \in was), Grown(r, s, m \in is)
  PROVE  OlderVersion(c, s, m \in is)
<1>1. SUFFICES ASSUME Present(c), c.timeframe = "1m"
               PROVE  /\ Present(s) /\ c.volume <= s.volume
                      /\ c.isClosed => s.isClosed /\ (m \in is \/ c.volume = s.volume)
  BY DEF OlderVersion
<1>2. Present(r) /\ Present(s)
  BY <1>1 DEF OlderVersion, Grown
<1>3. c.volume \in Nat /\ r.volume \in Nat /\ s.volume \in Nat
  BY <1>1, <1>2, RowFields
<1>4. c.volume <= r.volume /\ r.volume <= s.volume
  BY <1>1, <1>2 DEF OlderVersion, Grown
<1>5. c.isClosed => r.isClosed /\ (m \in was \/ c.volume = r.volume)
  BY <1>1 DEF OlderVersion
<1>6. r.isClosed => s.isClosed /\ (m \in is \/ r.volume = s.volume)
  BY <1>2 DEF Grown
<1>7. QED
  BY <1>2, <1>3, <1>4, <1>5, <1>6

LEMMA NotLate ==
  ASSUME NEW c, NEW r, NEW m, m \notin late, OlderVersion(c, r, m \in late)
  PROVE  OlderVersion(c, r, FALSE)
  BY DEF OlderVersion

-----------------------------------------------------------------------------
UnderWay == updates \cup messages

\* A version with the volume the row has now.
OnItsWay(m) == \E x \in UnderWay : x.at = m /\ x.candle.volume = rows[m].volume

\* What the server has it may have sent, in earlier versions.
Versions ==
  /\ \A m \in ChartMinutes : Known(rows[m]) /\ OlderVersion(shown[m], rows[m], m \in late)
  /\ \A x \in UnderWay : /\ Present(x.candle) /\ x.candle.timeframe = "1m"
                         /\ OlderVersion(x.candle, rows[x.at], x.at \in late)
  /\ \A i \in Fetches : fetches[i].stage = "served" =>
       \A m \in ChartMinutes : OlderVersion(fetches[i].data[m], rows[m], m \in late)

\* A query that covers was sent for the timeframe that is selected, and the
\* socket has been connected since.
Coverage ==
  /\ gap # ChartMinutes => connected
  /\ \A i \in Fetches : fetches[i] # NoFetch /\ fetches[i].covers # {} =>
       connected /\ fetches[i].timeframe = timeframe

\* Unless its candle is on its way, a row is shown, or will be by an answer that
\* covers.
CatchesUp ==
  timeframe = "1m" =>
    \A m \in ChartMinutes : Present(rows[m]) /\ m \notin late /\ ~OnItsWay(m) =>
      /\ m \notin gap => CaughtUp(shown[m], rows[m])
      /\ \A i \in Fetches : fetches[i].stage = "served" /\ m \in fetches[i].covers =>
           CaughtUp(shown[m], rows[m]) \/ TellsVolume(fetches[i].data[m], rows[m])

ChartInv == ChartTypeOK /\ Versions /\ Coverage /\ CatchesUp

LEMMA QueryFields ==
  ASSUME NEW q \in ChartQuery, q # NoFetch
  PROVE  /\ q.timeframe \in Timeframes /\ q.covers \subseteq ChartMinutes /\ q.stage \in {"sent", "served"}
         /\ q.stage = "served" => q.data \in [ChartMinutes -> Row]
         /\ q.stage = "sent" =>
              q \in [stage : {"sent"}, timeframe : Timeframes, covers : SUBSET ChartMinutes]
         /\ q.stage = "served" =>
              q \in [stage : {"served"}, timeframe : Timeframes, covers : SUBSET ChartMinutes,
                     data : [ChartMinutes -> Row]]
  BY DEF ChartQuery

LEMMA NoFetchStage == NoFetch.stage = "none" /\ NoFetch \in ChartQuery
  BY DEF NoFetch, ChartQuery

LEMMA CoversLess ==
  ASSUME NEW q \in ChartQuery, q # NoFetch, NEW S \in SUBSET ChartMinutes,
         NEW u, u = [q EXCEPT !.covers = S]
  PROVE  /\ u \in ChartQuery /\ u # NoFetch /\ u.covers = S /\ u.stage = q.stage
         /\ u.timeframe = q.timeframe
         /\ q.stage = "served" => u.data = q.data
<1>1. CASE q.stage = "sent"
  <2>1. /\ u \in [stage : {"sent"}, timeframe : Timeframes, covers : SUBSET ChartMinutes]
        /\ u.covers = S /\ u.timeframe = q.timeframe
    BY <1>1, QueryFields
  <2>2. QED
    BY <1>1, <2>1, NoFetchStage DEF ChartQuery
<1>2. CASE q.stage = "served"
  <2>1. /\ u \in [stage : {"served"}, timeframe : Timeframes, covers : SUBSET ChartMinutes,
                  data : [ChartMinutes -> Row]]
        /\ u.covers = S /\ u.timeframe = q.timeframe /\ u.data = q.data
    BY <1>2, QueryFields
  <2>2. QED
    BY <1>2, <2>1, NoFetchStage DEF ChartQuery
<1>3. QED
  BY <1>1, <1>2, QueryFields

LEMMA NewQuery ==
  ASSUME NEW f \in Timeframes, NEW b \in SUBSET ChartMinutes,
         NEW q, q = [stage |-> "sent", timeframe |-> f, covers |-> b]
  PROVE  q \in ChartQuery /\ q # NoFetch /\ q.stage = "sent" /\ q.timeframe = f /\ q.covers = b
  BY NoFetchStage DEF ChartQuery

LEMMA HistoryType ==
  ASSUME ChartTypeOK, NEW f \in Timeframes
  PROVE  History(f) \in [ChartMinutes -> Row]
<1> DEFINE present == {m \in ChartMinutes : Present(rows[m])}
<1>1. IsFiniteSet(ChartMinutes) /\ ChartMinutes \subseteq Int
  BY ChartAssumption, FS_Interval DEF ChartMinutes
<1>2. IsFiniteSet(present) /\ present \subseteq Int
  BY <1>1, FS_Subset
<1>3. VolumeOf(present) \in Nat
  <2>1. PICK v : v = [m \in present |-> rows[m].volume]
    OBVIOUS
  <2>2. v \in [present -> Nat]
    BY <2>1, RowFields DEF ChartTypeOK
  <2>3. SumOf(v) \in Nat
    BY <1>2, <2>2, SumIsNat
  <2>4. QED
    BY <2>1, <2>3 DEF VolumeOf
<1>4. ASSUME present # {} PROVE rows[Max(present)].isClosed \in BOOLEAN
  <2>1. PICK x \in present : \A y \in present : y <= x
    BY <1>2, <1>4, LargestElement
  <2>2. \A y \in present : x >= y
    BY <1>2, <2>1
  <2>3. Max(present) \in present
    BY <2>2 DEF Max
  <2>4. rows[Max(present)] \in Row /\ Present(rows[Max(present)])
    BY <2>3 DEF ChartTypeOK
  <2>5. QED
    BY <2>4, RowFields
<1>5. present # {} =>
        Candle("wide", VolumeOf(present), rows[Max(present)].isClosed) \in Row
  BY <1>3, <1>4, CandlesAreRows DEF Timeframes
<1>6. None \in Row
  BY DEF Row
<1> HIDE DEF present
<1>7. History(f) = [m \in ChartMinutes |->
                      IF f = "1m" THEN rows[m]
                      ELSE IF m = 0 /\ present # {}
                      THEN Candle("wide", VolumeOf(present), rows[Max(present)].isClosed) ELSE None]
  BY DEF History, present
<1>8. QED
  BY <1>5, <1>6, <1>7 DEF ChartTypeOK

\* What a history has of one minute is the row itself.
LEMMA HistoryIsOld ==
  ASSUME ChartTypeOK, Versions, NEW f \in Timeframes, NEW m \in ChartMinutes
  PROVE  /\ OlderVersion(History(f)[m], rows[m], m \in late)
         /\ f = "1m" => History(f)[m] = rows[m]
<1>1. CASE f = "1m"
  <2>1. History(f)[m] = rows[m]
    BY <1>1 DEF History
  <2>2. OlderVersion(rows[m], rows[m], m \in late)
    <3>1. Present(rows[m]) => rows[m].volume \in Nat
      BY RowFields DEF ChartTypeOK
    <3>2. QED
      BY <3>1 DEF OlderVersion
  <2>3. QED
    BY <2>1, <2>2
<1>2. CASE f # "1m"
  <2>1. PICK n, b : History(f)[m] \in {None, Candle("wide", n, b)}
    BY <1>2 DEF History
  <2>2. Candle("wide", n, b).timeframe # "1m" /\ ~Present(None)
    BY DEF Candle, Present
  <2>3. QED
    BY <1>2, <2>1, <2>2 DEF OlderVersion
<1>3. QED
  BY <1>1, <1>2

LEMMA ChartInit0 == ChartInit => ChartInv
<1> SUFFICES ASSUME ChartInit PROVE ChartInv
  OBVIOUS
<1>1. None \in Row /\ ~Present(None) /\ NoFetch \in ChartQuery /\ NoFetch.stage = "none"
  BY NoFetchStage DEF Row, Present
<1>2. rows = [m \in ChartMinutes |-> None] /\ shown = rows /\ messages = {}
      /\ updates = {} /\ gap = ChartMinutes /\ late = {}
  BY DEF ChartInit
<1>3. fetches = [i \in Fetches |-> NoFetch]
  BY DEF ChartInit
<1>4. ChartTypeOK
  <2>1. rows \in [ChartMinutes -> Row] /\ shown \in [ChartMinutes -> Row]
    BY <1>1, <1>2
  <2>2. fetches \in [Fetches -> ChartQuery] /\ messages \subseteq [at : ChartMinutes, candle : Row]
        /\ updates \subseteq [at : ChartMinutes, candle : Row]
    BY <1>1, <1>2, <1>3
  <2>3. switches \in 0 .. MaxSwitches /\ timeframe \in Timeframes
    BY ChartAssumption DEF ChartInit, Timeframes
  <2>4. QED
    BY <2>1, <2>2, <2>3 DEF ChartInit, ChartTypeOK
<1>5. Versions
  BY <1>1, <1>2, <1>3 DEF Versions, UnderWay, Known, OlderVersion
<1>6. Coverage
  BY <1>1, <1>2, <1>3 DEF Coverage
<1>7. CatchesUp
  BY <1>1, <1>2, <1>3 DEF CatchesUp
<1>8. QED
  BY <1>4, <1>5, <1>6, <1>7 DEF ChartInv

\* The rows grow, and candles are to be published.
LEMMA RowsGrow ==
  ASSUME ChartInv, NEW s \in [ChartMinutes -> Row], rows' = s, NEW l \in SUBSET ChartMinutes,
         late' = l, late \subseteq l,
         UNCHANGED <<messages, shown, timeframe, connected, loading, fetches, gap, switches>>,
         updates' \subseteq [at : ChartMinutes, candle : Row], updates \subseteq updates',
         \A m \in ChartMinutes : Grown(rows[m], s[m], m \in l) /\ Known(s[m]),
         \A x \in updates' \ updates : Present(x.candle) /\ x.candle = s[x.at],
         \A m \in ChartMinutes : Present(s[m]) =>
           \/ Present(rows[m]) /\ s[m].volume = rows[m].volume
           \/ \E x \in updates' : x.at = m /\ x.candle.volume = s[m].volume
  PROVE  ChartInv'
<1>1. ChartTypeOK'
  BY DEF ChartInv, ChartTypeOK
<1>2. Versions'
  <2>0. ASSUME NEW m \in ChartMinutes, NEW c \in Row, OlderVersion(c, rows[m], m \in late)
        PROVE  OlderVersion(c, s[m], m \in l)
    <3>1. rows[m] \in Row /\ s[m] \in Row /\ Grown(rows[m], s[m], m \in l)
      BY DEF ChartInv, ChartTypeOK
    <3>2. QED
      BY <2>0, <3>1, OlderStays
  <2>1. ASSUME NEW m \in ChartMinutes PROVE OlderVersion(shown[m], s[m], m \in l)
    BY <2>0 DEF ChartInv, ChartTypeOK, Versions
  <2>2. ASSUME NEW x \in updates' \cup messages
        PROVE  /\ Present(x.candle) /\ x.candle.timeframe = "1m"
               /\ OlderVersion(x.candle, s[x.at], x.at \in l)
    <3>1. x.at \in ChartMinutes /\ x.candle \in Row
      BY DEF ChartInv, ChartTypeOK
    <3>2. CASE x \in updates \cup messages
      <4>1. /\ Present(x.candle) /\ x.candle.timeframe = "1m"
            /\ OlderVersion(x.candle, rows[x.at], x.at \in late)
        BY <3>2 DEF ChartInv, Versions, UnderWay
      <4>2. QED
        BY <2>0, <3>1, <4>1
    <3>3. CASE x \notin updates \cup messages
      <4>1. Present(x.candle) /\ x.candle = s[x.at] /\ Known(s[x.at])
        BY <3>1, <3>3
      <4>2. x.candle.volume \in Nat
        BY <3>1, <4>1, RowFields
      <4>3. QED
        BY <4>1, <4>2 DEF Known, OlderVersion
    <3>4. QED
      BY <3>2, <3>3
  <2>3. ASSUME NEW i \in Fetches, fetches[i].stage = "served", NEW m \in ChartMinutes
        PROVE  OlderVersion(fetches[i].data[m], s[m], m \in l)
    <3>1. fetches[i] \in ChartQuery /\ fetches[i] # NoFetch
      BY <2>3, NoFetchStage DEF ChartInv, ChartTypeOK
    <3>2. fetches[i].data[m] \in Row
      BY <2>3, <3>1, QueryFields
    <3>3. OlderVersion(fetches[i].data[m], rows[m], m \in late)
      BY <2>3 DEF ChartInv, Versions
    <3>4. QED
      BY <2>0, <3>2, <3>3
  <2>4. QED
    BY <2>1, <2>2, <2>3 DEF Versions, UnderWay
<1>3. Coverage'
  BY DEF ChartInv, Coverage
<1>4. CatchesUp'
  <2>1. ASSUME NEW m \in ChartMinutes, Present(s[m]), ~OnItsWay(m)'
        PROVE  /\ Present(rows[m]) /\ s[m].volume = rows[m].volume /\ ~OnItsWay(m)
               /\ \A c : TellsVolume(c, s[m]) <=> TellsVolume(c, rows[m])
               /\ \A c : CaughtUp(c, s[m]) <=> CaughtUp(c, rows[m])
    <3>1. Present(rows[m]) /\ s[m].volume = rows[m].volume /\ ~OnItsWay(m)
      BY <2>1 DEF OnItsWay, UnderWay
    <3>2. QED
      BY <3>1 DEF TellsVolume, CaughtUp
  <2>2. SUFFICES ASSUME timeframe = "1m", NEW m \in ChartMinutes, Present(s[m]), m \notin l,
                        ~OnItsWay(m)'
                 PROVE  /\ m \notin gap => CaughtUp(shown[m], s[m])
                        /\ \A i \in Fetches : fetches[i].stage = "served" /\ m \in fetches[i].covers =>
                             CaughtUp(shown[m], s[m]) \/ TellsVolume(fetches[i].data[m], s[m])
    BY DEF CatchesUp
  <2>3. m \notin late
    BY <2>2
  <2>4. QED
    BY <2>1, <2>2, <2>3 DEF ChartInv, CatchesUp
<1>5. QED
  BY <1>1, <1>2, <1>3, <1>4 DEF ChartInv

LEMMA CloseMinutesStep ==
  ASSUME ChartInv, NEW m \in ChartMinutes, CloseMinutes(m) PROVE ChartInv'
<1>1. PICK s : s = rows'
  OBVIOUS
<1>2. ASSUME NEW k \in ChartMinutes
      PROVE  /\ s[k] \in Row /\ Grown(rows[k], s[k], k \in late) /\ Known(s[k])
             /\ Present(s[k]) => Present(rows[k]) /\ s[k].volume = rows[k].volume
  <2>1. rows[k] \in Row /\ Known(rows[k])
    BY DEF ChartInv, ChartTypeOK, Versions
  <2>2. CASE s[k] = rows[k]
    <3>1. Grown(rows[k], rows[k], k \in late)
      BY <2>1, RowFields DEF Grown
    <3>2. QED
      BY <2>1, <2>2, <3>1
  <2>3. CASE Present(rows[k]) /\ s[k] = [rows[k] EXCEPT !.isClosed = TRUE]
    <3>1. /\ rows[k].timeframe \in Timeframes /\ rows[k].volume \in Nat
          /\ s[k] = Candle(rows[k].timeframe, rows[k].volume, TRUE)
      BY <2>1, <2>3, RowFields DEF Candle
    <3>2. s[k] \in Row /\ Present(s[k])
      BY <3>1, CandlesAreRows
    <3>3. /\ s[k].timeframe = rows[k].timeframe /\ s[k].volume = rows[k].volume
          /\ s[k].isClosed = TRUE
      BY <3>1 DEF Candle
    <3>4. QED
      BY <2>1, <2>3, <3>1, <3>2, <3>3 DEF Grown, Known
  <2>4. QED
    BY <1>1, <2>2, <2>3 DEF CloseMinutes
<1>3. s \in [ChartMinutes -> Row]
  BY <1>1, <1>2 DEF CloseMinutes
<1>4. /\ updates' = updates /\ updates \subseteq [at : ChartMinutes, candle : Row]
      /\ late' = late /\ late \in SUBSET ChartMinutes
  BY DEF CloseMinutes, ChartInv, ChartTypeOK
<1>5. UNCHANGED <<messages, shown, timeframe, connected, loading, fetches, gap, switches>>
  BY DEF CloseMinutes
<1>6. QED
  BY <1>1, <1>2, <1>3, <1>4, <1>5, RowsGrow

LEMMA AddVolumeStep ==
  ASSUME ChartInv, NEW m \in ChartMinutes, AddVolume(m) PROVE ChartInv'
<1>1. PICK s : s = rows'
  OBVIOUS
<1>2. PICK c : c = Candle("1m", rows[m].volume + 1, Present(rows[m]) /\ rows[m].isClosed)
  OBVIOUS
<1>3. s = [rows EXCEPT ![m] = c] /\ updates' = updates \cup {[at |-> m, candle |-> s[m]]}
  BY <1>1, <1>2 DEF AddVolume
<1>4. rows \in [ChartMinutes -> Row]
  BY DEF ChartInv, ChartTypeOK
<1>5. rows[m].volume \in Nat /\ (Present(rows[m]) /\ rows[m].isClosed) \in BOOLEAN
  <2>1. CASE Present(rows[m])
    BY <1>4, <2>1, RowFields
  <2>2. CASE ~Present(rows[m])
    <3>1. rows[m].volume = 0
      BY <2>2 DEF Present, None
    <3>2. QED
      BY <2>2, <3>1
  <2>3. QED
    BY <2>1, <2>2
<1>6. /\ c \in Row /\ Present(c) /\ c.timeframe = "1m" /\ c.volume = rows[m].volume + 1
      /\ Present(rows[m]) /\ rows[m].isClosed => c.isClosed
  <2>1. "1m" \in Timeframes
    BY DEF Timeframes
  <2>2. PICK n \in Nat : n = rows[m].volume + 1
    BY <1>5
  <2>3. PICK b \in BOOLEAN : b = (Present(rows[m]) /\ rows[m].isClosed)
    BY <1>5
  <2>4. c = Candle("1m", n, b)
    BY <1>2, <2>2, <2>3
  <2>5. c \in Row /\ Present(c)
    BY <2>1, <2>4, CandlesAreRows
  <2>6. c.timeframe = "1m" /\ c.volume = n /\ c.isClosed = b
    BY <2>4 DEF Candle
  <2>7. QED
    BY <2>2, <2>3, <2>5, <2>6
<1>7. s \in [ChartMinutes -> Row] /\ s[m] = c /\ \A k \in ChartMinutes \ {m} : s[k] = rows[k]
  BY <1>3, <1>4, <1>6
<1>8. PICK l \in SUBSET ChartMinutes :
        /\ l = late' /\ late \subseteq l
        /\ Present(rows[m]) /\ rows[m].isClosed => m \in l
  BY DEF AddVolume, ChartInv, ChartTypeOK
<1>9. ASSUME NEW k \in ChartMinutes PROVE Grown(rows[k], s[k], k \in l) /\ Known(s[k])
  <2>1. CASE k = m
    <3>1. rows[m].volume <= c.volume
      BY <1>5, <1>6
    <3>2. Grown(rows[m], c, m \in l) /\ Known(c)
      BY <1>6, <1>8, <3>1 DEF Grown, Known
    <3>3. QED
      BY <1>7, <2>1, <3>2
  <2>2. CASE k # m
    <3>1. Grown(rows[k], rows[k], k \in l)
      BY <1>4, RowFields DEF Grown
    <3>2. QED
      BY <1>7, <2>2, <3>1 DEF ChartInv, Versions
  <2>3. QED
    BY <2>1, <2>2
<1>10. PICK x \in [at : ChartMinutes, candle : Row] : x = [at |-> m, candle |-> c]
  BY <1>6
<1>11. x.at = m /\ x.candle = c /\ updates' = updates \cup {x}
  BY <1>3, <1>7, <1>10
<1>12. updates' \subseteq [at : ChartMinutes, candle : Row]
  BY <1>10, <1>11 DEF ChartInv, ChartTypeOK
<1>13. UNCHANGED <<messages, shown, timeframe, connected, loading, fetches, gap, switches>>
  BY DEF AddVolume
<1>14. \A y \in updates' \ updates : Present(y.candle) /\ y.candle = s[y.at]
  BY <1>6, <1>7, <1>11
<1>15. \A k \in ChartMinutes : Present(s[k]) =>
         \/ Present(rows[k]) /\ s[k].volume = rows[k].volume
         \/ \E y \in updates' : y.at = k /\ y.candle.volume = s[k].volume
  BY <1>7, <1>11
<1>16. QED
  BY <1>1, <1>7, <1>8, <1>9, <1>11, <1>12, <1>13, <1>14, <1>15, RowsGrow

LEMMA PublishCandleStep ==
  ASSUME ChartInv, NEW x \in updates, PublishCandle(x) PROVE ChartInv'
<1>1. /\ updates' = updates \ {x} /\ messages' = messages \cup {x}
      /\ UNCHANGED <<rows, shown, timeframe, connected, loading, fetches, gap, late, switches>>
  BY DEF PublishCandle
<1>2. UnderWay' = UnderWay
  BY <1>1 DEF UnderWay
<1>3. ChartTypeOK'
  BY <1>1 DEF ChartInv, ChartTypeOK
<1>4. Versions'
  BY <1>1, <1>2 DEF ChartInv, Versions
<1>5. Coverage'
  BY <1>1 DEF ChartInv, Coverage
<1>6. CatchesUp'
  BY <1>1, <1>2 DEF ChartInv, CatchesUp, OnItsWay
<1>7. QED
  BY <1>3, <1>4, <1>5, <1>6 DEF ChartInv

\* The minute of a lost candle is in the gap, and no answer that is computed
\* makes up for it.
LEMMA LoseCandleStep ==
  ASSUME ChartInv, NEW x \in UnderWay, LoseCandle(x) PROVE ChartInv'
<1>1. PICK at \in ChartMinutes : at = x.at
  BY DEF ChartInv, ChartTypeOK, UnderWay
<1>2. /\ updates' = updates \ {x} /\ messages' = messages \ {x} /\ gap' = gap \cup {at}
      /\ UNCHANGED <<rows, shown, timeframe, connected, loading, late>>
  BY <1>1 DEF LoseCandle
<1>3. switches' \in 0 .. MaxSwitches
  BY ChartAssumption DEF LoseCandle, ChartInv, ChartTypeOK
<1>4. PICK f : f = fetches'
  OBVIOUS
<1>5. f = [i \in Fetches |-> IF fetches[i].stage = "served"
                             THEN [fetches[i] EXCEPT !.covers = @ \ {at}] ELSE fetches[i]]
  BY <1>1, <1>4 DEF LoseCandle
<1>6. ASSUME NEW i \in Fetches
      PROVE  /\ f[i] \in ChartQuery /\ f[i].stage = fetches[i].stage
             /\ f[i] # NoFetch => /\ fetches[i] # NoFetch /\ f[i].covers \subseteq fetches[i].covers
                                  /\ f[i].timeframe = fetches[i].timeframe
             /\ f[i].stage = "served" => at \notin f[i].covers /\ f[i].data = fetches[i].data
  <2>1. PICK q \in ChartQuery : q = fetches[i]
    BY DEF ChartInv, ChartTypeOK
  <2>2. CASE q.stage = "served"
    <3>1. q # NoFetch
      BY <2>2, NoFetchStage
    <3>2. q.covers \subseteq ChartMinutes
      BY <3>1, QueryFields
    <3>3. PICK S \in SUBSET ChartMinutes : S = q.covers \ {at}
      BY <3>2
    <3>4. f[i] = [q EXCEPT !.covers = S]
      BY <1>5, <2>1, <2>2, <3>3
    <3>5. /\ f[i] \in ChartQuery /\ f[i] # NoFetch /\ f[i].covers = S /\ f[i].stage = q.stage
          /\ f[i].timeframe = q.timeframe /\ f[i].data = q.data
      BY <2>2, <3>1, <3>4, CoversLess
    <3>6. QED
      BY <2>1, <3>1, <3>3, <3>5
  <2>3. CASE q.stage # "served"
    BY <1>5, <2>1, <2>3
  <2>4. QED
    BY <2>2, <2>3
<1>7. ChartTypeOK'
  <2>1. f \in [Fetches -> ChartQuery]
    BY <1>5, <1>6
  <2>2. QED
    BY <1>2, <1>3, <1>4, <2>1 DEF ChartInv, ChartTypeOK
<1>8. Versions'
  <2>1. UnderWay' \subseteq UnderWay
    BY <1>2 DEF UnderWay
  <2>2. QED
    BY <1>2, <1>4, <1>6, <2>1 DEF ChartInv, Versions
<1>9. Coverage'
  <2>1. gap \subseteq ChartMinutes
    BY DEF ChartInv, ChartTypeOK
  <2>2. QED
    BY <1>2, <1>4, <1>6, <2>1 DEF ChartInv, Coverage
<1>10. CatchesUp'
  <2>1. SUFFICES ASSUME timeframe = "1m", NEW m \in ChartMinutes, Present(rows[m]), m \notin late,
                        ~OnItsWay(m)'
                 PROVE  /\ m \notin gap' => CaughtUp(shown[m], rows[m])
                        /\ \A i \in Fetches : f[i].stage = "served" /\ m \in f[i].covers =>
                             CaughtUp(shown[m], rows[m]) \/ TellsVolume(f[i].data[m], rows[m])
    BY <1>2, <1>4 DEF CatchesUp
  <2>2. CASE m = at
    BY <1>2, <1>6, <2>2
  <2>3. CASE m # at
    <3>1. ~OnItsWay(m)
      BY <1>1, <1>2, <2>1, <2>3 DEF OnItsWay, UnderWay
    <3>2. ASSUME NEW i \in Fetches, f[i].stage = "served", m \in f[i].covers
          PROVE  /\ fetches[i].stage = "served" /\ m \in fetches[i].covers
                 /\ f[i].data = fetches[i].data
      <4>1. f[i] # NoFetch
        BY <3>2, NoFetchStage
      <4>2. QED
        BY <1>6, <3>2, <4>1
    <3>3. QED
      BY <1>2, <2>1, <3>1, <3>2 DEF ChartInv, CatchesUp
  <2>4. QED
    BY <2>2, <2>3
<1>11. QED
  BY <1>7, <1>8, <1>9, <1>10 DEF ChartInv

\* A query changes, and the rest stays.
LEMMA QueryChanges ==
  ASSUME ChartInv, NEW i \in Fetches, NEW q \in ChartQuery, fetches' = [fetches EXCEPT ![i] = q],
         UNCHANGED <<rows, updates, messages, late, shown, timeframe, gap>>, connected' \in BOOLEAN,
         connected => connected', loading' \in BOOLEAN, switches' \in 0 .. MaxSwitches,
         q # NoFetch /\ q.covers # {} => connected' /\ q.timeframe = timeframe,
         q.stage = "served" => q.timeframe \in Timeframes /\ q.data = History(q.timeframe)
  PROVE  ChartInv'
<1>1. fetches \in [Fetches -> ChartQuery]
  BY DEF ChartInv, ChartTypeOK
<1>2. fetches'[i] = q /\ \A j \in Fetches \ {i} : fetches'[j] = fetches[j]
  BY <1>1
<1>3. ChartTypeOK'
  BY <1>1 DEF ChartInv, ChartTypeOK
<1>4. Versions'
  <2>1. q.stage = "served" => \A m \in ChartMinutes : OlderVersion(q.data[m], rows[m], m \in late)
    BY HistoryIsOld DEF ChartInv
  <2>2. ASSUME NEW j \in Fetches, fetches'[j].stage = "served", NEW m \in ChartMinutes
        PROVE  OlderVersion(fetches'[j].data[m], rows[m], m \in late)
    <3>1. CASE j = i
      BY <1>2, <2>1, <2>2, <3>1
    <3>2. CASE j # i
      BY <1>2, <2>2, <3>2 DEF ChartInv, Versions
    <3>3. QED
      BY <3>1, <3>2
  <2>3. QED
    BY <2>2 DEF ChartInv, Versions, UnderWay
<1>5. Coverage'
  <2>1. ASSUME NEW j \in Fetches, fetches'[j] # NoFetch, fetches'[j].covers # {}
        PROVE  connected' /\ fetches'[j].timeframe = timeframe
    <3>1. CASE j = i
      BY <1>2, <2>1, <3>1
    <3>2. CASE j # i
      BY <1>2, <2>1, <3>2 DEF ChartInv, Coverage
    <3>3. QED
      BY <3>1, <3>2
  <2>2. QED
    BY <2>1 DEF ChartInv, Coverage
<1>6. CatchesUp'
  <2>1. ASSUME timeframe = "1m", NEW m \in ChartMinutes, Present(rows[m]), m \notin late,
               ~OnItsWay(m), NEW j \in Fetches, fetches'[j].stage = "served", m \in fetches'[j].covers
        PROVE  CaughtUp(shown[m], rows[m]) \/ TellsVolume(fetches'[j].data[m], rows[m])
    <3>1. CASE j = i
      <4>1. q.timeframe = "1m" /\ q.data = History(q.timeframe)
        BY <1>2, <2>1, <3>1, NoFetchStage
      <4>2. History("1m")[m] = rows[m] /\ Known(rows[m])
        BY <2>1, HistoryIsOld DEF ChartInv, Versions, Timeframes
      <4>3. TellsVolume(rows[m], rows[m])
        BY <2>1, <4>2 DEF TellsVolume, Known
      <4>4. QED
        BY <1>2, <3>1, <4>1, <4>2, <4>3
    <3>2. CASE j # i
      BY <1>2, <2>1, <3>2 DEF ChartInv, CatchesUp
    <3>3. QED
      BY <3>1, <3>2
  <2>2. \A m \in ChartMinutes : OnItsWay(m)' <=> OnItsWay(m)
    BY DEF OnItsWay, UnderWay
  <2>3. SUFFICES ASSUME timeframe = "1m", NEW m \in ChartMinutes, Present(rows[m]), m \notin late,
                        ~OnItsWay(m)
                 PROVE  /\ m \notin gap => CaughtUp(shown[m], rows[m])
                        /\ \A j \in Fetches : fetches'[j].stage = "served" /\ m \in fetches'[j].covers =>
                             CaughtUp(shown[m], rows[m]) \/ TellsVolume(fetches'[j].data[m], rows[m])
    BY <2>2 DEF CatchesUp
  <2>4. m \notin gap => CaughtUp(shown[m], rows[m])
    BY <2>3 DEF ChartInv, CatchesUp
  <2>5. QED
    BY <2>1, <2>3, <2>4
<1>7. QED
  BY <1>3, <1>4, <1>5, <1>6 DEF ChartInv

LEMMA ServeFetchStep ==
  ASSUME ChartInv, NEW i \in Fetches, ServeFetch(i) PROVE ChartInv'
<1>1. fetches[i] \in ChartQuery /\ fetches[i].stage = "sent" /\ fetches[i] # NoFetch
  BY NoFetchStage DEF ServeFetch, ChartInv, ChartTypeOK
<1>2. PICK f \in Timeframes, b \in SUBSET ChartMinutes : f = fetches[i].timeframe /\ b = fetches[i].covers
  BY <1>1, QueryFields
<1>3. PICK q : q = [stage |-> "served", timeframe |-> f, covers |-> b, data |-> History(f)]
  OBVIOUS
<1>4. q.stage = "served" /\ q.timeframe = f /\ q.covers = b /\ q.data = History(f)
  BY <1>3
<1>5. q \in ChartQuery
  BY <1>3, HistoryType DEF ChartQuery, ChartInv
<1>6. fetches' = [fetches EXCEPT ![i] = q]
  BY <1>2, <1>3 DEF ServeFetch, ChartInv, ChartTypeOK
<1>7. b # {} => connected /\ f = timeframe
  BY <1>1, <1>2 DEF ChartInv, Coverage
<1>8. /\ UNCHANGED <<rows, updates, messages, late, shown, timeframe, connected, gap>> /\ connected \in BOOLEAN
      /\ loading' \in BOOLEAN /\ switches' \in 0 .. MaxSwitches
  BY DEF ServeFetch, ChartInv, ChartTypeOK
<1>9. QED
  BY <1>4, <1>5, <1>6, <1>7, <1>8, QueryChanges

LEMMA FetchFailsStep ==
  ASSUME ChartInv, NEW i \in Fetches, FetchFails(i) PROVE ChartInv'
<1>1. NoFetch \in ChartQuery /\ NoFetch.stage = "none"
  BY NoFetchStage
<1>2. fetches' = [fetches EXCEPT ![i] = NoFetch]
  BY DEF FetchFails
<1>3. switches' \in 0 .. MaxSwitches
  BY ChartAssumption DEF FetchFails, ChartInv, ChartTypeOK
<1>4. /\ UNCHANGED <<rows, updates, messages, late, shown, timeframe, connected, gap>> /\ connected \in BOOLEAN
      /\ loading' \in BOOLEAN
  BY DEF FetchFails, ChartInv, ChartTypeOK
<1>5. QED
  BY <1>1, <1>2, <1>3, <1>4, QueryChanges

\* A query is sent, for the timeframe that is selected.
LEMMA FetchSent ==
  ASSUME ChartInv, NEW i \in Fetches, fetches' = [fetches EXCEPT ![i] = Fetch(timeframe)],
         UNCHANGED <<rows, updates, messages, late, shown, timeframe, gap, switches>>, loading' = TRUE,
         connected' \in BOOLEAN, connected => connected'
  PROVE  ChartInv'
<1>1. timeframe \in Timeframes /\ switches \in 0 .. MaxSwitches
  BY DEF ChartInv, ChartTypeOK
<1>2. PICK S \in SUBSET ChartMinutes : S = IF connected' THEN ChartMinutes ELSE {}
  OBVIOUS
<1>3. PICK q : q = [stage |-> "sent", timeframe |-> timeframe, covers |-> S]
  OBVIOUS
<1>4. /\ q \in ChartQuery /\ q # NoFetch /\ q.stage = "sent" /\ q.timeframe = timeframe
      /\ q.covers # {} => connected'
  BY <1>1, <1>2, <1>3, NewQuery
<1>5. fetches' = [fetches EXCEPT ![i] = q]
  BY <1>2, <1>3 DEF Fetch
<1>6. QED
  BY <1>1, <1>4, <1>5, QueryChanges

LEMMA RetryStep == ASSUME ChartInv, Retry PROVE ChartInv'
<1>1. PICK i \in Fetches : fetches' = [fetches EXCEPT ![i] = Fetch(timeframe)]
  BY DEF Retry
<1>2. /\ UNCHANGED <<rows, updates, messages, late, shown, timeframe, gap, switches>> /\ loading' = TRUE
      /\ connected' = connected /\ connected \in BOOLEAN
  BY DEF Retry, ChartInv, ChartTypeOK
<1>3. QED
  BY <1>1, <1>2, FetchSent

LEMMA ConnectStep == ASSUME ChartInv, Connect PROVE ChartInv'
<1>1. UNCHANGED <<rows, updates, messages, late, shown, timeframe, gap, switches>> /\ connected' = TRUE
  BY DEF Connect
<1>2. CASE loading
  <2>1. UNCHANGED <<loading, fetches>>
    BY <1>2 DEF Connect
  <2>2. ChartTypeOK' /\ Versions'
    BY <1>1, <2>1 DEF ChartInv, ChartTypeOK, Versions, UnderWay
  <2>3. Coverage'
    BY <1>1, <2>1 DEF ChartInv, Coverage
  <2>4. CatchesUp'
    BY <1>1, <2>1 DEF ChartInv, CatchesUp, OnItsWay, UnderWay
  <2>5. QED
    BY <2>2, <2>3, <2>4 DEF ChartInv
<1>3. CASE ~loading
  <2>1. PICK i \in Fetches : fetches' = [fetches EXCEPT ![i] = Fetch(timeframe)]
    BY <1>3 DEF Connect
  <2>2. loading' = TRUE
    BY <1>3 DEF Connect
  <2>3. QED
    BY <1>1, <2>1, <2>2, FetchSent
<1>4. QED
  BY <1>2, <1>3

LEMMA UncoveredType ==
  ASSUME ChartInv
  PROVE  /\ Uncovered \in [Fetches -> ChartQuery]
         /\ \A i \in Fetches : /\ Uncovered[i].stage = fetches[i].stage
                               /\ Uncovered[i] # NoFetch => Uncovered[i].covers = {}
                               /\ fetches[i].stage = "served" =>
                                    Uncovered[i].data = fetches[i].data
<1>1. ASSUME NEW i \in Fetches
      PROVE  /\ Uncovered[i] \in ChartQuery
             /\ Uncovered[i].stage = fetches[i].stage
             /\ Uncovered[i] # NoFetch => Uncovered[i].covers = {}
             /\ fetches[i].stage = "served" => Uncovered[i].data = fetches[i].data
  <2>1. fetches[i] \in ChartQuery
    BY DEF ChartInv, ChartTypeOK
  <2>2. CASE fetches[i] = NoFetch
    BY <2>1, <2>2, NoFetchStage DEF Uncovered
  <2>3. CASE fetches[i] # NoFetch
    <3>1. Uncovered[i] = [fetches[i] EXCEPT !.covers = {}]
      BY <2>3 DEF Uncovered
    <3>2. QED
      BY <2>1, <2>3, <3>1, CoversLess
  <2>4. QED
    BY <2>2, <2>3
<1>2. QED
  BY <1>1 DEF Uncovered

LEMMA DisconnectStep == ASSUME ChartInv, Disconnect PROVE ChartInv'
<1>1. PICK u : u = Uncovered
  OBVIOUS
<1>2. /\ UNCHANGED <<rows, updates, messages, late, shown, timeframe, loading>> /\ fetches' = u
      /\ connected' = FALSE /\ gap' = ChartMinutes
  BY <1>1 DEF Disconnect
<1>3. /\ u \in [Fetches -> ChartQuery]
      /\ \A i \in Fetches : /\ u[i].stage = fetches[i].stage /\ (u[i] # NoFetch => u[i].covers = {})
                            /\ fetches[i].stage = "served" => u[i].data = fetches[i].data
  BY <1>1, UncoveredType
<1>4. switches' \in 0 .. MaxSwitches
  BY ChartAssumption DEF Disconnect, ChartInv, ChartTypeOK
<1>5. ChartTypeOK'
  BY <1>2, <1>3, <1>4 DEF ChartInv, ChartTypeOK
<1>6. Versions'
  BY <1>2, <1>3 DEF ChartInv, Versions, UnderWay
<1>7. Coverage'
  BY <1>2, <1>3 DEF Coverage
<1>8. CatchesUp'
  BY <1>2, <1>3, NoFetchStage DEF CatchesUp
<1>9. QED
  BY <1>5, <1>6, <1>7, <1>8 DEF ChartInv

LEMMA SelectStep ==
  ASSUME ChartInv, NEW f \in Timeframes, Select(f) PROVE ChartInv'
<1>1. PICK u : u = Uncovered
  OBVIOUS
<1>0. PICK S \in SUBSET ChartMinutes : S = IF connected THEN ChartMinutes ELSE {}
  OBVIOUS
<1>2. PICK q : q = [stage |-> "sent", timeframe |-> f, covers |-> S]
  OBVIOUS
<1>3. /\ UNCHANGED <<rows, updates, messages, late, connected>> /\ gap' = ChartMinutes /\ loading' = TRUE
      /\ timeframe' = f /\ shown' = [m \in ChartMinutes |-> None]
  BY DEF Select
<1>4. PICK i \in Fetches : fetches' = [u EXCEPT ![i] = q]
  <2>1. Fetch(f) = q
    BY <1>0, <1>2, <1>3 DEF Fetch
  <2>2. QED
    BY <1>1, <2>1 DEF Select
<1>5. /\ u \in [Fetches -> ChartQuery]
      /\ \A j \in Fetches : /\ u[j].stage = fetches[j].stage /\ (u[j] # NoFetch => u[j].covers = {})
                            /\ fetches[j].stage = "served" => u[j].data = fetches[j].data
  BY <1>1, UncoveredType
<1>6. /\ q \in ChartQuery /\ q # NoFetch /\ q.stage = "sent" /\ q.timeframe = f
      /\ q.covers # {} => connected
      /\ connected \in BOOLEAN
  BY <1>0, <1>2, NewQuery DEF ChartInv, ChartTypeOK
<1>7. fetches' \in [Fetches -> ChartQuery] /\ fetches'[i] = q
      /\ \A j \in Fetches \ {i} : fetches'[j] = u[j]
  BY <1>4, <1>5, <1>6
<1>8. switches' \in 0 .. MaxSwitches
  BY ChartAssumption DEF Select, ChartInv, ChartTypeOK
<1>9. None \in Row /\ ~Present(None)
  BY DEF Row, Present
<1>10. ChartTypeOK'
  BY <1>3, <1>7, <1>8, <1>9 DEF ChartInv, ChartTypeOK
<1>11. Versions'
  <2>1. \A m \in ChartMinutes : OlderVersion(shown'[m], rows[m], m \in late)
    BY <1>3, <1>9 DEF OlderVersion
  <2>2. \A j \in Fetches : fetches'[j].stage = "served" =>
          \A m \in ChartMinutes : OlderVersion(fetches'[j].data[m], rows[m], m \in late)
    BY <1>5, <1>6, <1>7 DEF ChartInv, Versions
  <2>3. QED
    BY <1>3, <2>1, <2>2 DEF ChartInv, Versions, UnderWay
<1>12. Coverage'
  BY <1>3, <1>5, <1>6, <1>7 DEF Coverage
<1>13. CatchesUp'
  <2>1. \A j \in Fetches : ~(fetches'[j].stage = "served" /\ fetches'[j].covers # {})
    BY <1>5, <1>6, <1>7, NoFetchStage
  <2>2. QED
    BY <1>3, <2>1 DEF CatchesUp
<1>14. QED
  BY <1>10, <1>11, <1>12, <1>13 DEF ChartInv

LEMMA AnswerFetchStep ==
  ASSUME ChartInv, NEW i \in Fetches, AnswerFetch(i) PROVE ChartInv'
<1>1. PICK q \in ChartQuery : q = fetches[i]
  BY DEF ChartInv, ChartTypeOK
<1>2. /\ q.stage = "served" /\ q # NoFetch /\ q.data \in [ChartMinutes -> Row]
      /\ q.covers \subseteq ChartMinutes
  <2>1. q.stage = "served"
    BY <1>1 DEF AnswerFetch
  <2>2. q # NoFetch
    BY <2>1, NoFetchStage
  <2>3. QED
    BY <2>1, <2>2, QueryFields
<1>3. /\ shown' = [m \in ChartMinutes |-> Merged(shown[m], q.data[m])]
      /\ gap' = gap \ q.covers /\ loading' = FALSE
      /\ fetches' = [fetches EXCEPT ![i] = NoFetch]
      /\ UNCHANGED <<rows, updates, messages, late, timeframe, connected, switches>>
  BY <1>1 DEF AnswerFetch
<1>4. /\ fetches' \in [Fetches -> ChartQuery] /\ fetches'[i] = NoFetch
      /\ \A j \in Fetches \ {i} : fetches'[j] = fetches[j]
  BY <1>3, NoFetchStage DEF ChartInv, ChartTypeOK
<1>5. ASSUME NEW m \in ChartMinutes
      PROVE  /\ shown[m] \in Row /\ rows[m] \in Row /\ q.data[m] \in Row
             /\ shown'[m] = Merged(shown[m], q.data[m]) /\ shown'[m] \in {shown[m], q.data[m]}
             /\ OlderVersion(shown[m], rows[m], m \in late)
             /\ OlderVersion(q.data[m], rows[m], m \in late)
  BY <1>1, <1>2, <1>3, MergedIsOne DEF ChartInv, ChartTypeOK, Versions
<1>6. ChartTypeOK'
  <2>1. shown' \in [ChartMinutes -> Row]
    BY <1>3, <1>5
  <2>2. gap' \subseteq ChartMinutes
    BY <1>3 DEF ChartInv, ChartTypeOK
  <2>3. QED
    BY <1>3, <1>4, <2>1, <2>2 DEF ChartInv, ChartTypeOK
<1>7. Versions'
  <2>1. \A m \in ChartMinutes : OlderVersion(shown'[m], rows[m], m \in late)
    BY <1>5
  <2>2. \A j \in Fetches : fetches'[j].stage = "served" =>
          \A m \in ChartMinutes : OlderVersion(fetches'[j].data[m], rows[m], m \in late)
    BY <1>4, NoFetchStage DEF ChartInv, Versions
  <2>3. QED
    BY <1>3, <2>1, <2>2 DEF ChartInv, Versions, UnderWay
<1>8. Coverage'
  <2>1. gap \subseteq ChartMinutes
    BY DEF ChartInv, ChartTypeOK
  <2>2. gap' # ChartMinutes => gap # ChartMinutes \/ q.covers # {}
    BY <1>3
  <2>3. QED
    BY <1>1, <1>2, <1>3, <1>4, <2>2 DEF ChartInv, Coverage
<1>9. CatchesUp'
  <2>1. ASSUME timeframe = "1m", NEW m \in ChartMinutes, Present(rows[m]), m \notin late, ~OnItsWay(m)
        PROVE  /\ m \notin gap' => CaughtUp(shown'[m], rows[m])
               /\ \A j \in Fetches : fetches'[j].stage = "served" /\ m \in fetches'[j].covers =>
                    CaughtUp(shown'[m], rows[m]) \/ TellsVolume(fetches'[j].data[m], rows[m])
    <3>0. OlderVersion(shown[m], rows[m], FALSE) /\ OlderVersion(q.data[m], rows[m], FALSE)
      BY <1>5, <2>1, NotLate
    <3>1. CaughtUp(shown[m], rows[m]) => CaughtUp(shown'[m], rows[m])
      BY <1>5, <2>1, <3>0, MergeKeeps
    <3>2. TellsVolume(q.data[m], rows[m]) => CaughtUp(shown'[m], rows[m])
      BY <1>5, <2>1, <3>0, MergeCatchesUp
    <3>3. m \notin gap => CaughtUp(shown[m], rows[m])
      BY <2>1 DEF ChartInv, CatchesUp
    <3>4. m \in q.covers => CaughtUp(shown[m], rows[m]) \/ TellsVolume(q.data[m], rows[m])
      BY <1>1, <1>2, <2>1 DEF ChartInv, CatchesUp
    <3>5. m \notin gap' => CaughtUp(shown'[m], rows[m])
      BY <1>3, <3>1, <3>2, <3>3, <3>4
    <3>6. ASSUME NEW j \in Fetches, fetches'[j].stage = "served", m \in fetches'[j].covers
          PROVE  CaughtUp(shown'[m], rows[m]) \/ TellsVolume(fetches'[j].data[m], rows[m])
      <4>1. j # i /\ fetches'[j] = fetches[j]
        BY <1>4, <3>6, NoFetchStage
      <4>2. CaughtUp(shown[m], rows[m]) \/ TellsVolume(fetches[j].data[m], rows[m])
        BY <2>1, <3>6, <4>1 DEF ChartInv, CatchesUp
      <4>3. QED
        BY <3>1, <4>1, <4>2
    <3>7. QED
      BY <3>5, <3>6
  <2>2. \A m \in ChartMinutes : OnItsWay(m)' <=> OnItsWay(m)
    BY <1>3 DEF OnItsWay, UnderWay
  <2>3. QED
    BY <1>3, <2>1, <2>2 DEF CatchesUp
<1>10. QED
  BY <1>6, <1>7, <1>8, <1>9 DEF ChartInv

LEMMA DeliverStep ==
  ASSUME ChartInv, NEW x \in messages, Deliver(x) PROVE ChartInv'
<1>1. /\ messages' = messages \ {x}
      /\ UNCHANGED <<rows, updates, late, timeframe, connected, loading, fetches, switches>>
  BY DEF Deliver
<1>2. PICK at \in ChartMinutes, c \in Row : at = x.at /\ c = x.candle
  BY DEF ChartInv, ChartTypeOK
<1>3. OlderVersion(c, rows[at], at \in late) /\ Present(c) /\ c.timeframe = "1m"
  BY <1>2 DEF ChartInv, Versions, UnderWay
<1>0. gap' = IF connected /\ timeframe = "1m" /\ c.volume = rows[at].volume THEN gap \ {at} ELSE gap
  BY <1>2 DEF Deliver
<1>4. shown' = IF connected /\ timeframe = "1m" THEN [shown EXCEPT ![at] = Merged(@, c)] ELSE shown
  BY <1>2 DEF Deliver
<1>5. ASSUME NEW m \in ChartMinutes
      PROVE  /\ shown[m] \in Row /\ rows[m] \in Row /\ OlderVersion(shown[m], rows[m], m \in late)
             /\ shown'[m] = IF connected /\ timeframe = "1m" /\ m = at
                            THEN Merged(shown[m], c) ELSE shown[m]
  BY <1>4 DEF ChartInv, ChartTypeOK, Versions
<1>6. ASSUME NEW m \in ChartMinutes PROVE shown'[m] \in Row /\ OlderVersion(shown'[m], rows[m], m \in late)
  <2>1. CASE shown'[m] = shown[m]
    BY <1>5, <2>1
  <2>2. CASE m = at /\ shown'[m] = Merged(shown[m], c)
    <3>1. shown'[m] \in {shown[m], c}
      BY <2>2, MergedIsOne
    <3>2. QED
      BY <1>2, <1>3, <1>5, <2>2, <3>1
  <2>3. QED
    BY <1>5, <2>1, <2>2
<1>7. ChartTypeOK'
  <2>1. DOMAIN shown' = ChartMinutes /\ shown' = [m \in ChartMinutes |-> shown'[m]]
    BY <1>4 DEF ChartInv, ChartTypeOK
  <2>2. shown' \in [ChartMinutes -> Row]
    BY <1>6, <2>1
  <2>3. QED
    BY <1>0, <1>1, <2>2 DEF ChartInv, ChartTypeOK
<1>8. Versions'
  BY <1>1, <1>6 DEF ChartInv, Versions, UnderWay
<1>9. Coverage'
  BY <1>0, <1>1 DEF ChartInv, Coverage
<1>10. CatchesUp'
  <2>1. ASSUME timeframe = "1m", NEW m \in ChartMinutes, Present(rows[m]), m \notin late, ~OnItsWay(m)'
        PROVE  /\ m \notin gap' => CaughtUp(shown'[m], rows[m])
               /\ \A i \in Fetches : fetches[i].stage = "served" /\ m \in fetches[i].covers =>
                    CaughtUp(shown'[m], rows[m]) \/ TellsVolume(fetches[i].data[m], rows[m])
    <3>1. CASE m = at /\ c.volume = rows[m].volume
      <4>1. TellsVolume(c, rows[m]) /\ OlderVersion(shown[m], rows[m], FALSE)
        BY <1>3, <1>5, <2>1, <3>1, NotLate DEF TellsVolume
      <4>2. connected => CaughtUp(shown'[m], rows[m])
        BY <1>2, <1>5, <2>1, <3>1, <4>1, MergeCatchesUp
      <4>3. m \notin gap' => connected
        BY <1>0 DEF ChartInv, Coverage
      <4>4. \A i \in Fetches : fetches[i].stage = "served" /\ m \in fetches[i].covers => connected
        BY NoFetchStage DEF ChartInv, Coverage
      <4>5. QED
        BY <4>2, <4>3, <4>4
    <3>2. CASE ~(m = at /\ c.volume = rows[m].volume)
      <4>1. ~OnItsWay(m)
        BY <1>1, <1>2, <2>1, <3>2 DEF OnItsWay, UnderWay
      <4>2. m = at => OlderVersion(c, rows[m], FALSE)
        BY <1>3, <2>1, NotLate
      <4>3. CaughtUp(shown[m], rows[m]) => CaughtUp(shown'[m], rows[m])
        BY <1>2, <1>5, <2>1, <4>2, MergeKeeps
      <4>4. m \notin gap' => m \notin gap
        BY <1>0, <3>2
      <4>5. /\ m \notin gap => CaughtUp(shown[m], rows[m])
            /\ \A i \in Fetches : fetches[i].stage = "served" /\ m \in fetches[i].covers =>
                 CaughtUp(shown[m], rows[m]) \/ TellsVolume(fetches[i].data[m], rows[m])
        BY <2>1, <4>1 DEF ChartInv, CatchesUp
      <4>6. QED
        BY <4>3, <4>4, <4>5
    <3>3. QED
      BY <3>1, <3>2
  <2>2. QED
    BY <1>1, <2>1 DEF CatchesUp
<1>11. QED
  BY <1>7, <1>8, <1>9, <1>10 DEF ChartInv

LEMMA ChartStep == ChartInv /\ [ChartNext]_chartVars => ChartInv'
<1> SUFFICES ASSUME ChartInv, [ChartNext]_chartVars PROVE ChartInv'
  OBVIOUS
<1>1. CASE UNCHANGED chartVars
  BY <1>1 DEF chartVars, ChartInv, ChartTypeOK, Versions, Coverage, CatchesUp, OnItsWay, UnderWay
<1>2. CASE ChartNext
  BY <1>2, CloseMinutesStep, AddVolumeStep, ServeFetchStep, AnswerFetchStep, FetchFailsStep,
     PublishCandleStep, LoseCandleStep, DeliverStep, SelectStep, ConnectStep, DisconnectStep,
     RetryStep DEF ChartNext, Timeframes, UnderWay
<1>3. QED
  BY <1>1, <1>2

\* The types of the chart, the server's rows and what is under way between them.
THEOREM ChartTypeCorrect == ChartSpec => []ChartTypeOK
<1>1. ChartInv => ChartTypeOK
  BY DEF ChartInv
<1>2. QED
  BY <1>1, ChartInit0, ChartStep, PTL DEF ChartSpec

\* For any minutes, queries and messages, in whatever order rows are answered,
\* and candles published, lost, delivered and fetched again: of a minute with
\* nothing under way, nothing missed and no late tick the chart shows the volume
\* the server has (mergeCandle).
THEOREM ChartsCatchUp == ChartSpec => []ChartCatchesUp
<1>1. ChartInv => ChartCatchesUp
  <2> SUFFICES ASSUME ChartInv, timeframe = "1m", NEW m \in ChartMinutes, Present(rows[m]), Quiet(m)
               PROVE  shown[m].volume = rows[m].volume
    BY DEF ChartCatchesUp
  <2>1. m \notin late /\ m \notin gap /\ ~OnItsWay(m)
    BY DEF Quiet, OnItsWay, UnderWay
  <2>2. CaughtUp(shown[m], rows[m])
    BY <2>1 DEF ChartInv, CatchesUp
  <2>3. Present(shown[m]) => shown[m].timeframe = "1m"
    BY DEF Quiet
  <2>4. QED
    BY <2>2, <2>3 DEF CaughtUp, TellsVolume
<1>2. QED
  BY <1>1, ChartInit0, ChartStep, PTL DEF ChartSpec
=============================================================================
