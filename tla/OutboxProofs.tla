----------------------------- MODULE OutboxProofs -----------------------------
(***************************************************************************)
(* Proofs about Outbox: the types of its tables, that no event is          *)
(* acknowledged before its job is in the queue, and that only failed calls *)
(* use up retries, for any number of loops, rows, retries and faults.      *)
(***************************************************************************)
EXTENDS Outbox, TLAPS

\* A loop is about to acknowledge a row only when the job of the row is in
\* the queue: this is why an acknowledged row is queued.
AckFollowsAdd ==
  \A w \in Workers : doing[w].step = "ack" => doing[w].event \in queue

\* What a loop remembers of a row it claimed counts failed calls about that
\* row only; one that is about to count a failure has seen one more than it remembers.
RemembersFailures ==
  \A w \in Workers :
    /\ \A c \in held[w] : c.attempts <= failures[c.event]
    /\ doing[w] # Nothing =>
         doing[w].attempts + (IF doing[w].step = "fail" THEN 1 ELSE 0)
           <= failures[doing[w].event]

\* The inductive invariant.
Inv ==
  /\ TypeOK
  /\ AcknowledgedIsQueued
  /\ AckFollowsAdd

\* The record that says a loop is idle is not one of a loop at work.
LEMMA IdleIsNotWork ==
  /\ Nothing \notin Work
  /\ Nothing.step = "idle"
  /\ \A x \in Work : x.step # "idle" /\ x # Nothing
BY DEF Nothing, Work

\* The initial states satisfy the invariant.
LEMMA InitInv == Init => Inv
BY OutboxAssumption, IdleIsNotWork
   DEF Init, Inv, TypeOK, Row, AcknowledgedIsQueued, AckFollowsAdd

\* Every step keeps the invariant.
LEMMA NextInv == Inv /\ [Next]_vars => Inv'
<1> SUFFICES ASSUME Inv, [Next]_vars PROVE Inv'
  OBVIOUS
<1> USE OutboxAssumption DEF Inv
<1>1. ASSUME NEW e \in Events, Write(e)
      PROVE  Inv'
  BY <1>1 DEF Write, TypeOK, Row, AcknowledgedIsQueued, AckFollowsAdd, Written
<1>2. ASSUME NEW e \in Events, TimePasses(e)
      PROVE  Inv'
  BY <1>2 DEF TimePasses, TypeOK, Row, AcknowledgedIsQueued, AckFollowsAdd
<1>3. ASSUME NEW w \in Workers, Claim(w)
      PROVE  Inv'
  <2>1. Batch \subseteq Events
    BY DEF Batch
  <2>2. rows' \in [Events -> Row]
    BY <1>3, <2>1 DEF Claim, Leased, TypeOK, Row
  <2>3. {[event |-> e, attempts |-> rows[e].attempts] : e \in Batch} \subseteq Claimed
    BY <2>1 DEF TypeOK, Row, Claimed
  <2>4. held' \in [Workers -> SUBSET Claimed]
    BY <1>3, <2>3 DEF Claim, TypeOK
  <2>5. \A e \in Events : rows'[e].status = rows[e].status
    BY <1>3 DEF Claim, Leased, TypeOK, Row
  <2> QED
    BY <1>3, <2>2, <2>4, <2>5 DEF Claim, TypeOK, AcknowledgedIsQueued, AckFollowsAdd
<1>4. ASSUME NEW w \in Workers, Take(w)
      PROVE  Inv'
  <2>1. PICK c \in held[w] :
          /\ held' = [held EXCEPT ![w] = @ \ {c}]
          /\ doing' = [doing EXCEPT ![w] =
               [step |-> "add", event |-> c.event, attempts |-> c.attempts]]
    BY <1>4 DEF Take
  <2>2. [step |-> "add", event |-> c.event, attempts |-> c.attempts] \in Work
    BY <2>1 DEF TypeOK, Claimed, Work
  <2>3. held' \in [Workers -> SUBSET Claimed]
    BY <2>1 DEF TypeOK
  <2>4. doing' \in [Workers -> Work \cup {Nothing}]
    BY <2>1, <2>2 DEF TypeOK
  <2> QED
    BY <1>4, <2>1, <2>3, <2>4 DEF Take, TypeOK, AcknowledgedIsQueued, AckFollowsAdd
<1>5. ASSUME NEW w \in Workers, Add(w)
      PROVE  Inv'
  <2>1. doing[w] \in Work
    BY <1>5, IdleIsNotWork DEF Add, TypeOK
  <2>2. doing[w].event \in Events
    BY <2>1 DEF Work
  <2>3. queue \subseteq queue' /\ queue' \subseteq Events
    BY <1>5, <2>2 DEF Add, TypeOK
  <2>4. CASE /\ queue' = queue \cup {doing[w].event}
             /\ GoTo(w, "ack")
             /\ UNCHANGED <<faults, failures>>
    <3>1. [doing[w] EXCEPT !.step = "ack"] \in Work
      BY <2>1 DEF Work
    <3>2. doing' \in [Workers -> Work \cup {Nothing}]
      BY <2>4, <3>1 DEF GoTo, TypeOK
    <3>3. AckFollowsAdd'
      BY <2>4, <2>1, <2>3 DEF GoTo, TypeOK, AckFollowsAdd, Work
    <3> QED
      BY <1>5, <2>3, <2>4, <3>2, <3>3 DEF Add, TypeOK, AcknowledgedIsQueued
  <2>5. CASE GoTo(w, AfterFailedAdd) /\ CallFails(w)
    <3>1. [doing[w] EXCEPT !.step = "fail"] \in Work
      BY <2>1 DEF Work
    <3>2. doing' \in [Workers -> Work \cup {Nothing}]
      BY <2>5, <3>1 DEF GoTo, TypeOK, AfterFailedAdd
    <3>3. AckFollowsAdd'
      BY <2>5, <2>1, <2>3 DEF GoTo, TypeOK, AckFollowsAdd, AfterFailedAdd, Work
    <3>4. faults' \in 0 .. MaxFaults
      BY <2>5 DEF CallFails, Fault, TypeOK
    <3>5. failures' \in [Events -> Nat]
      <4>1. PICK e \in Events : e = doing[w].event
        BY <2>2
      <4>2. failures' = [failures EXCEPT ![e] = @ + 1]
        BY <2>5, <4>1 DEF CallFails
      <4>3. failures \in [Events -> Nat]
        BY DEF TypeOK
      <4>4. QED
        BY <4>2, <4>3
    <3> QED
      BY <1>5, <2>3, <3>2, <3>3, <3>4, <3>5 DEF Add, TypeOK, AcknowledgedIsQueued
  <2> QED
    BY <1>5, <2>4, <2>5 DEF Add
<1>6. ASSUME NEW w \in Workers, Ack(w)
      PROVE  Inv'
  <2>1. doing[w] \in Work /\ doing[w].event \in queue
    BY <1>6, IdleIsNotWork DEF Ack, TypeOK, AckFollowsAdd
  <2>2. doing[w].event \in Events
    BY <2>1 DEF Work
  <2>3. rows' \in {rows, Acknowledged(doing[w].event)}
    BY <1>6 DEF Ack
  <2>4. rows' \in [Events -> Row] /\ AcknowledgedIsQueued'
    BY <1>6, <2>1, <2>2, <2>3 DEF Ack, Acknowledged, TypeOK, Row, AcknowledgedIsQueued
  <2>5. [doing[w] EXCEPT !.step = "fail"] \in Work
    BY <2>1 DEF Work
  <2>6. doing' \in [Workers -> Work \cup {Nothing}]
    BY <1>6, <2>5 DEF Ack, GoTo, TypeOK
  <2>7. AckFollowsAdd'
    BY <1>6, <2>1, IdleIsNotWork DEF Ack, GoTo, TypeOK, AckFollowsAdd, Work
  <2>8. faults' \in 0 .. MaxFaults /\ failures' \in [Events -> Nat]
    BY <1>6, <2>2 DEF Ack, CallFails, Fault, TypeOK
  <2> QED
    BY <1>6, <2>4, <2>6, <2>7, <2>8 DEF Ack, TypeOK
<1>7. ASSUME NEW w \in Workers, CountFailure(w)
      PROVE  Inv'
  <2>1. doing[w] \in Work
    BY <1>7, IdleIsNotWork DEF CountFailure, TypeOK
  <2>2. PICK e \in Events, n \in Nat : e = doing[w].event /\ n = doing[w].attempts
    BY <2>1 DEF Work
  <2>3. rows' \in {rows, Failed(e, AttemptsAfter(n))}
    BY <1>7, <2>2 DEF CountFailure
  <2>4. rows' \in [Events -> Row] /\ AcknowledgedIsQueued'
    BY <1>7, <2>2, <2>3
       DEF CountFailure, Failed, AttemptsAfter, TypeOK, Row, AcknowledgedIsQueued
  <2>5. /\ doing' \in [Workers -> Work \cup {Nothing}]
        /\ held' \in [Workers -> SUBSET Claimed]
        /\ faults' \in 0 .. MaxFaults
    BY <1>7 DEF CountFailure, Fault, TypeOK
  <2>6. AckFollowsAdd'
    BY <1>7, IdleIsNotWork DEF CountFailure, TypeOK, AckFollowsAdd
  <2> QED
    BY <1>7, <2>4, <2>5, <2>6 DEF CountFailure, TypeOK
<1>8. ASSUME NEW w \in Workers, Crash(w)
      PROVE  Inv'
  <2>1. AckFollowsAdd'
    BY <1>8, IdleIsNotWork DEF Crash, TypeOK, AckFollowsAdd
  <2> QED
    BY <1>8, <2>1 DEF Crash, Fault, TypeOK, AcknowledgedIsQueued
<1>9. CASE UNCHANGED vars
  BY <1>9 DEF vars, TypeOK, AcknowledgedIsQueued, AckFollowsAdd
<1> QED
  BY <1>1, <1>2, <1>3, <1>4, <1>5, <1>6, <1>7, <1>8, <1>9 DEF Next, Poll

\* The rows, the queue and the loops hold values of their kinds, whatever
\* fails, crashes or outlives its lease.
THEOREM TypeCorrect == Spec => []TypeOK
<1>1. Inv => TypeOK
  BY DEF Inv
<1> QED
  BY InitInv, NextInv, <1>1, PTL DEF Spec

\* No event is lost between the table and the queue: acknowledging a row
\* comes after its job has been added, for any number of loops, crashes,
\* lost answers and leases that run out.
THEOREM NothingIsAcknowledgedUnqueued == Spec => []AcknowledgedIsQueued
<1>1. Inv => AcknowledgedIsQueued
  BY DEF Inv
<1> QED
  BY InitInv, NextInv, <1>1, PTL DEF Spec

-----------------------------------------------------------------------------
\* The second inductive invariant, on top of the first.
CountInv ==
  /\ Inv
  /\ AttemptsAreFailures
  /\ RemembersFailures

\* The initial states satisfy it.
LEMMA InitCountInv == Init => CountInv
BY InitInv DEF Init, CountInv, AttemptsAreFailures, RemembersFailures

\* Every step keeps it.
LEMMA NextCountInv == CountInv /\ [Next]_vars => CountInv'
<1> SUFFICES ASSUME CountInv, [Next]_vars PROVE CountInv'
  OBVIOUS
<1>0. Inv /\ Inv' /\ TypeOK /\ TypeOK'
  BY NextInv DEF CountInv, Inv
<1>a. failures \in [Events -> Nat] /\ failures' \in [Events -> Nat]
  BY <1>0 DEF TypeOK
<1>b. /\ \A v \in Workers : \A c \in held[v] : c.event \in Events /\ c.attempts \in Nat
      /\ \A v \in Workers :
           doing[v] # Nothing => doing[v].event \in Events /\ doing[v].attempts \in Nat
      /\ \A e \in Events : rows[e].attempts \in Nat
  BY <1>0 DEF TypeOK, Claimed, Work, Row
<1> USE DEF CountInv
<1>1. ASSUME NEW e \in Events, Write(e) \/ TimePasses(e)
      PROVE  AttemptsAreFailures' /\ RemembersFailures'
  BY <1>0, <1>1 DEF Write, TimePasses, TypeOK, Row, AttemptsAreFailures, RemembersFailures
<1>2. ASSUME NEW w \in Workers, Claim(w)
      PROVE  AttemptsAreFailures' /\ RemembersFailures'
  <2>1. \A e \in Events : rows'[e].attempts = rows[e].attempts
    BY <1>0, <1>2 DEF Claim, Leased, TypeOK, Row
  <2>2. \A c \in held'[w] : c.attempts <= failures[c.event]
    <3>1. held'[w] = {[event |-> e, attempts |-> rows[e].attempts] : e \in Batch}
      BY <1>0, <1>2 DEF Claim, TypeOK
    <3>2. Batch \subseteq Events
      BY DEF Batch
    <3> QED
      BY <3>1, <3>2 DEF AttemptsAreFailures
  <2>3. \A v \in Workers \ {w} : held'[v] = held[v]
    BY <1>0, <1>2 DEF Claim, TypeOK
  <2> QED
    BY <1>0, <1>2, <2>1, <2>2, <2>3 DEF Claim, AttemptsAreFailures, RemembersFailures
<1>3. ASSUME NEW w \in Workers, Take(w)
      PROVE  AttemptsAreFailures' /\ RemembersFailures'
  <2>1. PICK c \in held[w] :
          /\ held' = [held EXCEPT ![w] = @ \ {c}]
          /\ doing' = [doing EXCEPT ![w] =
               [step |-> "add", event |-> c.event, attempts |-> c.attempts]]
    BY <1>3 DEF Take
  <2>2. c.attempts \in Nat /\ c.attempts <= failures[c.event]
    BY <1>b, <2>1 DEF RemembersFailures
  <2> QED
    BY <1>0, <1>3, <1>a, <2>1, <2>2
       DEF Take, TypeOK, AttemptsAreFailures, RemembersFailures
<1>4. ASSUME NEW w \in Workers, Add(w) \/ Ack(w)
      PROVE  AttemptsAreFailures' /\ RemembersFailures'
  <2>1. doing[w] \in Work /\ doing[w].step # "fail" /\ doing[w] # Nothing
    BY <1>0, <1>4, IdleIsNotWork DEF Add, Ack, TypeOK
  <2>2. PICK e \in Events, n \in Nat : e = doing[w].event /\ n = doing[w].attempts
    BY <2>1 DEF Work
  <2>3. n <= failures[e]
    BY <1>a, <2>1, <2>2 DEF RemembersFailures
  <2>4. failures' = failures \/ failures' = [failures EXCEPT ![e] = @ + 1]
    BY <1>4, <2>2 DEF Add, Ack, CallFails
  <2>5. \A f \in Events : failures'[f] >= failures[f]
    BY <1>a, <2>4
  <2>6. \A f \in Events : rows'[f].attempts = rows[f].attempts
    BY <1>0, <1>4, <2>1 DEF Add, Ack, Acknowledged, TypeOK, Row, Work
  <2>7. AttemptsAreFailures'
    BY <1>a, <1>b, <2>5, <2>6 DEF AttemptsAreFailures
  <2>8. /\ held' = held
        /\ \A v \in Workers \ {w} : doing'[v] = doing[v]
    BY <1>0, <1>4 DEF Add, Ack, GoTo, TypeOK
  <2>9. \/ doing'[w] = Nothing
        \/ doing'[w] = [doing[w] EXCEPT !.step = "ack"]
        \/ doing'[w] = [doing[w] EXCEPT !.step = "fail"] /\ failures'[e] = failures[e] + 1
    BY <1>0, <1>4, <1>a, <2>2 DEF Add, Ack, GoTo, CallFails, AfterFailedAdd, TypeOK
  <2>10. doing'[w] # Nothing =>
           doing'[w].attempts + (IF doing'[w].step = "fail" THEN 1 ELSE 0)
             <= failures'[doing'[w].event]
    <3>1. ASSUME NEW step, doing'[w] = [doing[w] EXCEPT !.step = step]
          PROVE  doing'[w].event = e /\ doing'[w].attempts = n /\ doing'[w].step = step
      BY <2>1, <2>2, <3>1 DEF Work
    <3>2. failures[e] \in Nat /\ failures'[e] \in Nat /\ failures'[e] >= failures[e]
      BY <1>a, <2>5
    <3>3. QED
      BY <2>3, <2>9, <3>1, <3>2
  <2> QED
    BY <1>a, <1>b, <2>5, <2>7, <2>8, <2>10 DEF RemembersFailures
<1>5. ASSUME NEW w \in Workers, CountFailure(w)
      PROVE  AttemptsAreFailures' /\ RemembersFailures'
  <2>1. doing[w] \in Work /\ doing[w].step = "fail"
    BY <1>0, <1>5, IdleIsNotWork DEF CountFailure, TypeOK
  <2>2. PICK e \in Events, n \in Nat : e = doing[w].event /\ n = doing[w].attempts
    BY <2>1 DEF Work
  <2>3. n + 1 <= failures[e]
    BY <2>1, <2>2, IdleIsNotWork DEF RemembersFailures
  <2>4. rows' \in {rows, Failed(e, n + 1)} /\ failures' = failures
    BY <1>5, <2>2 DEF CountFailure, AttemptsAfter
  <2>5. AttemptsAreFailures'
    BY <1>0, <1>a, <2>2, <2>3, <2>4 DEF Failed, TypeOK, Row, AttemptsAreFailures
  <2>6. /\ doing'[w] = Nothing
        /\ \A v \in Workers : held'[v] \subseteq held[v]
        /\ \A v \in Workers \ {w} : doing'[v] = doing[v]
    BY <1>0, <1>5 DEF CountFailure, TypeOK
  <2> QED
    BY <2>4, <2>5, <2>6 DEF RemembersFailures
<1>6. ASSUME NEW w \in Workers, Crash(w)
      PROVE  AttemptsAreFailures' /\ RemembersFailures'
  BY <1>0, <1>6 DEF Crash, TypeOK, AttemptsAreFailures, RemembersFailures
<1>7. ASSUME UNCHANGED vars
      PROVE  AttemptsAreFailures' /\ RemembersFailures'
  BY <1>7 DEF vars, AttemptsAreFailures, RemembersFailures
<1>8. AttemptsAreFailures' /\ RemembersFailures'
  BY <1>1, <1>2, <1>3, <1>4, <1>5, <1>6, <1>7 DEF Next, Poll
<1> QED
  BY <1>0, <1>8

\* Only calls about an event that failed use up its retries: no crash, no
\* lease that runs out, no other event and no second loop does.
THEOREM OnlyFailuresCount == Spec => []AttemptsAreFailures
<1>1. CountInv => AttemptsAreFailures
  BY DEF CountInv
<1> QED
  BY InitCountInv, NextCountInv, <1>1, PTL DEF Spec
=============================================================================
