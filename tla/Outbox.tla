------------------------------- MODULE Outbox -------------------------------
(***************************************************************************)
(* The outbox worker: polling loops that move the rows of outbox_events to *)
(* the queue of domain events.                                             *)
(*                                                                         *)
(* A loop claims a batch of rows with one statement, which gives it a      *)
(* lease on them (nextRetryAt, one minute ahead), and then handles the     *)
(* rows one by one outside of any transaction: it adds the job, it         *)
(* acknowledges the row, or it counts the failed attempt.  A loop may      *)
(* crash between any two of these steps, a call to Redis or to the         *)
(* database may fail with or without having had its effect, and a loop may *)
(* outlive its lease, so that another one claims the same row.             *)
(*                                                                         *)
(* Time is abstract: a time ahead ("later") becomes due in a step of its   *)
(* own.  The payload and the tracing metadata are left out.                *)
(***************************************************************************)
EXTENDS Integers, FiniteSets

CONSTANTS
  Workers,     \* the polling loops, one per worker process
  Events,      \* the rows services write, numbered by createdAt
  BatchSize,   \* BATCH_SIZE
  MaxRetries,  \* MAX_RETRIES
  MaxFaults    \* bound: how many calls may fail and loops may crash

ASSUME OutboxAssumption ==
  /\ Events \subseteq Nat
  /\ BatchSize \in Nat \ {0} /\ MaxRetries \in Nat \ {0} /\ MaxFaults \in Nat

VARIABLES
  rows,    \* table outbox_events; status "NONE" is a row not yet written
  queue,   \* the ids of the jobs added: completed jobs are kept, so an id
           \* that was added once is not added again
  held,    \* the rows a loop has claimed and not yet begun to handle
  doing,   \* the row a loop handles and the step it is at
  faults,  \* how many calls failed and loops crashed so far
  failures \* history: how many calls to queue or acknowledge a row failed

vars == <<rows, queue, held, doing, faults, failures>>

Row == [status : {"NONE", "PENDING", "PUBLISHED", "FAILED"}, attempts : Nat,
        nextRetryAt : {"null", "later", "due"}]

\* What RETURNING gives the loop: the row as it was claimed.
Claimed == [event : Events, attempts : Nat]

Nothing == [step |-> "idle"]

Work == [step : {"add", "ack", "fail"}, event : Events, attempts : Nat]

Init ==
  /\ rows = [e \in Events |-> [status |-> "NONE", attempts |-> 0, nextRetryAt |-> "null"]]
  /\ queue = {}
  /\ held = [w \in Workers |-> {}]
  /\ doing = [w \in Workers |-> Nothing]
  /\ faults = 0
  /\ failures = [e \in Events |-> 0]

Written(e) == rows[e].status # "NONE"

\* A service writes an event in the transaction that changes the order.
Write(e) ==
  /\ ~Written(e)
  /\ \A f \in Events : f < e => Written(f)
  /\ rows' = [rows EXCEPT ![e].status = "PENDING"]
  /\ UNCHANGED <<queue, held, doing, faults, failures>>

\* The clock passes nextRetryAt.
TimePasses(e) ==
  /\ rows[e].nextRetryAt = "later"
  /\ rows' = [rows EXCEPT ![e].nextRetryAt = "due"]
  /\ UNCHANGED <<queue, held, doing, faults, failures>>

\* Mutant: a row that failed once is not tried again.
ClaimablePendingOnly(e) ==
  rows[e].status = "PENDING" /\ rows[e].nextRetryAt \in {"null", "due"}

\* Mutant: a lease is for ever.
ClaimableOnce(e) ==
  rows[e].status \in {"PENDING", "FAILED"} /\ rows[e].nextRetryAt = "null"

Claimable(e) ==
  rows[e].status \in {"PENDING", "FAILED"} /\ rows[e].nextRetryAt \in {"null", "due"}

\* ORDER BY created_at LIMIT BATCH_SIZE.
Batch ==
  {e \in Events : Claimable(e)
     /\ Cardinality({f \in Events : Claimable(f) /\ f < e}) < BatchSize}

\* Mutant: taking a row counts as an attempt, so a crash uses one up.
LeasedAndCounted(e) == [rows[e] EXCEPT !.nextRetryAt = "later", !.attempts = @ + 1]

Leased(e) == [rows[e] EXCEPT !.nextRetryAt = "later"]

Claim(w) ==
  /\ doing[w] = Nothing /\ held[w] = {}
  /\ Batch # {}
  /\ held' = [held EXCEPT ![w] = {[event |-> e, attempts |-> rows[e].attempts] : e \in Batch}]
  /\ rows' = [e \in Events |-> IF e \in Batch THEN Leased(e) ELSE rows[e]]
  /\ UNCHANGED <<queue, doing, faults, failures>>

\* The loop turns to the next row of its batch, in no particular order.
Take(w) ==
  /\ doing[w] = Nothing
  /\ \E c \in held[w] :
       /\ held' = [held EXCEPT ![w] = @ \ {c}]
       /\ doing' = [doing EXCEPT ![w] =
            [step |-> "add", event |-> c.event, attempts |-> c.attempts]]
  /\ UNCHANGED <<rows, queue, faults, failures>>

Fault ==
  /\ faults < MaxFaults
  /\ faults' = faults + 1

CallFails(w) ==
  /\ Fault
  /\ failures' = [failures EXCEPT ![doing[w].event] = @ + 1]

GoTo(w, step) == doing' = [doing EXCEPT ![w].step = step]

\* Mutant: an error of the queue is swallowed.
AfterFailedAddIgnored == "ack"

AfterFailedAdd == "fail"

\* queue.add: the jobId is the id of the row.
Add(w) ==
  /\ doing[w].step = "add"
  /\ \/ /\ queue' = queue \cup {doing[w].event}
        /\ GoTo(w, "ack")
        /\ UNCHANGED <<faults, failures>>
     \/ /\ queue' \in {queue, queue \cup {doing[w].event}}
        /\ GoTo(w, AfterFailedAdd)
        /\ CallFails(w)
  /\ UNCHANGED <<rows, held>>

Acknowledged(e) == [rows EXCEPT ![e].status = "PUBLISHED"]

Ack(w) ==
  /\ doing[w].step = "ack"
  /\ \/ /\ rows' = Acknowledged(doing[w].event)
        /\ doing' = [doing EXCEPT ![w] = Nothing]
        /\ UNCHANGED <<faults, failures>>
     \/ /\ rows' \in {rows, Acknowledged(doing[w].event)}
        /\ GoTo(w, "fail")
        /\ CallFails(w)
  /\ UNCHANGED <<queue, held>>

IsPermanentlyFailed(attempts) == attempts >= MaxRetries

\* Mutant: the retries left are counted down.
AttemptsAfterDownwards(attempts) == attempts - 1

AttemptsAfter(attempts) == attempts + 1

\* The loop writes what it makes of the row it claimed, whatever became of
\* the row since.
Failed(e, attempts) ==
  [rows EXCEPT ![e] =
     [status |-> "FAILED", attempts |-> attempts,
      nextRetryAt |-> IF IsPermanentlyFailed(attempts) THEN "null" ELSE "later"]]

\* An error here ends the poll: the rest of the batch waits for its lease.
CountFailure(w) ==
  LET failed == Failed(doing[w].event, AttemptsAfter(doing[w].attempts))
  IN /\ doing[w].step = "fail"
     /\ doing' = [doing EXCEPT ![w] = Nothing]
     /\ \/ /\ rows' = failed
           /\ UNCHANGED <<held, faults>>
        \/ /\ rows' \in {rows, failed}
           /\ held' = [held EXCEPT ![w] = {}]
           /\ Fault
     /\ UNCHANGED <<queue, failures>>

\* The process dies and is started again.
Crash(w) ==
  /\ doing[w] # Nothing \/ held[w] # {}
  /\ doing' = [doing EXCEPT ![w] = Nothing]
  /\ held' = [held EXCEPT ![w] = {}]
  /\ Fault
  /\ UNCHANGED <<rows, queue, failures>>

Poll(w) == Claim(w) \/ Take(w) \/ Add(w) \/ Ack(w) \/ CountFailure(w)

Next ==
  \/ \E e \in Events : Write(e) \/ TimePasses(e)
  \/ \E w \in Workers : Poll(w) \/ Crash(w)

Spec == Init /\ [][Next]_vars

\* Time passes, and a running process goes on polling; nothing else is fair.
FairSpec ==
  /\ Spec
  /\ \A e \in Events : WF_vars(TimePasses(e))
  /\ \A w \in Workers : WF_vars(Poll(w))

-----------------------------------------------------------------------------
(***************************************************************************)
(* Properties.                                                             *)
(***************************************************************************)

\* Every table and every loop holds values of its kind.
TypeOK ==
  /\ rows \in [Events -> Row]
  /\ queue \subseteq Events
  /\ held \in [Workers -> SUBSET Claimed]
  /\ doing \in [Workers -> Work \cup {Nothing}]
  /\ faults \in 0 .. MaxFaults
  /\ failures \in [Events -> Nat]

\* A row is acknowledged only when its job is in the queue, whatever failed,
\* crashed or ran late: no event is lost.
AcknowledgedIsQueued ==
  \A e \in Events : rows[e].status = "PUBLISHED" => e \in queue

\* An attempt of an event is counted only for a call about that event that
\* failed: crashes, leases that run out, failures of other events and loops
\* that share a row do not use up its retries.
AttemptsAreFailures == \A e \in Events : rows[e].attempts <= failures[e]

\* With finitely many faults every event that is written reaches the queue.
EventuallyQueued == \A e \in Events : Written(e) ~> e \in queue

\* With finitely many faults every row ends up acknowledged and stays so,
\* even if a loop that outlived its lease writes over it.
EventuallyAcknowledged ==
  \A e \in Events : Written(e) ~> [](rows[e].status = "PUBLISHED")

IsClaimedBy(w, e) == \E c \in held'[w] \ held[w] : c.event = e

\* An event that has failed permanently is left alone.
PermanentlyFailedIsLeftAlone ==
  [][\A w \in Workers, e \in Events :
       IsPermanentlyFailed(rows[e].attempts) => ~IsClaimedBy(w, e)]_vars
=============================================================================
