--------------------------- MODULE OrderLifecycle ---------------------------
(***************************************************************************)
(* What the life of an order is, with money, positions, queues and engines *)
(* left out: the contract OrderService keeps with everything that calls    *)
(* it.  The module Orders implements it, and the rows of the module Engine *)
(* change as it allows.                                                    *)
(*                                                                         *)
(* An order is named by the pair (user, idempotencyKey), which the table   *)
(* "orders" holds at most once; "NONE" is the status of a pair no order    *)
(* was created for.  RECEIVED, VALIDATED and REJECTED are statuses of the  *)
(* schema that OrderService itself never writes.                           *)
(***************************************************************************)
EXTENDS Integers

CONSTANTS
  Keys,        \* the (user, idempotencyKey) pairs
  Quantities   \* the quantities orders ask for and executions fill

VARIABLES
  status,       \* Order.status, "NONE" when there is no order
  requested,    \* Order.requestedQuantity
  filled        \* Order.filledQuantity

vars == <<status, requested, filled>>

Executable == {"PENDING", "PARTIALLY_FILLED"}
Live       == {"ACCEPTED"} \cup Executable
Terminal   == {"FILLED", "CANCELLED", "EXPIRED"}

Init ==
  /\ status    = [k \in Keys |-> "NONE"]
  /\ requested = [k \in Keys |-> 0]
  /\ filled    = [k \in Keys |-> 0]

\* An order is created once.
Accept(k, n) ==
  /\ status[k] = "NONE"
  /\ status'    = [status EXCEPT ![k] = "ACCEPTED"]
  /\ requested' = [requested EXCEPT ![k] = n]
  /\ UNCHANGED filled

\* The order is handed to the engine.
Route(k) ==
  /\ status[k] = "ACCEPTED"
  /\ status' = [status EXCEPT ![k] = "PENDING"]
  /\ UNCHANGED <<requested, filled>>

\* A fill of n units; the last one completes the order.
Execute(k, n) ==
  /\ status[k] \in Executable
  /\ filled[k] + n <= requested[k]
  /\ filled' = [filled EXCEPT ![k] = @ + n]
  /\ status' = [status EXCEPT ![k] =
                  IF filled[k] + n = requested[k] THEN "FILLED"
                                                  ELSE "PARTIALLY_FILLED"]
  /\ UNCHANGED requested

\* What is not yet filled is given up, by the owner or at the close.
Withdraw(k, how) ==
  /\ status[k] \in Live
  /\ status' = [status EXCEPT ![k] = how]
  /\ UNCHANGED <<requested, filled>>

Next ==
  \E k \in Keys :
     \/ \E n \in Quantities : Accept(k, n) \/ Execute(k, n)
     \/ Route(k)
     \/ \E how \in {"CANCELLED", "EXPIRED"} : Withdraw(k, how)

Spec == Init /\ [][Next]_vars
=============================================================================
