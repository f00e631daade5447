------------------------------ MODULE MCOutbox ------------------------------
(***************************************************************************)
(* Small instances of Outbox for TLC.                                      *)
(***************************************************************************)
EXTENDS Outbox

CONSTANTS w1, w2

TwoEvents == 1 .. 2
=============================================================================
