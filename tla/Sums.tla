-------------------------------- MODULE Sums --------------------------------
(***************************************************************************)
(* Sums of the values of a function whose domain is finite: what the       *)
(* properties that compare a total with its parts add up.                  *)
(***************************************************************************)
EXTENDS Integers, FiniteSets, FiniteSetsExt

SumOf(f) == MapThenSumSet(LAMBDA x : f[x], DOMAIN f)
=============================================================================
