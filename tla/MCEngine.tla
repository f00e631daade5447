------------------------------ MODULE MCEngine ------------------------------
(***************************************************************************)
(* Small instances of Engine for TLC.                                      *)
(***************************************************************************)
EXTENDS Engine, TLC

CONSTANTS e1, e2, k1, k2, k3

\* k1 is a BUY STOP_LIMIT: ticks of 11 and 12 activate it; filled at a tick of
\* 12 it would be beyond its limit by the spread.  k2 is a SELL STOP that a
\* tick of 20 triggers, k3 a MARKET order.
Types  == [k \in Orders |-> CASE k = k1 -> "STOP_LIMIT" [] k = k2 -> "STOP" [] k = k3 -> "MARKET"]
Sides  == [k \in Orders |-> IF k = k1 THEN "BUY" ELSE "SELL"]
Limits == [k \in Orders |-> IF k = k1 THEN 12 ELSE 0]
Stops  == [k \in Orders |-> IF k = k1 THEN 11 ELSE 20]

\* With a depth of 2: two levels, or one.
TwoLevels == [k \in Orders |-> 3]
OneLevel  == [k \in Orders |-> 2]

\* The engines of an instance are alike.
AlikeEngines == Permutations(Engines)
=============================================================================
