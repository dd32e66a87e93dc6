-------------------------------- MODULE MCTimer --------------------------------
(* Instances of Timer for TLC: two periodic subscriptions and a one-shot.  *)
EXTENDS Timer

CONSTANTS p, q, o

Intervals == [s \in Subs |-> IF s = p THEN 2 ELSE 1]
=============================================================================
