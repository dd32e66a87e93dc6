--------------------------- MODULE MCUpdateManager ---------------------------
(* Instances of UpdateManager for TLC, with MAX_OBJECT_IDS = 2 and         *)
(* MAX_OBJECT_IDS_OVERLOAD = 1.  An array of two ids pauses or not, by     *)
(* what is pending when it comes; one of three pauses always.              *)
EXTENDS UpdateManager

Pairs   == {<<1, 2>>}
Triples == {<<1, 2, 3>>}
=============================================================================
