--------------------------- MODULE MCContentManager ---------------------------
(* Instances of ContentManager: the directory x with a subdirectory, and y. *)
EXTENDS ContentManager

CONSTANTS ax, ay, az, x, x1, y          \* autoscan directories, directories

AtX == ax :> x
AtXY == ax :> x @@ ay :> y
OnlyY == ay :> y
AtXX == ax :> x @@ az :> x
AtXYX == ax :> x @@ ay :> y @@ az :> x

NoChildren == x :> {} @@ y :> {}
XChildren == x :> {x1} @@ x1 :> {}
XYChildren == x :> {x1} @@ x1 :> {} @@ y :> {}

Themselves == x :> {x} @@ y :> {y}
UnderX == x :> {x, x1} @@ x1 :> {x1}
UnderXY == x :> {x, x1} @@ x1 :> {x1} @@ y :> {y}

OnlyX == <<ax>>
XAndY == <<ax, ay>>
None == << >>
===============================================================================
