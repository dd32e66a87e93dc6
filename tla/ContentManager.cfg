SPECIFICATION Spec
CONSTANTS
  ax = ax ay = ay az = az x = x x1 = x1 y = y Nil = Nil
  Adirs = {ax, ay}
  Persistent = {ay}
  InitialAdirs <- XAndY
  Locations = {x, x1, y}
  Loc <- AtXY
  Children <- XYChildren
  Under <- UnderXY
  Requests = {"remove"}
  Failures = FALSE
  Overlap = FALSE
  MaxQueue = 2
  MaxTaskCount = 2
INVARIANTS
  TaskCountExact
  NoAddBehindRemove
