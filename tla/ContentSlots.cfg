SPECIFICATION Spec
CONSTANTS
  ax = ax ay = ay az = az x = x x1 = x1 y = y Nil = Nil
  Adirs = {ax, ay, az}
  Persistent = {}
  InitialAdirs <- XAndY
  Locations = {x, y}
  Loc <- AtXYX
  Children <- NoChildren
  Under <- Themselves
  Requests = {"remove", "removeAutoscan", "addAutoscan", "cancel"}
  Failures = TRUE
  Overlap = TRUE
  MaxQueue = 1
  MaxTaskCount = 0
INVARIANTS
  SlotsAgree
