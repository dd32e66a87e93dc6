SPECIFICATION FairSpec
CONSTANTS
  ax = ax ay = ay az = az x = x x1 = x1 y = y Nil = Nil
  Adirs = {ax}
  Persistent = {ax}
  InitialAdirs <- OnlyX
  Locations = {x, x1}
  Loc <- AtX
  Children <- XChildren
  Under <- UnderX
  Requests = {"remove"}
  Failures = FALSE
  Overlap = FALSE
  MaxQueue = 2
  MaxTaskCount = 2
PROPERTIES
  IsRescanned
