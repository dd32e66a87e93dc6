SPECIFICATION Spec
CONSTANTS
  Dirs = {"d1", "d2"}
  Files = {"f1", "f2"}
  Virts = {"v1", "v2"}
  Linked = {"v2"}
  Up <- UpDef
  Top = "/"
  ScanDirs = {"d1", "d2"}
  ConfigDirs = {"d2"}
  Concurrent = FALSE
  MaxID = 6
  MaxScans = 2
CONSTRAINT ScansOrReferences
INVARIANTS
  RemovesExactly
  ReportsChanges
  NothingDangles
  NoOverlap
CHECK_DEADLOCK FALSE
