SPECIFICATION ThreadsSpec
CONSTANTS
  Callers = {"a", "b"}
  MayFailToOpen = FALSE
  MaxChanges = 1
  Services = {"yt", "at"}
  Refreshers = {"timer", "user"}
  MaxFetches = 2
  MaxPages = 2
  OutputLen = 4
  PipeSize = 2
  Chunk = 2
  MaxTimeouts = 1
  Users = {"task", "http"}
  Does <- Roles
  CacheFiles = {"f1", "f2", "f3"}
  MaxFill = 2
  MaxVersion = 2
  MayFail = FALSE
INVARIANTS
  BackupsCoverChanges
  InitLeavesGoodDatabase
  
  OneRowPerFile
  CacheIsCurrent
PROPERTIES
  CallsReturn
  TasksTaken
CHECK_DEADLOCK FALSE
