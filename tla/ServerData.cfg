SPECIFICATION DataSpec
CONSTANTS
  Threads = {t1, t2}
  Videos = {v1, v2, v3}
  MaxCached = 2
  CheckInterval = 2
  Lifetime = 1
  MaxTime = 3
  None = None
  Null = Null
  Undefined = Undefined
  OldSettings <- OldSettingsDef
  FileChanges <- FileChangesDef
  HasInotify = TRUE
  FeedTasks <- FeedTasksDef
  Feeds <- FeedsDef
  LinkedFeeds <- LinkedFeedsDef
  ChannelLists <- ChannelListsDef
  TrailerLists <- TrailerListsDef
  AmountAll = 4
  VideosPerPage = 2
  PurgeAfter = 1
  Refreshes = 1
  UpnpDatabases <- UpnpDatabasesDef
  UpnpNewRows <- UpnpNewRowsDef
  ChildrenPerPage = 1
  UpnpChanges = 1
  MediaItems <- MediaItemsDef
  MediaConfigs <- MediaConfigsDef
  MediaFiles = {"a", "b"}
  MediaChanges = 1
  EditTexts <- EditTextsDef
  EditFiles = {"f", "g"}
  WebLinks = {"http"}
  ObjectAdditions <- ObjectAdditionsDef
  ObjectEdits <- ObjectEditsDef
  ResourceProtocols <- ResourceProtocolsDef
  OnlineRows <- OnlineRowsDef
  EditRows = 8
  EditChanges = 2
  EditPages = 1
  CachesObjects = TRUE
INVARIANTS
  AcceptedIsComplete
  SecondStartAgrees
  LinksReachTheirResource
  OneTimeTasksGo
  CheckedWhileFilled
  InItsPlaces
  PagesFit
PROPERTIES
  EditTakesEffect
CHECK_DEADLOCK FALSE
