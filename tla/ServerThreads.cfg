SPECIFICATION ThreadsSpec
CONSTANTS
  Sessions = {"s1", "s2"}
  Clients = {"c1"}
  Containers = {"x", "y"}
  MaxUpdateIDs = 1
  Timeout = 1
  Accounts = FALSE
  Backup = TRUE
  Autoscans = TRUE
  Warm = TRUE
  Failures = {"upnp_init"}
  Workers = {"http", "task"}
  MaxSignals = 2
  Subs = {"p", "q", "o"}
  Once = {"o"}
  Permanent = {"p"}
  Interval <- Intervals
  MaxRemovals = 2
INVARIANTS
  ChangesReachUI
  TimerFollowsSessions
  ShutdownFindsItsNeeds
  OneShotOnce
  
PROPERTIES
  MainShutdownEnds
CHECK_DEADLOCK FALSE
