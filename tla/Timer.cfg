SPECIFICATION FairSpec
CONSTANTS
  p = p q = q o = o
  Subs = {p, q, o}
  Once = {o}
  Permanent = {p}
  MaxRemovals = 2
  Interval <- Intervals
PROPERTIES
  SubscribersAreCalled
