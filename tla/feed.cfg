SPECIFICATION FairSpec
CONSTANTS
  n1 = n1
  s1 = s1
  s2 = s2
  s3 = s3
  Notes = {n1}
  Sockets = {s1, s2, s3}
  Stalling = {s1}
  Crashes = TRUE
CHECK_DEADLOCK FALSE
INVARIANT FeedInv
PROPERTIES DebtsArePaid EventuallyShown EventuallyUnregistered
