SPECIFICATION FairSpec
CONSTANTS
  j1 = j1
  j2 = j2
  project = project
  requester = requester
  Jobs = {j1}
  Copies = 2
  MaxAttempts = 2
  Parents = {project}
  ParentsOf <- OneParent
  Disturbances <- Unreliable
CHECK_DEADLOCK FALSE
INVARIANTS EndsLeaveTraces DeadLetterIsEarned
PROPERTIES SettledIsFinal SettlesForGood
