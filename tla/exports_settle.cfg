SPECIFICATION FairSpec
CONSTANTS
  j1 = j1
  j2 = j2
  project = project
  requester = requester
  Jobs = {j1, j2}
  Copies = 1
  MaxAttempts = 3
  Parents = {project}
  ParentsOf <- OneParent
  Disturbances <- Ordinary
CHECK_DEADLOCK FALSE
INVARIANT GivenUpIsDeadLettered
PROPERTY EverySettles
