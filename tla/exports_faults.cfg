SPECIFICATION Spec
CONSTANTS
  j1 = j1
  j2 = j2
  project = project
  requester = requester
  Jobs = {j1, j2}
  Copies = 1
  MaxAttempts = 2
  Parents = {project, requester}
  ParentsOf <- TwoParents
  Disturbances <- EveryFault
CHECK_DEADLOCK FALSE
INVARIANTS IInv NotSettledWhileLive WholeFile AttemptsCountRuns DeadLetterMatchesRow
PROPERTY ContractHolds
