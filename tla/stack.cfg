SPECIFICATION SFairSpec
CONSTANTS
  Deployments <- MCDeployments
  Origins <- MCOrigins
  MaxFaults = 2
CHECK_DEADLOCK FALSE
INVARIANTS StackInv StartedOnSchema SkippedHasReason
PROPERTIES ComesUp
