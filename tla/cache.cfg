SPECIFICATION FairSpec
CONSTANTS
  wStatus = wStatus
  wDelIssue = wDelIssue
  wDelProject = wDelProject
  wOther = wOther
  issue = issue
  project = project
  other = other
  Readers = {r1, r2}
  Writers = {wStatus, wDelIssue, wDelProject, wOther}
  Rows = {issue, project, other}
  Needs <- MCNeeds
  Deletes <- MCDeletes
  Faults = {"redisDown", "crash"}
INVARIANTS CacheInv StaleHasReason
PROPERTIES EventuallyCurrent
