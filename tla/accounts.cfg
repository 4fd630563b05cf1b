SPECIFICATION Spec
CONSTANTS
  e1 = e1
  e2 = e2
  e3 = e3
  p1 = p1
  p2 = p2
  r1 = r1
  r2 = r2
  r3 = r3
  Nobody = Nobody
  Requests = {r1, r2, r3}
  Emails = {e1, e2, e3}
  Passwords = {p1, p2}
  LastId = 5
  Seeds <- Founders
  Operations <- EveryKind
  Crashes = TRUE
SYMMETRY AnyRequest
CHECK_DEADLOCK FALSE
INVARIANTS AccountsInv IdentityKept
PROPERTY AsIfAlone
