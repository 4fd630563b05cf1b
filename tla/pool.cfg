SPECIFICATION FairSpec
CONSTANTS
  r1 = r1
  r2 = r2
  s1 = s1
  c1 = c1
  c2 = c2
  None = None
  Rests = {r1, r2}
  Socks = {s1}
  Conns = {c1, c2}
  Threads = 1
  MaxCommits = 1
  MaxVisits = 1
  MaxOutages = 1
CHECK_DEADLOCK FALSE
INVARIANTS PoolInv
PROPERTIES EveryRequestEnds EverySocketSettles
