\* No clock: a fork is joined, against the docstring of fork().
CONSTANTS
  i1 = i1
  i2 = i2
  a1 = a1
  k1 = k1
  k2 = k2
  None = None
  Initials = {i1}
  Alwayses = {a1}
  Kids = {k1, k2}
  Rank <- MCRank
  Ranks = 5
  Period = 0
  Delays = {0, 2}
  Timeouts = {None}
  Cycles = {}
  Fuel <- MCFuel
  MaxTime = 0
SPECIFICATION Spec
INVARIANT JoinNeverDeadlocks
CHECK_DEADLOCK FALSE
