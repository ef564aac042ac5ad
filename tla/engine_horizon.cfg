\* The clock of the first part of csim, against the comment of the inner loop.
CONSTANTS
  i1 = i1
  i2 = i2
  a1 = a1
  k1 = k1
  k2 = k2
  None = None
  Initials = {i1, i2}
  Alwayses = {}
  Kids = {}
  Rank <- MCRank
  Ranks = 5
  Period = 4
  Delays = {1, 8}
  Timeouts = {None}
  Cycles = {}
  Fuel <- MCFuel
  MaxTime = 10
SPECIFICATION Spec
PROPERTY TogglesStopAtEvents
CHECK_DEADLOCK FALSE
