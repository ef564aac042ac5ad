\* No clock: one initial block, one always block, two forked blocks.
CONSTANTS
  i1 = i1
  i2 = i2
  a1 = a1
  k1 = k1
  k2 = k2
  None = None
  Initials = {i1}
  Alwayses = {a1}
  Kids = {k1, k2}
  Rank <- MCRank
  Ranks = 5
  Period = 0
  Delays = {0, 2}
  Timeouts = {1, None}
  Cycles = {}
  Fuel <- MCFuel
  MaxTime = 0
SPECIFICATION UnclockedSpec
INVARIANTS OneHome StopsWhenDue WaitersServed
PROPERTIES RunTerminates IsEventSim
CHECK_DEADLOCK FALSE
