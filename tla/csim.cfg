\* The loop: a clock of period 4, an initial, an always and a forked block.
\* The compiled model: two clocks, an asynchronous reset and a memory.
CONSTANTS
  Parts = {"engine", "eval", "monitor"}
  i1 = i1
  i2 = i2
  a1 = a1
  k1 = k1
  k2 = k2
  None = None
  Initials = {i1}
  Alwayses = {a1}
  Kids = {k1}
  Rank <- MCRank
  Ranks = 5
  Period = 4
  Delays = {1, 4}
  Timeouts = {3, None}
  Cycles = {1}
  Fuel <- MCFuel
  MaxTime = 8
  Inputs = {"ca", "cb", "rst", "a"}
  Regs = {"r1", "r2", "r3"}
  Mems = {"m"}
  Wires = {"w1", "n", "g", "d", "e", "y1", "y2", "y3"}
  Outputs = {"y1", "y2", "y3"}
  Declared = {"g", "n", "d", "e"}
  Val = {0, 1}
  Zero = 0
  Comb <- TwoClockComb
  Plain <- TwoClockPlain
  Word <- TwoClockWord
  Seqs <- TwoClockSeqs
  EdgeOrder <- TwoClockOrder
  NoTrigger = NoTrigger
  Atoms = {"a", "b"}
  Props <- Family
  Places = 3
  MaxEdges = 6
SPECIFICATION CsimSpec
INVARIANTS
  EdgesOnSchedule
  ClockNotBehind
  EvalTypeOK
  OutputsSettled
  NonBlocking
  MonitorTypeOK
  NoFailureUnseen
  NoFalseAlarm
CHECK_DEADLOCK FALSE
