CONSTANTS
  Benches = {"ip"}
  FifoDepth = 4
  Words = {0, 1}
  Data = {0, 1}
  Zero = 0
  AddrBits = 3
  Weight <- PowersOfTwo
  Requestors = 4
  Threshold = 3
  Credits = 3
  Space = 4
  JointEdges = 2
  Subs = 2
  Depth = 2
  Bursts <- MCBursts
  Values = {0, 1}
  Nothing = 99
  Wanders = "direct"
  Programs <- MCPrograms
  DataDepth = 2
  CpuCycles = 12
  CpuResets = 1
  Width = 2
  ClkDiv = 2
  SpiWords = {1, 2}
  PipeWidth = 2
  PipeWords = {0, 1, 3}
  Debuggers = {"gdb", "ide"}
  Scripts <- MCScripts
  Regions <- MCRegions
  Uarts <- MCUarts
  Segments <- MCSegments
  Break = 3
  PcSpan = 4
SPECIFICATION Spec
INVARIANT CountIsOccupancy
