CONSTANTS
  Word = 64
  Designs <- MCDesigns
  Values <- MCValues
  Odd = {}
  Tools = {"compiler", "soc", "tests", "bench"}
  Configs <- MCConfigs
  Banks <- MCBanks
  AddrSpace = 16
  WordBits = 2
  ByteBits = 1
  Threads = {"app", "isr"}
  OwnerOf <- MCOwner
  SocWords <- MCSocWords
  Handshakes = "joint"
  Tests <- MCTests
  Paths <- MCPaths
  Jobs = 2
  Seeds = {0, 1}
  Fails <- MCFails
  MaxRuns = 3
  MaxDeaths = 1
  MaxEdits = 1
  Benches <- MCBenches
SPECIFICATION MCSpec
INVARIANTS
  MeaningKept
  LoopsReported
  NodesAreLawful
  SettleReaches
  HierCatchesUp
  AddressesDecoded
  RegistersAsWanted
  VerdictsSound
  ReplaysAgree
  BenchesAgree
