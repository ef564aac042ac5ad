CONSTANTS
  Word = 64
  Designs <- HierModules
  Values <- MCValues
  Odd = {}
  Tools = {"compiler"}
  Configs <- MCConfigs
  Banks <- MCBanks
  AddrSpace = 16
  WordBits = 2
  ByteBits = 1
  Threads = {"app", "isr"}
  OwnerOf <- MCOwner
  SocWords <- MCSocWords
  Handshakes = "joint"
  Tests <- MCTests
  Paths <- MCPaths
  Jobs = 2
  Seeds = {0, 1}
  Fails <- MCFails
  MaxRuns = 2
  MaxDeaths = 1
  MaxEdits = 1
  Benches <- MCBenches
SPECIFICATION MCSpec
INVARIANT SinglePassSuffices
