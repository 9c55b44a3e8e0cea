SPECIFICATION ReadSpec
CONSTANTS
  r1 = r1  r2 = r2  k1 = k1
  Requests = {r1}
  Ids = {1, 2}
  NoId = NoId
  NoSeed = NoSeed
  HardenedKeyStart = 1024
  Faults = {}
  MaxFaults = 0
  MaxCrashes = 0
  Readers = {}
  Passphrases = {"one", "two"}
  PassOf <- MCPassOf
INVARIANTS AccountPerChain
CHECK_DEADLOCK FALSE
