SPECIFICATION ReadSpec
CONSTANTS
  r1 = r1  r2 = r2  k1 = k1
  Requests = {r1, r2}
  Ids = {1, 2}
  NoId = NoId
  NoSeed = NoSeed
  HardenedKeyStart = 1024
  Faults = {"wallet", "keys", "accounts", "read"}
  MaxFaults = 1
  MaxCrashes = 1
  Readers = {k1}
  Passphrases = {"one", "two"}
  PassOf <- MCPassOf
INVARIANTS TypeOK AccountsHaveKey CreatedIsComplete AccountsOfOneSeed SeedLostToCollision WatchesCreatedBefore SignerOfAccount
CHECK_DEADLOCK FALSE
