SPECIFICATION Spec
CONSTANTS
  r1 = r1  r2 = r2
  alice = alice  bob = bob  carol = carol  nowhere = nowhere
  Requests = {r1, r2}
  Transfers <- MCTransfers
  Addresses = {alice, bob, carol}
  AccountOf <- MCAccountOf
  NoTransfer = NoTransfer
  NoTx = NoTx
  InitialCoins <- MCCoins
  InitialTip = 100
  MaxTip = 103
  Word = 1048576
  MaxMoney = 100000
  NodeRates = {1}
  Faults = {"wallet", "scan", "count", "send", "find"}
  MaxFaults = 1
SYMMETRY Sym
INVARIANTS TypeOK FewestInputs AcceptedIsAsked RefusedForCause RetryPaysOnce
PROPERTIES StatusAdvances
CHECK_DEADLOCK FALSE
