SPECIFICATION Spec
CONSTANTS
  p1 = p1  alice = alice  bob = bob  typo = typo
  Chains = {"solana", "tron"}
  Requests = {p1}
  Payments <- MCPayments
  Addresses = {alice, bob}
  Own = alice
  MaxTries = 2
  NoTx = NoTx
  Word = 16
  Window = 2
  Stamps = {1, 2}
  MaxHeight = 6
  Faults = {"build", "send", "find", "info"}
  MaxFaults = 1
INVARIANTS TypeOK PaidOnce PaidIsAsked
PROPERTIES StatusIsFinal
CHECK_DEADLOCK FALSE
