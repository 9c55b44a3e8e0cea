SPECIFICATION Spec
CONSTANTS
  r1 = r1  r2 = r2
  alice = alice  bob = bob  shop = shop  zero = zero  typo = typo
  Requests = {r1, r2}
  Transfers <- MCTransfers
  Addresses = {alice, bob, shop, zero}
  Contracts = {shop}
  AccountOf <- MCAccountOf
  Cropped = zero
  NoTransfer = NoTransfer
  NoTx = NoTx
  InitialNonce <- MCNonce
  InitialBase = 8
  Tips = {10, 12}
  BaseMoves = {"up"}
  MaxBlocks = 5
  Faults = {"wallet", "nonce", "tip", "header", "send", "find", "receipt"}
  MaxFaults = 1
INVARIANTS TypeOK NoNonceGap PaidOneAfterOther AnsweredStays TipPaidForFiveBlocks
PROPERTIES StatusIsFinal
SYMMETRY MCSymmetry
CHECK_DEADLOCK FALSE
