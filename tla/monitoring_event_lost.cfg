SPECIFICATION Spec
CONSTANTS
  a1 = a1  a2 = a2  x = x  none = none
  t1 = t1  t2 = t2  t3 = t3  t4 = t4  t5 = t5
  Txs <- MCTxs
  Accounts <- MCAccounts
  Strangers <- MCStrangers
  NoAddress = none
  Sender <- MCSender
  Recipient <- MCRecipient
  Reverted <- MCReverted
  WalletOf <- MCWalletOf
  NoRow = NoRow
  NoEvent = NoEvent
  Ledger <- MCLedger
  MaxHeight = 4
  InitialHeight = 1
  InitialCursor = 0
  InitialOwned <- MCAccounts
  Faults = {}
  MaxFaults = 0
  MaxCrashes = 1
  Cancellable = FALSE
INVARIANTS NothingLost
CHECK_DEADLOCK FALSE
