SPECIFICATION FairSpec
CONSTANTS
  a1 = a1  a2 = a2  x = x  none = none
  t1 = t1  t2 = t2  t3 = t3  t4 = t4  t5 = t5
  Txs <- MCTxs
  Accounts <- MCAccounts
  Strangers <- MCStrangers
  NoAddress = none
  Sender <- MCSender
  Recipient <- MCRecipient
  Reverted <- MCReverted
  WalletOf <- MCWalletOf
  NoRow = NoRow
  NoEvent = NoEvent
  Ledger <- MCLedger
  MaxHeight = 4
  InitialHeight = 0
  InitialCursor <- NoCursor
  InitialOwned <- MCOneAccount
  Faults = {"list", "tip", "cursorGet", "poll", "block", "cursorSet", "save", "publish"}
  MaxFaults = 2
  MaxCrashes = 1
  Cancellable = TRUE
INVARIANTS TypeOK HandOff DuplicateNeedsRestart
PROPERTIES CursorMonotone ImplementsFeed EventuallyPublished CatchesUp ShutdownCompletes
CHECK_DEADLOCK FALSE
