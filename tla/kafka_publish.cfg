SPECIFICATION FairSpec
CONSTANTS
  Chains = {"ethereum", "base"}
  Messages <- MCMessages
  Partitions = {0, 1}
  Lags = {3, 9}
  Never = 9
  Faults = {"lookup", "send", "resend", "lose"}
  MaxFaults = 1
  Cancellable = TRUE
INVARIANTS TypeOK PublishedOnce CreationAbsorbed
PROPERTIES PublishEnds
CHECK_DEADLOCK FALSE
