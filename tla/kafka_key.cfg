SPECIFICATION Spec
CONSTANTS
  Chains = {"ethereum", "base"}
  Messages <- MCMessages
  Partitions = {0, 1}
  Lags = {3, 9}
  Never = 9
  Faults = {}
  MaxFaults = 0
  Cancellable = FALSE
INVARIANTS KeyOnOnePartition
CHECK_DEADLOCK FALSE
