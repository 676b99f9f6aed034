SPECIFICATION FairSpec
CONSTANTS
  MaxMessages = 3
  MaxPosts = 2
  QueueCapacity = 1
  MaxBoots = 2
  MaxSignals = 1
INVARIANT StopLosesOnlyZulipBuffer
INVARIANT AcknowledgedIsKept
PROPERTY PolledInOrder
PROPERTY ShutdownCompletes
CHECK_DEADLOCK FALSE
INVARIANT IndInv
