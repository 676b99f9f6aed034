SPECIFICATION FairSpec
CONSTANTS
  Calls = {d, c1, c2}
  Discovery = d
  Nobody = Nobody
  MaxSessions = 3
INVARIANT SlotIsClean
INVARIANT IndInv
PROPERTY CallsAtMostOnce
CHECK_DEADLOCK FALSE
PROPERTY NothingHangs
