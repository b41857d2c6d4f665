CONSTANTS
  Writers = {w1, w2}
  Cap = 2
  MaxWrites = 6
  None = None
SPECIFICATION FairSpec
INVARIANTS QueueInv ResendHasRoom DropsOldest
PROPERTIES ImplementsLossyStream WriteReturns
CHECK_DEADLOCK FALSE
