SPECIFICATION FairSpec
CONSTANTS
  Masks <- MCMasks
  MaxEvents = 3
  QueueLimit = 2
  BufferLimit = 2
  MaxAdds = 2
  None = None
INVARIANTS TypeOK ChangesExclusive DeliveredInOrder ReadsAfterDiscard
PROPERTIES ChangesArrive RemoveReturns
CHECK_DEADLOCK FALSE
