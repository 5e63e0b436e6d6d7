SPECIFICATION FairSpec
CONSTANTS
  Producers <- MCProducer
  Consumers <- MCWorker
  Locks <- MCAll
  LockOf <- PrivateLocks
  Killable <- MCWorker
  Capacity = 3
  Addrs = {1, 2}
  Unstorable = {99}
  MaxAccepted = 4
  MaxDelivered = 6
INVARIANTS
  DeliveredInOrder
  RingInv
  NoSlotRace
PROPERTIES
  QueueRefinement
  CallsReturn
  AcceptedIsDelivered
CHECK_DEADLOCK FALSE
