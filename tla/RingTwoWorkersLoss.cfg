SPECIFICATION Spec
CONSTANTS
  Producers <- MCProducer
  Consumers <- MCWorkers
  Locks <- MCAll2
  LockOf <- PrivateLocks
  Killable = {}
  Capacity = 3
  Addrs = {1, 2}
  Unstorable = {}
  MaxAccepted = 5
  MaxDelivered = 5
INVARIANTS
  NothingLost
CHECK_DEADLOCK FALSE
