SPECIFICATION ServicesSpec
CONSTANTS
  Clients = {c1, c2}
  Visits <- MCVisits
  Entries = {"node"}
  TooHigh <- MCTooHigh
  Values = {"first", "second"}
  MaxWrites = 3
  Interval = 2
  MaxFunctions = 3
  MaxTime = 6
  MaxEmits = 3
INVARIANT
  VisitedIsKnown
CHECK_DEADLOCK FALSE
