CONSTANTS
  s1 = s1  s2 = s2
  None = None
  Sessions = {s1, s2}
  MaxEvents = 3
  Drain = 1
  Capacity = 2
  Beat = 2
  Stale = 2
  Budgets <- EventsOrTime
SPECIFICATION LiveSpec
INVARIANTS
  TypeOK
  EventsInOrder
PROPERTIES
  EventsArrive
  SessionsKept
CHECK_DEADLOCK FALSE
