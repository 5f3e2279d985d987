SPECIFICATION FairSpec
CONSTANTS
  e1 = e1
  None = None
  Execs = {e1}
  BatchSize = 2
  MaxEvents = 5
  Latency = 2
  Timeouts <- MCTimeouts
INVARIANTS
  TypeOK
  EventsComplete
  TimeoutIsExact
PROPERTIES
  EndIsNoticed
  TimeoutFires
CHECK_DEADLOCK FALSE
