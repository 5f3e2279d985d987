SPECIFICATION StartSpec
CONSTANTS
  creation = creation
  workflow = workflow
  None = None
  Execs = {creation, workflow}
  EnvCreation = creation
  Workflow = workflow
  BatchSize = 1
  MaxEvents = 1
  Latency = 1
  Timeouts = {0, 8}
INVARIANTS
  ReportIsTrue
  TimeoutIsShared
PROPERTIES
  CommandEnds
CHECK_DEADLOCK FALSE
