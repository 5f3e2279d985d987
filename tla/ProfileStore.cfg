SPECIFICATION Spec
CONSTANTS
  p1 = p1
  p2 = p2
  n1 = n1
  n2 = n2
  n3 = n3
  m1 = m1
  m2 = m2
  m3 = m3
  Local = Local
  NoName = NoName
  Blank = Blank
  Procs = {p1}
  Names = {n1, n2}
  Managers = {m1, m2}
  Commands <- AllCommands
  Crashes = TRUE
INVARIANTS
  StoreInv
  ActiveIsRight
CHECK_DEADLOCK FALSE
