SPECIFICATION Spec
CONSTANTS
  None = None
  Base = Base
  Missing = Missing
  a = a
  b = b
  c = c
  a1 = a1
  a2 = a2
  b1 = b1
  c1 = c1
  c2 = c2
  t1 = t1
  t2 = t2
  n1 = n1
  n2 = n2
  Req = {a, b, c}
  Module = {a1, a2, b1, c1, c2}
  Main = {t1, t2}
  Name = {n1, n2}
  ModulesOf <- Requirements
  MainOf <- Mains
  DeltasOf <- Deltas
  Concurrent = FALSE
PROPERTIES ClosedIsMerged ReplacedIsBackedUp OthersKept
CHECK_DEADLOCK FALSE
