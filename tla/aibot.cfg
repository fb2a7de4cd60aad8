SPECIFICATION FairSpec
CONSTANTS
  None = None
  a1 = a1
  a2 = a2
  a3 = a3
  b1 = b1
  b2 = b2
  ann = ann
  team = team
  Msg = {a1, a2, a3, b1, b2}
  Conv = {ann, team}
  Chat <- Chats
  Kind <- Kinds
  MaxPending = 1
  Pool = 1
INVARIANTS InOrder
PROPERTIES Serial Concluded StopEnds
CHECK_DEADLOCK FALSE
