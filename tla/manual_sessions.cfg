SPECIFICATION FairSpec
CONSTANTS
  None = None
  h1 = h1
  h2 = h2
  r1 = r1
  q1 = q1
  person = person
  poll = poll
  Holders = {h1, h2}
  Runs = {r1}
  Probes = {q1}
  Person = person
  Poll = poll
  MaxMoves = 2
INVARIANTS LockNamesHolder EndedHolderGone
PROPERTIES HoldersExpire SessionsSwept
