SPECIFICATION FairSpec
CONSTANTS
  f1 = f1
  f2 = f2
  t1 = t1
  t2 = t2
  p1 = p1
  i1 = i1
  ann = ann
  bob = bob
  k1 = k1
  k2 = k2
  Msg = {f1, f2, t1, t2, p1, i1}
  User = {ann, bob}
  Key = {k1, k2}
  Kind <- SomeKinds
  From <- Senders
  MaxPending = 1
INVARIANTS OnePlace BufferTimed
PROPERTIES Serial Concluded
CHECK_DEADLOCK FALSE
