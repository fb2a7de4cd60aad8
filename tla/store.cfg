SPECIFICATION Spec
CONSTANTS
  w1 = w1
  w2 = w2
  a1 = a1
  s1 = s1
  Torn = Torn
  Absent = Absent
  None = None
  Writers = {w1, w2}
  Probers = {a1}
  Lockless = {s1}
  MaxFaults = 2
  MaxVersion = 2
SYMMETRY WriterSymmetry
INVARIANT Survives
PROPERTIES LoadsRecover Atomic
