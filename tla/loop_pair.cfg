SPECIFICATION Spec
CONSTANTS
  None = None
  s1 = s1
  s2 = s2
  s2fmt = s2fmt
  NModules = 2
  SpecText <- TwoSpecs
  Norm <- PlainNorm
  PlanText = {p1}
  Finding = {f1}
  DocDrift = {}
  MaxMakerAttempts = 1
  MaxReviewFixCycles = 0
  MaxGrayDrafts = 1
  Sessions = {"run"}
  Pins = {1}
  SettableStatus = {}
  SlowGate = FALSE
  MaxInterventions = 1
  MaxDraftId = 2
PROPERTIES IdsNeverReissued PinnedRunStaysInScope
SYMMETRY PlainSymmetry
VIEW Unobserved
