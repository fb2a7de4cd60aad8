SPECIFICATION Spec
CONSTANTS
  None = None
  s1 = s1
  s2 = s2
  s2fmt = s2fmt
  NModules = 1
  SpecText <- FormattedSpecs
  Norm <- FormatNorm
  PlanText = {p1}
  Finding = {f1}
  DocDrift = {}
  MaxMakerAttempts = 2
  MaxReviewFixCycles = 1
  MaxGrayDrafts = 2
  Sessions = {"run", "manual"}
  Pins = {}
  SettableStatus = {"PARTIAL", "READY", "NEEDS_REFINEMENT", "BLOCKED", "DRAFT", "SYNCED"}
  SlowGate = TRUE
  MaxInterventions = 2
  MaxDraftId = 2
INVARIANTS TypeOK ParkedWhilePending
PROPERTIES Bedrock BuiltBeforeMerge MergedAsChecked RejectionsStick
SYMMETRY FormatSymmetry
