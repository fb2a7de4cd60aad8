SPECIFICATION FairSpec
CONSTANTS
  None = None
  Module = {1, 2}
  Action <- MachineActions
  Entry = {"SCORE", "CLASSIFY_CHANGE", "MAKER_STEP1_RED", "CHECKER", "MAKER_FIX", "ALIGN_DOCS"}
  Follows <- MachineFollows
  Merges = {"CHECKER", "CODE_REVIEW"}
  Parks = {"CHECKER"}
  Blocks = {"SCORE", "CHECKER", "CODE_REVIEW", "CODE_REVIEW_FIX"}
  MaxSameAction = 3
  MaxTotalSteps = 6
  MaxFailureRetries = 1
  MaxFormatRepairs = 2
INVARIANT FreshResult
INVARIANT AgentBudget
PROPERTY Terminates
PROPERTY CommittedOnce
