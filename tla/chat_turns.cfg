SPECIFICATION FairSpec
CONSTANTS
  None = None
  Overall = Overall
  r1 = r1
  m1 = m1
  Req = {r1}
  Module = {m1}
  ReqOf <- ModuleOwner
  Registered = {}
  Conv = {person, group, other}
  person = person
  group = group
  other = other
  PerConversation = {person, group}
  ReadOnly = {group}
  Texts <- SomeTexts
  Replies <- SomeReplies
  MaxMessages = 2
  MaxRounds = 1
  MaxEdits = 1
INVARIANTS ApprovalCarried AibotTurnsApart
PROPERTIES AibotSessionsStay ReadOnlyInert ClosedStays Answered
CHECK_DEADLOCK FALSE
