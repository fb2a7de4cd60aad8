SPECIFICATION Spec
CONSTANTS
  None = None
  cron = cron
  chat = chat
  run1 = run1
  run2 = run2
  m1 = m1
  NRequirements = 1
  Actors = {cron, chat}
  Cron = cron
  Runs = {run1, run2}
  Pins = {m1}
  MaxAutoRetries = 1
  MaxConcurrency = 1
  Found = {"none", "auto"}
  Commands = {"approve", "all", "spec", "manual", "edit", "kill"}
  MaxInterventions = 2
SYMMETRY RunSymmetry
INVARIANTS SuspendedUnapproved CrashLoopGuard
