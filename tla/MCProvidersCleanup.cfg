CONSTANTS
  c1 = c1
  c2 = c2
  Calls = {c1, c2}
  MaxAttempts = 3
  BaseDelay = 3
  MaxDelay = 4
  Capacity = 1
  WebNames = {"brave"}
  AcademicNames = {"core"}
  ResolverNames = {}
  LLMs = {}
  Agents = {}
  Registry <- SmallRegistry
  Stages = {}
  None = None
SPECIFICATION MCSpec
INVARIANT CleanupContinues
CHECK_DEADLOCK FALSE
