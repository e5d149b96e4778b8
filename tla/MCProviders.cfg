CONSTANTS
  c1 = c1
  c2 = c2
  Calls = {c1, c2}
  MaxAttempts = 3
  BaseDelay = 3
  MaxDelay = 4
  Capacity = 1
  WebNames = {"brave", "nobody"}
  AcademicNames = {"core"}
  ResolverNames = {"unpaywall", "other"}
  LLMs = {"l1", "l2"}
  Agents = {"g1"}
  Registry <- SmallRegistry
  Stages = {"judge"}
  None = None
SPECIFICATION MCSpec
INVARIANTS CallBudget QuotaCoversProcess CancellationKept AcceptedIsBuildable
PROPERTIES CallsEnd CallEnds
CHECK_DEADLOCK FALSE
