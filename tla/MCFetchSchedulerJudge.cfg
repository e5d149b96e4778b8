CONSTANTS
  j1 = j1
  j2 = j2
  c1 = c1
  w1 = w1
  w2 = w2
  llm = llm
  Jobs = {j1, j2}
  Callers = {c1}
  Tasks = {j1, j2, c1}
  Gates = {w1, w2, llm}
  Limit <- MCLimit
  Providers <- MCProviders
  LlmGate = llm
  NoGate = NoGate
SPECIFICATION SchedulerSpec
INVARIANT JudgeFailureFallsBack
CHECK_DEADLOCK FALSE
