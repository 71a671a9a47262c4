SPECIFICATION Spec
CONSTANTS
  NUM_TASKS = 2
  MAX_TASKS = 3
  PERIOD_MS <- MCPeriod
  TIMER_TICK_MS = 11
  Capturing <- MCCapturing
  CYCLE = 2
  MAX_POSTS = 2
CHECK_DEADLOCK FALSE
INVARIANTS
  TypeOK
  ExitsBeforeTeardown
  UnmapsAfterUse
