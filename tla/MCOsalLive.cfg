SPECIFICATION FairSpec
CONSTANTS
  NUM_TASKS = 1
  MAX_TASKS = 2
  PERIOD_MS <- MCPeriods
  TIMER_TICK_MS = 11
  Capturing <- MCCapturing
  CYCLE = 2
  MAX_POSTS = 2
CHECK_DEADLOCK FALSE
PROPERTIES
  ShutdownEnds
  TickTaskRuns
  EveryTaskRuns
