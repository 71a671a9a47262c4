\* Safety of the two tasks, the queue, shutdown and one restart.
SPECIFICATION Spec
CONSTANTS
  TIMEOUT = 1
  QUEUE_SIZE = 2
  MAX_RESTARTS = 1
INVARIANTS
  TypeOK
  Agreement
  CaptureMatchesMotion
  SaveMatchesHeard
PROPERTIES
  CameraExitKept
