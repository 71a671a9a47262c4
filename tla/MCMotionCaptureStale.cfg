\* Events that an earlier run of the program left in the queue.
SPECIFICATION Spec
CONSTANTS
  TIMEOUT = 1
  QUEUE_SIZE = 1
  MAX_RESTARTS = 1
INVARIANT
  CaptureNeedsMotion
