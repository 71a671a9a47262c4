\* The result of osal_queue_send is ignored, detection.c:160.
SPECIFICATION Spec
CONSTANTS
  TIMEOUT = 1
  QUEUE_SIZE = 2
  MAX_RESTARTS = 0
INVARIANT
  OpenSessionCaptured
