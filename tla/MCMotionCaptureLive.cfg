\* Both directions of the response of the camera to the sensor.
SPECIFICATION FairSpec
CONSTANTS
  TIMEOUT = 1
  QUEUE_SIZE = 2
  MAX_RESTARTS = 1
PROPERTIES
  MotionIsCaptured
  QuietEndsCapture
