\* The detection task against detection_exit, the sensor and the clock.
SPECIFICATION DetFairSpec
CONSTANTS
  TIMEOUT = 3
  QUEUE_SIZE = 2
INVARIANTS
  DetTypeOK
  DetIInv
  NoOrphanSession
  SampleAnnounced
PROPERTIES
  SessionSpec
  HoldOffExpires
