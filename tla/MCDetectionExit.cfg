\* README.md:74 against the unlocked writes of detection_state.
SPECIFICATION DetSpec
CONSTANTS
  TIMEOUT = 1
  QUEUE_SIZE = 1
PROPERTY
  DetExitIsFinal
