SPECIFICATION Spec
CONSTANTS
  FRAME_SIZE = 6
  CHUNK = 2
  SLOTS = 2
  Bodies <- MCBodies
  Client = {c1, c2}
  MAX_FRAMES = 3
  MAX_FAULTS = 2
  MAX_TRANSIT = 2
SYMMETRY Symmetry
CHECK_DEADLOCK FALSE
INVARIANTS
  TypeOK
  CleanStream
  LossIsLocal
  OnlyHitFramesLost
  PendingBounded
  ViewersInStep
