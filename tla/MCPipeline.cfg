\* Safety of the three tasks: slots read in place, order, losses, buffers.
SPECIFICATION Spec
CONSTANTS
  INCOMING_SIZE = 4
  NUM_FRAME_BUFS = 1
  MAX_FRAMES = 4
  IMAGE_SIZE = 2
  CHUNKS = 2
INVARIANTS
  TypeOK
  BuffersReturned
  ChunksOfOneFrame
  FramesInOrder
PROPERTIES
  SlotsStable
  FrameStreamSpec
  DropsAreForced
