\* No frame is stuck between the webcam and the network.
SPECIFICATION FairSpec
CONSTANTS
  INCOMING_SIZE = 2
  NUM_FRAME_BUFS = 1
  MAX_FRAMES = 2
  IMAGE_SIZE = 2
  CHUNKS = 1
PROPERTY
  FramesLeave
