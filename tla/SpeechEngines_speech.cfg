CONSTANTS
  FrameBytes = 4
  SrcRate = 3
  DstRate = 2
  Engines = {"elevenlabs", "openai", "polly", "mock"}
  ChunkSizes = {1, 2, 5, 7}
  MaxBytes = 18
  MaxSegments = 2
SPECIFICATION Spec
INVARIANTS
  AudioIntact
CHECK_DEADLOCK FALSE
