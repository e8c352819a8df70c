CONSTANTS
  MaxSize = 2
  SttMaxSize = 2
  MaxFrames = 6
SPECIFICATION SlowSpec
INVARIANTS
  FreshestFrames
  SignalLast
  FramesAccounted
  NoTaskOutlivesConnection
PROPERTIES
  ArrivalOrder
  FramesLeaveQueue
  TeardownEndsOrBlocks
CHECK_DEADLOCK FALSE
