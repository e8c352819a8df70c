SPECIFICATION FairSpec
CONSTANTS
  MaxReplies = 2
  MaxTokens = 1
  MaxAudio = 1
  Spawned = {"t1"}
  Callers <- MCCallers
  LlmCaller <- MCLlmCaller
  TtsCaller <- MCTtsCaller
  AudioFirst = TRUE
  HistoryTurns = 0
  MaxTurns = 1
  MaxEvents = 1
  MaxFaults = 0
CHECK_DEADLOCK FALSE
PROPERTIES
  StopReturnsAlways
