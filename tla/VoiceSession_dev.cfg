SPECIFICATION Spec
CONSTANTS
  MaxReplies = 2
  MaxTokens = 1
  MaxAudio = 1
  HoldTasks = {"hold"}
  Callers = {"stt", "vad", "ws", "hold"}
  VadBargeIn = TRUE
  EotHold = TRUE
  DevMessages = TRUE
  Closes = TRUE
  HistoryTurns = 0
  MaxOnsets = 2
  MaxFaults = 0
CHECK_DEADLOCK FALSE
INVARIANTS
  OwnWords
  EndsWithItsText
