SPECIFICATION FairSpec
CONSTANTS
  MaxReplies = 3
  MaxTokens = 1
  MaxAudio = 1
  HoldTasks = {"hold"}
  Callers = {"stt", "vad", "ws", "hold"}
  VadBargeIn = FALSE
  EotHold = TRUE
  DevMessages = FALSE
  Closes = FALSE
  HistoryTurns = 1
  MaxOnsets = 0
  MaxFaults = 1
CHECK_DEADLOCK FALSE
INVARIANTS
  OneReplyAtATime
  Interruptible
  UserTurnIsQuiet
PROPERTIES
  SystemTurnEnds
  HeldTurnAnswered
