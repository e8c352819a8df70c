SPECIFICATION Spec
CONSTANTS
  MaxReplies = 3
  MaxTokens = 1
  MaxAudio = 1
  Spawned = {"t1"}
  Callers <- MCCallers
  LlmCaller <- MCLlmCaller
  TtsCaller <- MCTtsCaller
  AudioFirst = FALSE
  HistoryTurns = 0
  MaxTurns = 2
  MaxEvents = 1
  MaxFaults = 1
CHECK_DEADLOCK FALSE
INVARIANTS
  OneReplyAtATime
  ListeningIsQuiet
  NotStuck
  CallOverIsQuiet
PROPERTIES
  AllowedTransitions
