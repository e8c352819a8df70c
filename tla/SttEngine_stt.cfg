CONSTANTS
  Kinds = {"deepgram", "transcribe", "mock", "livemock"}
  MaxMessages = 4
  PartialInterval = 2
  SilenceThreshold = 2
SPECIFICATION Spec
INVARIANTS
  WordsKept
  StoppedIsClosed
PROPERTIES
  StreamSpec
  FinalReachesCaller
CHECK_DEADLOCK FALSE
