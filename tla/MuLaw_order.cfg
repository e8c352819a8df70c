CONSTANTS
  Loudest = 2000
  Step = 4
SPECIFICATION Spec
PROPERTY OrderKept
CHECK_DEADLOCK FALSE
