SPECIFICATION Spec
CONSTANTS
  Conns = {c1, c2}
  CallSids = {s1, s2}
  NoSid = NoSid
  MaxCalls = 1
  Ttl = 0
  IdleTimeout = 0
  AuthConfigured = TRUE
  Strict = TRUE
  MaxTime = 1
INVARIANTS
  CallIsAuthorised
  RecordExplained
PROPERTY SlotsSpec
SYMMETRY Symmetry
CHECK_DEADLOCK FALSE
