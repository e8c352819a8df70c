SPECIFICATION Spec
CONSTANTS
  Requests = {r1, r2}
  Sockets = {s1}
  Ips = {i1}
  IpLimit = 2
  EndpointLimit = 1
  OrgLimit = 1
  Window = 1
  DatabaseEnabled = TRUE
  Raisable <- MCRaisable
  MaxTime = 1
INVARIANTS
  DrainKept
  WindowRespected
  ErrorMeansRolledBack
PROPERTIES
  TimedAnswered
  ShutdownEnds
CHECK_DEADLOCK FALSE
