SPECIFICATION Spec
CONSTANTS
  None = None
  Requests = {r1, r2}
  Orgs = {"o1", "o2"}
  Users = {"ann", "bob", "new"}
  Sessions = {"s1", "s2", "s3"}
  Keys = {"k1", "k2"}
  Slugs = {"ops"}
  Granted = {"viewer"}
  Assigned = {"viewer"}
  Token <- MCToken
  Rows0 <- MCRows0
  MaxOperator = 1
INVARIANTS
  AuditExact
  RevokedStaysOut
  ActorsPermitted
SYMMETRY Alike
