SPECIFICATION TravelSpec
CONSTANTS
  q1 = q1
  A = A
  B = B
  Nowhere = Nowhere
  Requests = {q1}
  Backends = {A, B}
  Users = {"alice", "bob"}
  Admins = {"alice"}
  Environments <- MCEnvironments
  MaxHops = 2
INVARIANTS AdminRunsAuthorised ClaimsAreAuthentic AnonymousCallsAreWarned
