SPECIFICATION Spec
CONSTANTS
  a = a
  b = b
  d = d
  p1 = p1
  p2 = p2
  c1 = c1
  c2 = c2
  c3 = c3
  None = None
  Members <- MCMembers
  Narrow = {a}
  Silent = {}
  Calls = {c1, c2}
  Replicas = {p1, p2}
  ReplicaOf <- MCReplicaOf
  Policies = {"sticky", "round_robin", "least_used", "unsupported"}
  RedisFails = TRUE
  Requests <- MCRequests
  MaxChanges = 2
INVARIANTS
  NeverATriedTarget
  GivesUpOnlyIfNobodyCould
  TurnsAreEven
