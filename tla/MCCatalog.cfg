SPECIFICATION Spec
CONSTANTS
  n1 = n1
  m1 = m1
  m2 = m2
  x = x
  y = y
  r1 = r1
  r2 = r2
  h1 = h1
  h2 = h2
  None = None
  Names = {n1}
  Models = {m1, m2}
  Bases = {x, y}
  Replicas = {r1, r2}
  Handlers = {h1, h2}
  ReplicaOf <- MCReplicaOf
  Chunk = 2
  MaxCrashes = 1
INVARIANTS
  CatalogFollowsAccounts
PROPERTY
  StateKept
