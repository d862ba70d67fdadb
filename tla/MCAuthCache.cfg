SPECIFICATION Spec
CONSTANTS
  None = None
  m1 = m1
  m2 = m2
  r1 = r1
  r2 = r2
  c1 = c1
  a1 = a1
  Replicas = {r1, r2}
  Calls = {c1}
  Admins = {a1}
  Models = {m1, m2}
  Settings <- MCSettings
  Booted <- MCBooted
  Requests <- MCRequests
  TTL = 2
  DownFor = 1
  MaxLag = 1
  MaxChanges = 2
  MaxFaults = 1
INVARIANTS
  StaleForAReason
PROPERTIES
  NothingOutlivesTheCache
  Converges
