SPECIFICATION Spec
CONSTANTS
  r1 = r1  r2 = r2  a1 = a1  a2 = a2
  Reports = {r1, r2}
  Agents = {a1, a2}
  Home <- MCHome
  Slots = {1, 2}
  MaxTries = 2
  MaxFaults = 1
  Orphans = {r2}
  Forwarder = Forwarder
  None = None
INVARIANTS
  NeverDropped
