SPECIFICATION Spec
CONSTANTS
  m1 = m1
  c1 = c1
  c2 = c2
  c3 = c3
  None = None
  Targets = {m1}
  Calls = {c1, c2, c3}
  TargetOf <- MCTargetOf
  Kinds = {"normal", "retrying", "context_exceeded", "abnormal", "rate_limit"}
  RedisFails = TRUE
SYMMETRY MCSymmetry
INVARIANTS
  FailuresExact
  StaleForAReason
PROPERTY
  CooldownKept
