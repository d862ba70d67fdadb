SPECIFICATION FairSpec
CONSTANTS
  t1 = t1
  t2 = t2
  t3 = t3
  requestId = requestId
  limits = limits
  None = None
  Targets = {t1, t2, t3}
  Unusable = {t3}
  Headers = {}
  SameAccountRetries = 2
  Timeouts = {"control", "first_token"}
  Serves <- MCServes
  Sends <- MCSends
INVARIANTS
  AnsweredExactlyOnce
  FailureTold
  MarkerTellsTheTruth
  CostsAtMost
PROPERTY
  Terminates
