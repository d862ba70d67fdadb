SPECIFICATION AuthSpec
CONSTANTS
  i1 = i1
  i2 = i2
  None = None
  Instances = {i1, i2}
  Sources = {"creds_file", "cli_db desktop", "cli_db oidc"}
  Postgres = TRUE
  MaxIssued = 2
  MaxFaults = 1
SYMMETRY MCSymmetry
INVARIANTS
  ValidTokenKept
  NeverWaitsForItself
PROPERTY
  RotatedOutOnlyNearExpiry
