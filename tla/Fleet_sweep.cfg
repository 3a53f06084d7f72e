SPECIFICATION Spec
CONSTANTS
  Claim = {c1, c2}
  NoClaim = NoClaim
  Candidates = 1
  MaxAttempts = 1
  Servers = 1
  Undated = {}
  MinAge = 3
  MaxLag = 1
  SweepMax = 1
  MaxFaults = 1
INVARIANTS
  GCSparesLiveClaims
PROPERTIES
  OrphansReaped
