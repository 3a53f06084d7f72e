SPECIFICATION Spec
CONSTANTS
  Claim = {c1}
  NoClaim = NoClaim
  Candidates = 3
  MaxAttempts = 2
  Servers = 2
  Undated = {2}
  MinAge = 1
  MaxLag = 0
  SweepMax = 0
  MaxFaults = 3
INVARIANTS
  ProviderIDIsOwn
  NothingLeftBehind
PROPERTIES
  NotOursUntouched
  DeletionFinishes
