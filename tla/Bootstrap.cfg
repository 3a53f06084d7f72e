SPECIFICATION FairSpec
CONSTANTS
  Class = {k1, k2}
  Claim = {c1}
  Specs <- MCSpecs
  TokenTTL = 5
  RegistrationTTL = 1
  CreateTimeout = 1
  CleanupTimeout = 1
  RequestTime = 0
  Attempts = 3
  MaxInfo = 2
  MaxTokens = 2
  MaxFaults = 1
INVARIANTS JoinParametersArePaired TokenOutlivesRegistration
PROPERTY Converges
