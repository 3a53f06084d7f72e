SPECIFICATION FairSpec
CONSTANTS
  Kinds <- TwoKinds
  Claim = {c1}
  MaxGen = 2
  MaxFaults = 1
INVARIANTS VouchesForThisSpec BuiltFromOneSpec LaunchedKeepsItsClass
PROPERTIES OutageSparesReady KeepsContract Settles ReleaseFollows
CHECK_DEADLOCK FALSE
