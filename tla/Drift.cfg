SPECIFICATION FairSpec
CONSTANTS
  Claim = {c1}
  MaxSpec = 3
  MaxVersion = 2
  MaxFaults = 1
INVARIANTS BackfillIsComplete CondemnedStaysDrifted UpgradeNeverDrifts
PROPERTY StampFollows
CHECK_DEADLOCK FALSE
