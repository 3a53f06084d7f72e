SPECIFICATION FairWake
CONSTANTS
  Class = {k1}
  MaxRefresh = 2
  MaxFaults = 3
INVARIANTS ParkedIsWoken
PROPERTY Unparks
