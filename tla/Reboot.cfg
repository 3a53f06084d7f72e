SPECIFICATION FairReboot
CONSTANTS
  Page = 2
  Skews <- MCSkews
  Commands = {"stop_server"}
  MaxOps = 2
  MaxActions = 2
  MaxTime = 2
  MaxFailures = 1
INVARIANT ResetsOnce
PROPERTIES SparesHeldDown OperationEnds
CHECK_DEADLOCK FALSE
