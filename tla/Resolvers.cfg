SPECIFICATION ResolverSpec
CONSTANTS
  Kinds <- AllKinds
  Answers <- Representatives
  MaxSelectors = 2
INVARIANTS ReadyMeansWhole RefusedForCause
