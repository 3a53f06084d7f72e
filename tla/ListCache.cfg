SPECIFICATION Spec
CONSTANTS
  Caller = {c1, c2}
  Mutator = {m1}
  Server = {s1}
  TTL = 1
  Timeout = 1
  MaxTime = 3
  MaxVersion = 2
SYMMETRY Symmetry
INVARIANTS
  StalenessBounded
  NoCallWhileFresh
  GoneIsTrue
  AnnouncedIsListed
