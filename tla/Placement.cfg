SPECIFICATION PlacementSpec
CONSTANTS
  Catalogs <- MCCatalogs
  Specs <- MCSpecs
  Refs <- MCRefs
  Wants <- MCWants
  IPv4Price = 1
  MaxAttempts = 2
  MaxServers = 1
INVARIANTS FreshIsNotDrifted OrderSettles
PROPERTIES ScopeIsExact CheapestFirst
