SPECIFICATION FairSpec
CONSTANTS
  Creators = {c1, c2}
  Resolvers = {r1, r2}
  Nothing = Nothing
INVARIANTS
  OneActiveModel
  SingleFlight
PROPERTIES
  NoOrphans
  EveryCallSettles
CHECK_DEADLOCK FALSE
