SPECIFICATION Spec
CONSTANTS
  Creators = {c1, c2}
  Resolvers = {r1, r2}
  Nothing = Nothing
INVARIANTS
  ConcurrentResolvesAgree
CHECK_DEADLOCK FALSE
