\* Two conversations over a store with room for one, of a few turns.
CONSTANTS
  Sessions = {s1, s2}
  c1 = c1
  c2 = c2
  c3 = c3
  CallLists <- Lists
  Sizes = {1, 2}
  MaxEntry = 1
  MaxTotal = 3
  MaxSessions = 1
  Ttl = 1
  MaxMessages = 3
SPECIFICATION Spec
SYMMETRY Symmetry
INVARIANTS StoreConsistent
PROPERTIES RestoresOwnTurn KeepsContinuity
