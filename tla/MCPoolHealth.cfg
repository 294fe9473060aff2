\* More sessions than the table holds, every kind of cooldown, and deletion.
CONSTANTS
  a = a
  b = b
  s1 = s1
  s2 = s2
  s3 = s3
  Accounts = {a, b}
  Sessions = {s1, s2, s3}
  Models = {m}
  NoFile = NoFile
  BadFile = BadFile
  NoSession = NoSession
  NoAccount = NoAccount
  NPaths = 2
  FileChanges <- Deletions
  StickyMax = 2
  StickyTtl = 1
  CredCooldown = 1
  HardCooldown = 1
  ModelCooldown = 2
  ErrThreshold = 2
  CreditLevels = {1}
  Outcomes = {"rate", "hard"}
  RrModulus = 2
  MaxPicking = 1
SPECIFICATION Spec
SYMMETRY Symmetry
INVARIANTS StickyConsistent ReboundAfter429
PROPERTIES PickIsSound StickyAffinity EvictionIsComplete
