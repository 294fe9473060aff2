\* The directory changes at any time under pick, refreshes and housekeeping.
CONSTANTS
  a = a
  b = b
  s1 = s1
  s2 = s2
  s3 = s3
  Accounts = {a, b}
  Sessions = {}
  Models = {m}
  NoFile = NoFile
  BadFile = BadFile
  NoSession = NoSession
  NoAccount = NoAccount
  NPaths = 2
  FileChanges <- AnyFileChange
  StickyMax = 1
  StickyTtl = 1
  CredCooldown = 1
  HardCooldown = 1
  ModelCooldown = 1
  ErrThreshold = 2
  CreditLevels = {}
  Outcomes = {"status", "hard", "error"}
  RrModulus = 2
  MaxPicking = 1
SPECIFICATION Spec
SYMMETRY Symmetry
INVARIANTS AccountsAreDistinct
PROPERTIES CooldownNeverShortened
