\* The directory changes at any time under requests and housekeeping.
CONSTANTS
  a = a
  b = b
  Accounts = {a, b}
  Sessions = {}
  Models = {m}
  NoFile = NoFile
  BadFile = BadFile
  NoSession = NoSession
  NoAccount = NoAccount
  NPaths = 2
  FileChanges <- FilesComeAndGo
  StickyMax = 1
  StickyTtl = 1
  CredCooldown = 0
  HardCooldown = 1
  ModelCooldown = 1
  ErrThreshold = 2
  CreditLevels <- InDebt
  Outcomes = {"status"}
  RrModulus = 1
  MaxPicking = 1
  CheckinEnabled = TRUE
SPECIFICATION HFairSpec
PROPERTIES ImplementsPool TaskStops NewAccountsLoaded
