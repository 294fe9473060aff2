\* The housekeeping task and two requests, one login from outside.
CONSTANTS
  Keepers = {k}
  Requests = {r1, r2}
  MaxLogins = 1
  MaxIssued = 2
SPECIFICATION FairSpec
INVARIANTS DiskAtLeastMemory NeverSendsSpentToken
PROPERTIES OkIsNewer KeeperSharesRefresh EveryCallReturns
