\* Every history of four messages or five items over two call ids.
CONSTANTS
  c = c
  d = d
  CallIds = {c, d}
  NoId = NoId
  Heads <- OneHead
  Messages <- AllMessages
  Items <- AllItems
  Longest <- Short
SPECIFICATION RequestsSpec
INVARIANTS ToolPairing ReasoningOfEpoch
PROPERTIES PrefixStable
CHECK_DEADLOCK FALSE
