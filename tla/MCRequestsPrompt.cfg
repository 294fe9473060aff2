\* What becomes of the system prompt of any request.
CONSTANTS
  c = c
  d = d
  CallIds = {c, d}
  NoId = NoId
  Heads <- AllHeads
  Messages <- AllMessages
  Items <- AllItems
  Longest <- OneMessage
SPECIFICATION RequestsSpec
INVARIANTS PromptReachesWire
CHECK_DEADLOCK FALSE
