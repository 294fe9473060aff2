\* Every order of six chunks over two parallel tool calls.
CONSTANTS
  MaxTools = 2
  MaxChunks = 6
SPECIFICATION Spec
INVARIANTS NothingLost
PROPERTIES KeepsLifecycle
