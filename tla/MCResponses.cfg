\* Every order of four chunks, with up to two tool calls in a chunk.
CONSTANTS
  MaxTools = 2
  MaxCalls = 2
  MaxChunks = 4
SPECIFICATION Spec
INVARIANTS TerminalComplete
PROPERTIES KeepsItems
