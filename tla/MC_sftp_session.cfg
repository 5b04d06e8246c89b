\* Two sessions with a handle each, three requests between them.
SPECIFICATION Spec
CONSTANTS
  Channels = {c1, c2}
  Slots = {1}
  Paths <- MCPaths
  Files = {i1, i2}
  FlagSets <- MCFlagSets
  MaxBlocks = 1
  MaxRequests = 3
  NoChannel = NoChannel
  NoHandle = NoHandle
  NoEntry = NoEntry
  Dir = Dir
  NoBlock = NoBlock
SYMMETRY Symmetric
INVARIANTS ServedOwnChannel StampHitsOwnFile OnlyLastWriteUntold BarsEnd
PROPERTIES ReadOnlyKeepsTree RenameKeepsSource
CHECK_DEADLOCK FALSE
