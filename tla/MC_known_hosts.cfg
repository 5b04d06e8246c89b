SPECIFICATION MCSpec
CONSTANTS
  h1 = h1
  h2 = h2
  k1 = k1
  k2 = k2
  Hosts <- MCHosts
  Keys <- MCKeys
  Tasks = {t1, t2}
  MaxCommands = 3
  MaxRekeys = 1
  NoKey = NoKey
  NoHost = NoHost
  NoPrompt = NoPrompt
INVARIANTS
  TrustedStays
  TrustAsShown
PROPERTIES
  OnlyUpdateOverwrites
  BusyEnds
CHECK_DEADLOCK FALSE
