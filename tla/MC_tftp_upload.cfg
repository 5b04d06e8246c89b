\* The same in the other direction; the cap is met in the middle of the file, or
\* not at all.
SPECIFICATION Spec
CONSTANTS
  Sessions = {s1, s2}
  None = None
  Chunks = 4
  MaxRetries = 2
  Wrap = 3
  Life = 2
  Caps = {2, 9}
  OldFile = OldFile
  NoFile = NoFile
INVARIANTS InStep DoneMeansReceived StoresInOrderUpToCap
PROPERTY EverythingEnds
CHECK_DEADLOCK FALSE
