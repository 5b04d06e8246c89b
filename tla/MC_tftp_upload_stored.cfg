CONSTANTS
  Sessions = {s1, s2}
  None = None
  Chunks = 4
  MaxRetries = 2
  Wrap = 3
  Life = 2
  Caps = {9}
  OldFile = OldFile
  NoFile = NoFile
SPECIFICATION Safety
INVARIANT DoneMeansStored
CHECK_DEADLOCK FALSE
