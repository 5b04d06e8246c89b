\* A connection and a transfer, and a server that may fall silent.
SPECIFICATION Spec
CONSTANTS
  MaxJobs = 2
  Chunks = 2
  OldFile = OldFile
  NoFile = NoFile
  None = None
PROPERTY TransfersLetGo
CHECK_DEADLOCK FALSE
