\* A file of 4 chunks, a counter of 3, two sessions, a server with or without
\* options.
SPECIFICATION Spec
CONSTANTS
  Sessions = {s1, s2}
  None = None
  Chunks = 4
  MaxRetries = 2
  Wrap = 3
  Life = 2
  OldFile = OldFile
  NoFile = NoFile
INVARIANTS InStep SendCompleteMeansReceived EventsMatchOutcome
PROPERTIES AtomicSafety EverythingEnds
CHECK_DEADLOCK FALSE
