\* Three commands of any kind on one session, files of two chunks.
SPECIFICATION AnsweringSpec
CONSTANTS
  MaxJobs = 3
  Chunks = 2
  OldFile = OldFile
  NoFile = NoFile
  None = None
INVARIANTS InSync NoStuckBar TokensInFlight
PROPERTIES DoneMeansStored DownloadsAtomic JobsEnd
CHECK_DEADLOCK FALSE
