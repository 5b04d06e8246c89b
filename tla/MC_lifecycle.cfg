\* An SFTP server with two session tasks, which are reused without end.  A
\* session of FTP or TFTP is one that stays in the handshake state.
SPECIFICATION FairSpec
CONSTANTS
  Sessions = {s1, s2}
  Loop = loop
  Detached = TRUE
INVARIANTS CountIsGuards PortFreeAfterStop EndsExplained SnapshotCurrentIfNoOverlap
PROPERTY ContractSpec
CHECK_DEADLOCK FALSE
