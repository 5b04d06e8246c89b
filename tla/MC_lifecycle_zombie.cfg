SPECIFICATION Spec
CONSTANTS
  Sessions = {s1, s2}
  Loop = loop
  Detached = FALSE
INVARIANT DeadLoopNotShownRunning
CHECK_DEADLOCK FALSE
