\* The same page; the last event of a stopped server may come late.
SPECIFICATION Safety
CONSTANTS
  MaxStarts = 2
  Ports = {p1}
  Cards = {card}
  Callers = {card}
  MaxLive = 1
  Visited = {1}
  None = none
INVARIANT RunningServerShown
CHECK_DEADLOCK FALSE
