\* One page, which runs one start, stop or refresh at a time (busy).
SPECIFICATION Spec
CONSTANTS
  MaxStarts = 2
  Ports = {p1}
  Cards = {card}
  Callers = {card}
  MaxLive = 1
  Visited = {1}
  None = none
INVARIANTS NoOrphan OneCardIsSafe LastEventCurrent DeadServerHidden
PROPERTIES CommandsReturn ToldServersVanish
CHECK_DEADLOCK FALSE
