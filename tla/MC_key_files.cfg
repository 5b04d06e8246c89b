SPECIFICATION Spec
CONSTANTS
  Tasks = {t1, t2}
  MaxCommands = 4
  Missing = Missing
  Empty = Empty
  Broken = Broken
  Nothing = Nothing
INVARIANTS
  TypeOK
  ShownOnDisk
  TellsWhole
  PairMatches
CHECK_DEADLOCK FALSE
