SPECIFICATION RunningSpec
CONSTANTS
  Tasks = {t1, t2}
  NoTask = NoTask
  MaxPairs = 2
  MaxAttempts = 1
SYMMETRY Symmetry
PROPERTY
  RefreshedPairIsKept
CHECK_DEADLOCK FALSE
