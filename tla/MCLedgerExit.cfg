SPECIFICATION ExitSpec
CONSTANTS
  Streams = {s1, s2}
  Tasks = {f1}
  Main = Main
  Nobody = Nobody
SYMMETRY Symmetry
PROPERTY
  SavedAtExit
CHECK_DEADLOCK FALSE
